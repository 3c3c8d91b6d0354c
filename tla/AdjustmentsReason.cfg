CONSTANTS
  NVariants = 1
  NWarehouses = 1
  NProducts = 1
  ProductOf <- OneProduct
  Opening <- OneEach
  NCalls = 3
  Reasons = {r1}
  Quantities = {1}
  MaxItems = 1
  None = None
SPECIFICATION Spec
PROPERTIES
  ReasonsInUseStay
CHECK_DEADLOCK FALSE
