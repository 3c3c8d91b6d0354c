CONSTANTS
  NVariants = 2
  NWarehouses = 1
  NProducts = 1
  ProductOf <- OneProduct
  Opening <- OneEach
  NCalls = 2
  Reasons = {r1}
  Quantities = {1, 2}
  MaxItems = 2
  None = None
SPECIFICATION Spec
INVARIANTS
  TypeOK
  TotalsAgree
  DocumentsAccountForStock
PROPERTIES
  UpdateTakesEffect
CHECK_DEADLOCK FALSE
