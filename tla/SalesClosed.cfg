CONSTANTS
  NVariants = 1
  NWarehouses = 1
  NProducts = 1
  ProductOf <- OneProduct
  Opening <- OneEach
  NDocs = 2
  NShifts = 1
  WarehouseOf <- SharedWarehouse
  Stocked <- AllStocked
  Quantities = {1}
  MaxItems = 1
  None = None
SPECIFICATION Spec
PROPERTIES
  OrderInOpenShift
CHECK_DEADLOCK FALSE
