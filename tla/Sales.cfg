CONSTANTS
  NVariants = 2
  NWarehouses = 1
  NProducts = 1
  ProductOf <- OneProduct
  Opening <- OneEach
  NDocs = 3
  NShifts = 1
  WarehouseOf <- SharedWarehouse
  Stocked <- AllStocked
  Quantities = {2}
  MaxItems = 2
  None = None
SPECIFICATION Spec
INVARIANTS
  TotalsAgree
  StockConserved
PROPERTIES
  ImplementsBook
CHECK_DEADLOCK FALSE
