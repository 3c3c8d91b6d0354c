CONSTANTS
  NVariants = 2
  NWarehouses = 2
  NProducts = 1
  ProductOf <- OneProduct
  Opening <- OneEach
  NDocs = 2
  NShifts = 3
  WarehouseOf <- ShiftWarehouse
  Stocked <- LastUnstocked
  Quantities = {1}
  MaxItems = 2
  None = None
SPECIFICATION FairSpec
INVARIANTS
  TypeOK
PROPERTIES
  NothingAfterClosing
  CallsEnd
CHECK_DEADLOCK FALSE
