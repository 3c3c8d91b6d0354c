CONSTANTS
  NVariants = 2
  NWarehouses = 2
  OpeningRows <- SomeRows
  s1 = s1
  s2 = s2
  Suppliers = {s1, s2}
  OpeningPayments <- SomePayments
  Deliveries <- SomeDeliveries
  AmountsPaid = {1, 2, 3}
  OpeningReceipts <- SomeReceipts
  Shipments <- SomeShipments
  OpeningTransfers <- SomeTransfers
  OpeningIds = {0}
  OpeningReasons = {0}
  OpeningArchived = {2}
  Requests <- SomeRequests
  NCalls = 2
  None = None
SPECIFICATION Spec
INVARIANTS
  TypeOK
  StockAccounts
  DebtAccounts
  RowsUnique
PROPERTIES
  RestoredEmpty
CHECK_DEADLOCK FALSE
