CONSTANTS
  Pos = {p1, p2}
  Users = {admin, cashier}
  Admins = {admin}
  Amounts = {1}
  NCalls = 2
  None = None
SPECIFICATION FairSpec
PROPERTIES
  OldNamesNotReused
  CallsEnd
  ShiftsClose
CHECK_DEADLOCK FALSE
