CONSTANTS
  Pos = {p1}
  Users = {admin}
  Admins = {admin}
  Amounts = {1, 2}
  NCalls = 3
  None = None
SPECIFICATION Spec
INVARIANTS
  TypeOK
  DriftExplained
  OverdraftBounded
  CreatedShiftIsFunded
CHECK_DEADLOCK FALSE
