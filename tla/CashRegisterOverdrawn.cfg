CONSTANTS
  Pos = {p1}
  Users = {admin}
  Admins = {admin}
  Amounts = {1}
  NCalls = 3
  None = None
SPECIFICATION Spec
INVARIANTS
  NeverOverdrawn
CHECK_DEADLOCK FALSE
