CONSTANTS
  Limits = {1, 2}
  Wide = 2
  Items = {1, 2, 3, 4}
  Keys <- SomeKeys
  Openings <- SomeOpenings
  NChanges = 2
  None = None
SPECIFICATION Spec
INVARIANTS
  TypeOK
  AllShown
  NothingRepeated
CHECK_DEADLOCK FALSE
