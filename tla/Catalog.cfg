CONSTANTS
  b1 = b1
  b2 = b2
  k1 = k1
  k2 = k2
  h1 = h1
  girls = girls
  boys = boys
  m1 = m1
  m2 = m2
  m3 = m3
  n1 = n1
  s1 = s1
  f1 = f1
  f2 = f2
  A = A
  x1 = x1
  x2 = x2
  Warehouses = {1, 2}
  Undefined = Undefined
  OpeningCatalog <- SomeCatalog
  Requests <- SomeRequests
  NCalls = 2
  None = None
SPECIFICATION Spec
INVARIANTS
  TypeOK
  TitlesNameProducts
  MediaHaveFiles
  NextSkuFree
  GroupsAndCategoriesDisjoint
  TotalsFollowRows
PROPERTIES
  DescriptionsStay
  FileImported
CHECK_DEADLOCK FALSE
