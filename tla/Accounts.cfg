CONSTANTS
  e1 = e1
  e2 = e2
  e3 = e3
  p1 = p1
  p2 = p2
  n1 = n1
  n2 = n2
  Emails = {e1, e2, e3}
  Passwords = {p1, p2}
  Phones = {n1, n2}
  OpeningUsers <- SomeUsers
  OpeningCustomers <- SomeCustomers
  OpeningEmails = {e1, e2}
  Requests <- SomeRequests
  LastSecond = 2
  NCalls = 3
  None = None
SPECIFICATION Spec
INVARIANTS
  TypeOK
  EmailsAllowed
  NoEmailLeft
  FirstTimersCanSignUp
  CodeChangesOnePhone
  EmailsOfCustomersDiffer
PROPERTIES
  GrantsTokens
CHECK_DEADLOCK FALSE
