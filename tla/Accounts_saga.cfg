CONSTANTS
  e1 = e1
  u1 = u1
  u2 = u2
  i1 = i1
  i2 = i2
  n1 = n1
  n2 = n2
  r1 = r1
  r2 = r2
  None = None
  Root = root
  RootUid = rootUid
  RootName = rootName
  Employee <- OneStaff
  User <- Users
  Identity <- Uids
  Name <- Names
  Person = {p1}
  Request <- Calls
  MaxEvents = 1
SPECIFICATION Spec
CONSTRAINT RootStays
SYMMETRY Symmetric
INVARIANTS
  IdentitiesMatchRows
  AccountPagesAgree
PROPERTY
  AccessFollowsStaff
CHECK_DEADLOCK FALSE
