SPECIFICATION Spec
CONSTANTS
  r1 = r1
  r2 = r2
  a = a
  b = b
  q1 = q1
  q2 = q2
  Request <- Requests
  Report <- OneReport
  Contact <- OneContact
  RecipientLists <- SingleList
  Fault <- SlowOnly
  MaxFaults = 1
INVARIANT NeverBothSend
