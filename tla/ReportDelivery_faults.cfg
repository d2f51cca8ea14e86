SPECIFICATION Spec
CONSTANTS
  r1 = r1
  r2 = r2
  a = a
  b = b
  q1 = q1
  q2 = q2
  Request <- Requests
  Report <- OneReport
  Contact <- Contacts
  RecipientLists <- Lists
  Fault <- AllFaults
  MaxFaults = 2
SYMMETRY RequestSymmetry
INVARIANTS
  SentMeansAccepted
  RepeatNeedsAbandonment
