SPECIFICATION FairSpec
CONSTANTS
  r1 = r1
  r2 = r2
  a = a
  b = b
  q1 = q1
  q2 = q2
  Request <- Requests
  Report <- TwoReports
  Contact <- OneContact
  RecipientLists <- SingleOrDouble
  Fault <- PromptFaults
  MaxFaults = 1
INVARIANTS
  ReportedSent
PROPERTIES
  ImplementsDelivery
  EventuallyDelivered
