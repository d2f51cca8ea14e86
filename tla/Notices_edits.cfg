CONSTANTS
  team = team
  login = login
  absence = absence
  receipt = receipt
  task = task
  Request = {q1}
  Kind <- Kinds
  Direct = {login, absence}
  Receipt = {receipt}
  Staff = {task}
  Unset = {absence}
  Filters <- AllOrLogin
  Address = {a1, a2}
  ValidAddress = {a1, a2}
  Fallback = fallback
  Nobody = nobody
  MaxJobs = 2
  MaxEdits = 1
  MaxFaults = 1
SPECIFICATION Spec
INVARIANTS
  LogsTellTruth
  RightPeopleAreTold
PROPERTIES
  MailedOnce
  JobsEnd
CHECK_DEADLOCK FALSE
