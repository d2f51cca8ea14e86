CONSTANTS
  w1 = w1
  w2 = w2
  e1 = e1
  e2 = e2
  m1 = m1
  s1 = s1
  Request <- Requests
  Enrollment = {e1, e2}
  Member = {m1}
  Status <- Statuses
  Level <- Levels
  Price = {0, 2}
  Receipts <- OneLine
  Amount = {1}
  RefundableKind = {"payment"}
  Unwraps <- Booleans
  MaxPayments = 3
  MaxCrashes = 1
  Student = {s1}
  StudentOf <- Students
  Open <- OpenLevels
  Old = {e1}
  Lessons <- Tomorrow
  FeeDue <- Fees
  Day <- Days
  DayOf <- DayOfRow
  Method = {"cash", "card"}
  MethodOf <- MethodOfRow
  Started <- StartOf
  Own <- HasOwn
SPECIFICATION Spec
SYMMETRY Symmetric
CONSTRAINT OneRace
INVARIANTS
  RefundsWithinOriginal
  FeesAreCovered
  CreditIsAllowed
  PayersStay
  DebtsAgree
  MoneyAgrees
CHECK_DEADLOCK FALSE
