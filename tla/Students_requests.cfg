CONSTANTS
  Person = {p1, p2}
  Undated = {p2}
  Parent = {m1}
  Group = {g1}
  Request = {q1, q2}
  NoRow = norow
  MaxStudents = 2
  MaxPayments = 1
  MaxOps = 4
SYMMETRY Symmetry
SPECIFICATION Spec
INVARIANTS
  NothingIsLeftBehind
  DuplicatesAreExplained
  PaymentsFollowStudents
  LogIsTrue
  StudentPagesAgree
CHECK_DEADLOCK FALSE
