CONSTANTS
  Request = {w1}
  PerLevel = 3
  MaxSessions = 5
  MaxMarks = 2
  Students = 2
  Today = {2, 4}
  Operations <- AllOperations
  StatusPatches <- HeldPatches
SPECIFICATION Spec
INVARIANTS
  UniqueNumbers
  SessionPagesAgree
  GapsNeedDeletes
PROPERTIES
  OrderKept
  LessonsKept
CHECK_DEADLOCK FALSE
