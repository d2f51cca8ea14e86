CONSTANTS
  Process = {p1}
  t1 = t1
  t2 = t2
  Template <- Templates
  Calendar <- Dates
  Interval = 2
  NoMidnight = {3}
  LastDay = 4
  MaxFaults = 2
  MaxUpdates = 1
SPECIFICATION TasksSpec
SYMMETRY Symmetric
INVARIANTS
  SpawnedOnce
  OwedSpawned
PROPERTY
  IntervalKept
CHECK_DEADLOCK FALSE
