CONSTANTS
  Competition = {c1}
  Category = {k1}
  Name = {n1, n2}
  Student = {s1, s2}
  Sub = {junior}
  NoSub = nosub
  Blank = blank
  Request = {q1, q2}
  NoTeam = noteam
  MaxTeams = 2
  MaxOps = 4
SYMMETRY Symmetry
SPECIFICATION Spec
INVARIANTS
  TeamPagesAgree
  PaymentsKeepTheirMembers
  ToldIsTrue
  DuplicatesAreWarned
  NameClashesAreExplained
CHECK_DEADLOCK FALSE
