CONSTANTS
  MsgSize = 6
  MAXNAKSIZE = 1
  MaxNAKs = 2
  Huge = 100
  Budgets = {0, 1, 3, 7}
  MaxEOMs = 3
SPECIFICATION Spec
INVARIANTS ListIsRuns NeverGrumbles EndsWhole
PROPERTIES SecondEOMAsks
CHECK_DEADLOCK FALSE
