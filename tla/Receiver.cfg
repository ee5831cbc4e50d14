CONSTANTS
  Msgs = {m1, m2}
  NoMsg = NoMsg
  MsgSize = 3
  FILEBUFFERSIZE = 2
  MaxPkt = 1
  MAXNAKSIZE = 1
  MaxNAKs = 1
  Faults = {"kill", "create", "error", "pipe", "echo", "space"}
  MaxLives = 3
SYMMETRY Symmetry
SPECIFICATION MCSpec
INVARIANTS NoFatal Tracked ResumePointSafe WholeWhenPassed RoutedWhole SpoolWhenCalm
PROPERTIES NoneTwiceWhenCalm
CHECK_DEADLOCK FALSE
