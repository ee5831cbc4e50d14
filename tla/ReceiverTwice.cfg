CONSTANTS
  Msgs = {m1, m2}
  NoMsg = NoMsg
  MsgSize = 4
  FILEBUFFERSIZE = 2
  MaxPkt = 1
  MAXNAKSIZE = 1
  MaxNAKs = 1
  Faults = {}
  MaxLives = 3
SYMMETRY Symmetry
SPECIFICATION MCSpec
INVARIANTS RoutedAlwaysWhole
CHECK_DEADLOCK FALSE
