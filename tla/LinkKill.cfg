CONSTANTS
  Msgs = {m1, m2}
  NoMsg = NoMsg
  MsgSize = 1
  FILEBUFFERSIZE = 2
  MaxPkt = 1
  MAXNAKSIZE = 1
  MaxNAKs = 1
  Faults = {"kill", "error", "pipe"}
  MaxLives = 2
  InitDataCount = 1
  MAX_EOMS = 2
  OutDataSize = 1
  QueueSize = 2
  MaxLosses = 2
  Patient = FALSE
  LinkFaults = {"stop", "kill", "cancel"}
SYMMETRY Symmetry
SPECIFICATION LinkSpec
INVARIANTS Kept NoUnexpectedEOM EOMAHonest
CHECK_DEADLOCK FALSE
