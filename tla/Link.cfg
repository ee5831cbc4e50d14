CONSTANTS
  Msgs = {m1, m2}
  NoMsg = NoMsg
  MsgSize = 3
  FILEBUFFERSIZE = 2
  MaxPkt = 2
  MAXNAKSIZE = 1
  MaxNAKs = 1
  Faults = {}
  MaxLives = 2
  InitDataCount = 1
  MAX_EOMS = 2
  OutDataSize = 2
  QueueSize = 2
  MaxLosses = 2
  Patient = FALSE
  LinkFaults = {"stop", "kill"}
SYMMETRY Symmetry
SPECIFICATION LinkSpec
INVARIANTS NotMixed
PROPERTIES KeepsReceiverSpec HandsOver
CHECK_DEADLOCK FALSE
