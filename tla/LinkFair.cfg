CONSTANTS
  Msgs = {m1, m2}
  NoMsg = NoMsg
  MsgSize = 3
  FILEBUFFERSIZE = 2
  MaxPkt = 1
  MAXNAKSIZE = 1
  MaxNAKs = 3
  Faults = {}
  MaxLives = 2
  InitDataCount = 1
  MAX_EOMS = 3
  OutDataSize = 1
  QueueSize = 2
  MaxLosses = 2
  Patient = TRUE
  LinkFaults = {"stop"}
SPECIFICATION FairLinkSpec
INVARIANTS NeverGivesUp
PROPERTIES HandsOverAll
CHECK_DEADLOCK FALSE
