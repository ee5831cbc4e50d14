CONSTANTS
  Entries = {"router", "daily"}
  Type <- MCType
  Foreign = {"daily"}
  NOTRUNNING = NOTRUNNING
  Pids = {1, 2, 3}
  MaxEvents = 2
SPECIFICATION FairSpec
INVARIANTS SupervisorTypeOK OneCopy NeverPausesInVain NoneLeft
CHECK_DEADLOCK FALSE
PROPERTY StartsAgain
