CONSTANTS
  c = c
  d = d
  e = e
  Callers = {c, d, e}
  MaxFiles = 3
  MaxAlarms = 2
  MaxDeaths = 2
  NoPid = NoPid
  OldPid = OldPid
SYMMETRY MCSymmetry
SPECIFICATION Spec
CONSTRAINT NoRace
INVARIANTS LockTypeOK OneDaemonUnlessRaced LockIsThere
CHECK_DEADLOCK FALSE
