CONSTANTS
  r = r
  q = q
  Routers = {r, q}
  Mesgs = {1, 2}
  Id <- MCId
  Here = {"b"}
  Bound <- MCBound
  Broadcasts = {"b"}
  Filters = TRUE
  Terms = 1
  Deaths = 1
SYMMETRY MCSymmetry
SPECIFICATION Spec
CONSTRAINT OneEnd
INVARIANTS RouterTypeOK NothingLost RepeatsMarked
CHECK_DEADLOCK FALSE
