SPECIFICATION LimiterSpec
CONSTANTS
  None = None
  Threads = {p1, p2}
  Keys = {k1, k2}
  WindowSeconds = 2
  Limit = 2
  MaxTime = 4
  MaxHits = 4
SYMMETRY Symmetry
CHECK_DEADLOCK FALSE
INVARIANTS InOrderIsLimited RefusedIsOverLimit
