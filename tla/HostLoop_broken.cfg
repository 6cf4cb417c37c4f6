SPECIFICATION Spec
CONSTANTS
  Turns = {t1, t2, t3}
  MaxHistory = 6
  WindowSize = 4
  MaxRounds = 1
  MaxCalls = 2
  MaxInFlight = 2
SYMMETRY Symmetry
CHECK_DEADLOCK FALSE
INVARIANT EveryCallIsAnswered
