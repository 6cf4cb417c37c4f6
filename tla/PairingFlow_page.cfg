SPECIFICATION FairSpec
CONSTANTS
  None = None
  Devices = {d1}
  MaxAsks = 3
  MaxPairs = 2
  MaxRevokes = 1
CHECK_DEADLOCK FALSE
INVARIANTS KeyIsKept ForgottenIsDead
PROPERTY PollerEnds
