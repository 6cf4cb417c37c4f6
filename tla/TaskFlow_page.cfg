SPECIFICATION FairSpec
CONSTANTS
  None = None
  MaxSpecs = 3
  MaxSends = 3
  MaxRuns = 1
  MaxConfirms = 2
CHECK_DEADLOCK FALSE
INVARIANTS ReadyIsOfDraft OneBridgeStream KnownSpentIsUsed ToldOnce
PROPERTY NothingHangs
