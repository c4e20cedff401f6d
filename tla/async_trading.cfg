SPECIFICATION FairSpec
CONSTANTS
  Markets = {btc}
  Unwired = other
  Held = {old, older}
  MaxTicks = 3
  MaxQueue = 1
  Workers = 3
  MaxFailures = 1
INVARIANTS
  ClosedOnce
  NothingLeftBehind
PROPERTIES
  StopEnds
CHECK_DEADLOCK FALSE
