SPECIFICATION FairSpec
CONSTANTS
  o1 = o1
  o2 = o2
  none = none
  Orders = {o1, o2}
  Foreign = {o2}
  NoOrder = none
  MaxFailures = 2
  MaxStarts = 2
INVARIANTS
  DriftClosesGate
  DriftOnlyByKnownCauses
PROPERTIES
  DriftIsCaught
CHECK_DEADLOCK FALSE
