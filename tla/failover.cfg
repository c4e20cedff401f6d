SPECIFICATION HaSpec
CONSTANTS
  Nodes = {n1, n2}
  StaleAfter = 1
INVARIANTS
  SplitBrainOnlyByLapseOrRace
PROPERTIES
  StandbyTakesOver
  SignalledStops
