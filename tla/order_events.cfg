SPECIFICATION MCSpec
CONSTANTS
  Workers = {w1, w2}
  Trades = {t1, t2}
  Events = {e1, e2}
  NoEvent = NoEvent
  MaxCrashes = 1
  Trio = {x1, x2, x3}
  Pair = {b1, b2}
  Publishers = {p}
  MaxMessages = 2
  MinConnections = 1
  MaxConnections = 2
  MaxPools = 2
  MaxMade = 4
  MaxHold = 2
  MaxFiles = 3
SYMMETRY Symmetry
INVARIANTS
  AppliedOnce
  OutboxIsHonest
  SharedOneAtATime
