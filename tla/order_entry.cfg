SPECIFICATION MCSpec
CONSTANTS
  Retail = {r1, r2, r3}
  Cycle = {d1}
  MaxQty = 2
  Cash = 8
  PositionPct = 25
  GrossPct = 25
  MaxNotional = 1
  MaxFailures = 2
  Pages = {"page"}
  QueueLen = 2
  Publishes = 4
  Markets = {"m1", "m2"}
  Users = {"u"}
  Files <- Sections
  Environments <- Variables
  Profiles <- MCProfiles
  Confidences = {20, 75}
  WinRates <- MCWinRates
  Quantities = {3}
  Ages = {60, 61}
  Gains <- MCGains
  Balance = 20
  Failures = 2
  MaxGross = 6
  MaxDay = 1
  MaxRestarts = 1
SYMMETRY Symmetry
INVARIANTS
  BooksAreTheFills
  CapOnlyOverrunByOverlap
  PagesKnowTheSwitch
PROPERTY RailsHold
CHECK_DEADLOCK FALSE
