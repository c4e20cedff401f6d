SPECIFICATION MCSpec
CONSTANTS
  Requests = {r1, r2, r3}
  Strategies = {trend, breakout, revert}
  Seeded = {trend}
  Asked = {"create", "enable", "disable", "promote", "archive"}
  Last = 3
  Promotion = 2
  Pilot = Pilot
  NoName = NoName
  Daemons = {primary, standby}
  Api = Api
  StaleAfter = 0
  MaxTime = 2
  MaxLaunches = 2
INVARIANTS
  OnePromoted
  NoStepSkipped
  StoredWhenQuiet
PROPERTY AlarmIsForTheDead
SYMMETRY Symmetry
