SPECIFICATION PagerSpec
CONSTANTS
  Probes = {broker, vault}
  Transports = {pagerduty, slack}
  NoProbe = NoProbe
INVARIANTS
  PagesOncePerOutage
PROPERTIES
  TimersGoOn
