SPECIFICATION FairSpec
CONSTANTS
  Processes = {daemon, api}
  Targets = {7}
  StartVersions = {5}
  Followed = {"research_results", "lessons", "strategies", "users"}
  MaxCrashes = 1
  MaxTools = 1
INVARIANTS
  RowsSurvive
  NeverServesPartly
PROPERTIES
  ServesInTheEnd
CHECK_DEADLOCK FALSE
