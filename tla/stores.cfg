SPECIFICATION MCSpec
CONSTANTS
  a = a
  b = b
  c = c
  Threads <- MCThreads
  Home <- MCHome
  Backends = {"sqlite", "postgres"}
  Mixes = {
    {"get"},
    {"add", "update", "delete", "get", "report", "history"},
    {"add", "gauge", "record", "purge", "query"},
    {"add", "record_run", "get_runs", "create_user", "authenticate"},
    {"add", "create_session", "validate_session", "revoke_session"},
    {"add", "issue_api_key", "validate_api_key", "revoke_api_key"}}
  MaxCalls = 4
  MaxCrashes = 1
  Kinds = {"trades", "positions", "signals", "strategies", "backtests",
           "observations", "hypotheses", "experiments", "results", "lessons",
           "nodes", "edges", "indicators", "zones", "markets", "candles"}
SYMMETRY Symmetry
INVARIANTS AcknowledgedIsStored ChainBrokenOnlyByOverlap RevokedStaysOut StoresAndCopiesAgree
CHECK_DEADLOCK FALSE
