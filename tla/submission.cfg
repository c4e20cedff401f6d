SPECIFICATION FairSpec
CONSTANTS
  Callers = {cycle, api}
  Keys = {close, order}
  FlattenKeys = {close}
  MaxAttempts = 2
  MaxCrashes = 1
  NoKey = NoKey
  FailureThreshold = 1
  SuccessesToClose = 2
INVARIANTS
  IntentBeforeBroker
PROPERTIES
  ImplementsOnceOnly
  CallerReturns
  FlattenReachesBroker
