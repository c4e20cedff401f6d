SPECIFICATION FairSpec
CONSTANTS
  Callers = {c1, c2, c3}
  FailureThreshold = 3
  SuccessesToClose = 2
PROPERTY
  HealthyBrokerRecloses
