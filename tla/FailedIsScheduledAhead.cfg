SPECIFICATION Spec
CONSTANTS
  Alerts = {a1}
  Workers = {w1, w2}
  NoAlert = NoAlert
  MaxAttempts = 3
  MaxBatch = 2
  BackoffBase = 1
  BackoffCap = 3
  SendDeadline = 1
  HoldLimit = 2
  Horizon = 1
  MaxRollbacks = 1
PROPERTIES
  FailedIsScheduledAhead
