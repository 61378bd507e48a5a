SPECIFICATION FairASpec
CONSTANTS
  c1 = c1
  q1 = q1
  Controls <- OneControl
  Questions = {q1}
  RuleQuestions <- OneQuestion
  Checks = 3
  Nothing = Nothing
  Alerts <- AllTransitions
  Workers = {w1}
  NoAlert = NoAlert
  MaxAttempts = 2
  MaxBatch = 1
  BackoffBase = 1
  BackoffCap = 1
  SendDeadline = 1
  HoldLimit = 2
  Horizon = 1
  MaxRollbacks = 1
INVARIANTS
  HeardIsTrue
PROPERTIES
  DeteriorationIsHeard
  ShutdownCompletes
  KeepsLedger
