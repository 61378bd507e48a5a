SPECIFICATION Spec
CONSTANTS
  Alerts = {a1, a2}
  Workers = {w1, w2}
  NoAlert = NoAlert
  MaxAttempts = 2
  MaxBatch = 2
  BackoffBase = 1
  BackoffCap = 2
  SendDeadline = 1
  HoldLimit = 1
  Horizon = 0
  MaxRollbacks = 1
SYMMETRY Symmetry
INVARIANTS
  TypeOK
  ClaimIsExclusive
  SentWasReceived
  AuditTellsTheEnd
  DuplicatesAreExplained
PROPERTIES
  RowHistory
