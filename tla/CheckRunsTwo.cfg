SPECIFICATION Spec
CONSTANTS
  c1 = c1
  c2 = c2
  q1 = q1
  q2 = q2
  Controls <- TwoControls
  Questions = {q1, q2}
  RuleQuestions <- OverlappingRules
  ControlOrder <- TwoOrder
  Runs = {r1, r2}
  Submissions = {s1, s2}
  NoRun = NoRun
  Elapse = {0, 1}
SYMMETRY Symmetry
CHECK_DEADLOCK FALSE
INVARIANTS
  TypeOK
  AssessedMeansCurrent
  NoWaitingCircle
PROPERTIES
  ImplementsLedger
