SPECIFICATION FairSpec
CONSTANTS
  c1 = c1
  c2 = c2
  q1 = q1
  q2 = q2
  Controls <- TwoControls
  Questions = {q1}
  RuleQuestions <- NoRuleForTwo
  ControlOrder <- TwoOrder
  Runs = {r1, r2}
  Submissions = {s1}
  NoRun = NoRun
  Elapse = {0, 1}
CHECK_DEADLOCK FALSE
PROPERTIES
  RunsEnd
