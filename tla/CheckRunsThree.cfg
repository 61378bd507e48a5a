SPECIFICATION RSpec
CONSTANTS
  c1 = c1
  q1 = q1
  Controls <- OneControl
  Questions = {q1}
  RuleQuestions <- OneQuestion
  ControlOrder <- OneOrder
  Runs = {r1, r2, r3}
  Submissions = {s1, s2}
  NoRun = NoRun
  Elapse = {1}
SYMMETRY Symmetry
CHECK_DEADLOCK FALSE
INVARIANTS
  CleanHandoff
  OneBeginning
  AlertsTellHistory
  DeteriorationIsAlerted
  LapsesAreStale
