SPECIFICATION ASpec
CONSTANTS
  Controls <- AllControls
  ControlOrder <- CodeOrder
  Weight <- SeedControls
  NoScore = NoScore
  Questions <- AllQuestions
  RuleQuestions <- RuleSets
INVARIANTS
  TypeOK
  ScoreAndGapsAgree
  ReportIsReconstructable
  GapsNameTheWayOut
PROPERTIES
  AnswersMoveTheScore
