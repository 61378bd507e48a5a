SPECIFICATION Spec
CONSTANTS
  r1 = r1
  r2 = r2
  r3 = r3
  Controls = {"c1"}
  Questions = {"q1", "q2"}
  RuleQuestions <- OneRule
  Requests = {r1, r2}
  Releases = 3
  Edition <- Editions
  Denylist <- GrowingDenylist
  Drafts <- ThreeDrafts
  PoolSize = 1
  MaxAttempts = 2
  NoText = NoText
SYMMETRY Symmetry
CHECK_DEADLOCK FALSE
INVARIANTS
  TypeOK
  ServedIsSafe
  WrittenForThisGap
  CacheIsVerified
PROPERTIES
  FirstWins
  ImplementsService
