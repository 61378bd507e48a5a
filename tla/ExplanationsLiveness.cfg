SPECIFICATION FairSpec
CONSTANTS
  r1 = r1
  r2 = r2
  r3 = r3
  Controls = {"c1"}
  Questions = {"q1"}
  RuleQuestions <- OneQuestion
  Requests = {r1, r2, r3}
  Releases = 1
  Edition <- SameEditionOnce
  Denylist <- FirstDenylist
  Drafts <- OneDraft
  PoolSize = 1
  MaxAttempts = 2
  NoText = NoText
CHECK_DEADLOCK FALSE
PROPERTIES
  RequestsEnd
