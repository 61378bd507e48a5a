----------------------------- MODULE MCCheckRuns -----------------------------
(* CheckRuns on small instances, for TLC. *)
EXTENDS CheckRunsRefinement, TLC

CONSTANTS c1, c2, q1, q2

\* One control with one question: three verdicts, room for more runs.
OneControl == {c1}
OneOrder == <<c1>>
OneQuestion == c1 :> {q1}

\* Two controls: all four verdicts, one shared question, or one without a rule.
TwoControls == {c1, c2}
TwoOrder == <<c1, c2>>
OverlappingRules == c1 :> {q1, q2} @@ c2 :> {q1}
SharedQuestion == c1 :> {q1} @@ c2 :> {q1}
NoRuleForTwo == c1 :> {q1}

\* Runs are interchangeable, and so are submissions (safety runs only).
Symmetry == Permutations(Runs) \cup Permutations(Submissions)
=============================================================================
