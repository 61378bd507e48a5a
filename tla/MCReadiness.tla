----------------------------- MODULE MCReadiness -----------------------------
(* Readiness on a small instance, for TLC: one control with one question,  *)
(* three verdicts, room for three runs and a reader.                       *)
EXTENDS Readiness, TLC

CONSTANTS c1, q1

OneControl == {c1}
OneOrder == <<c1>>
OneQuestion == c1 :> {q1}

\* Runs are interchangeable, and so are submissions.
Symmetry == Permutations(Runs) \cup Permutations(Submissions)
=============================================================================
