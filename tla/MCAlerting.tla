----------------------------- MODULE MCAlerting -----------------------------
(* Alerting on a small instance, for TLC. *)
EXTENDS Alerting, TLC

CONSTANTS c1, q1

OneControl == {c1}
OneQuestion == c1 :> {q1}
AllTransitions == (1..Checks) \X Controls
=============================================================================
