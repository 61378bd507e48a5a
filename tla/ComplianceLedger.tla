-------------------------- MODULE ComplianceLedger --------------------------
(***************************************************************************)
(* What checks promise to someone who reads only committed data: a check   *)
(* run publishes all its verdicts at one instant, or nothing; and at that  *)
(* very instant it raises one alert for each control whose verdict got     *)
(* worse than the one published before, and no other (ADR-0008 section 2). *)
(***************************************************************************)
EXTENDS Decision

CONSTANTS Runs, Nothing

VARIABLES
  current,    \* the verdict in force, or Nothing before the first run
  published,  \* the runs that have published
  alerts      \* the alerts raised: <<run, control>>

vars == <<current, published, alerts>>

Init ==
  /\ current = [c \in Controls |-> Nothing]
  /\ published = {}
  /\ alerts = {}

Publish(r, verdict) ==
  /\ r \notin published
  /\ published' = published \cup {r}
  /\ current' = verdict
  /\ alerts' = alerts \cup
       {<<r, c>> : c \in {d \in Controls : IsWorsening(current[d], verdict[d])}}

Next == \E r \in Runs, verdict \in [Controls -> Verdicts] : Publish(r, verdict)

Spec == Init /\ [][Next]_vars
=============================================================================
