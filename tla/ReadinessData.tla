---------------------------- MODULE ReadinessData ----------------------------
(***************************************************************************)
(* What the readiness score is made of (services/scoring.py, ADR-0007).    *)
(* Weights are Numeric(4,2) columns and are counted in hundredths; credits *)
(* are counted in halves; percentages, which the code rounds to two        *)
(* decimals, are counted in hundredths of a percent.                       *)
(***************************************************************************)
EXTENDS Integers, Sequences

CONSTANTS
  Controls,     \* the codes of the active controls
  ControlOrder, \* the same, ORDER BY code
  Weight,       \* severity_weight of a control, in hundredths
  NoScore       \* score is None

\* ck_controls_severity_weight_range: more than 0 and at most 10.00.
ASSUME ReadinessAssumption ==
  /\ ControlOrder \in Seq(Controls)
  /\ \A i, j \in 1..Len(ControlOrder) :
        ControlOrder[i] = ControlOrder[j] => i = j
  /\ \A c \in Controls : \E i \in 1..Len(ControlOrder) : ControlOrder[i] = c
  /\ Weight \in [Controls -> 1..1000]
  /\ NoScore \notin Int

Scored_IfCredited == {"compliant", "partial"}
Scored == {"compliant", "partial", "non_compliant", "unknown"}
NotScored == {"not_assessed"}
Excluded == {"not_applicable"}
Statuses == Scored \cup NotScored \cup Excluded

\* _SCORE_CREDIT, in halves.
Credit(s) == IF s = "compliant" THEN 2 ELSE IF s = "partial" THEN 1 ELSE 0

GapStatuses_NoPartial == {"non_compliant", "unknown", "not_assessed"}

\* _GAP_STATUSES.
GapStatuses == {"non_compliant", "partial", "unknown", "not_assessed"}
GapsIn(status) == {c \in Controls : status[c] \in GapStatuses}

\* round(num / den * 100, 2): the nearest hundredth, either one at a tie.
Percent(num, den) ==
  LET floor == (10000 * num) \div den IN
  {k \in {floor, floor + 1} : 2 * k * den - 20000 * num \in (0 - den)..den}

\* The order of the gap report: the heaviest first, then by code.
Place(c) == CHOOSE i \in 1..Len(ControlOrder) : ControlOrder[i] = c
Before(c, d) ==
  \/ Weight[c] > Weight[d]
  \/ Weight[c] = Weight[d] /\ Place(c) < Place(d)
=============================================================================
