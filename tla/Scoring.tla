------------------------------- MODULE Scoring -------------------------------
(***************************************************************************)
(* readiness_report of services/scoring.py: one read of a tenant's current *)
(* findings (Load), compute_score row by row (CountRow), and the end of    *)
(* compute_score with build_gap_report over the same rows (Conclude).      *)
(***************************************************************************)
EXTENDS ReadinessData

\* With the weights the schema allows, two decimals tell every gap apart up to
\* ten controls, the number of the seed.  An eleventh could hide one: ten
\* compliant controls of weight 10.00 and a partial one of weight 0.01 score
\* 100.00.
ASSUME ResolutionAssumption == Len(ControlOrder) <= 10

VARIABLES
  status,      \* the rows read: the status of each active control
  row,         \* the row compute_score is at; 0 before the first report
  counts,      \* status -> number of controls
  achieved,    \* sum of weight * credit, in hundredths of halves
  weighed,     \* sum of the assessed controls' weights, in hundredths
  applicable, assessed,
  done, score, coverage, gaps

sums == <<counts, achieved, weighed, applicable, assessed>>
report == <<done, score, coverage, gaps>>
vars == <<status, row, sums, report>>

NoCounts == [s \in Statuses |-> 0]

Init ==
  /\ status = [c \in Controls |-> "not_assessed"]
  /\ row = 0
  /\ counts = NoCounts
  /\ achieved = 0 /\ weighed = 0 /\ applicable = 0 /\ assessed = 0
  /\ done = FALSE /\ score = NoScore /\ coverage = 0 /\ gaps = {}

Load_KeepSums(rows) ==
  /\ row = 0 \/ done
  /\ status' = rows
  /\ row' = 1
  /\ done' = FALSE /\ score' = NoScore /\ coverage' = 0 /\ gaps' = {}
  /\ UNCHANGED sums

\* _load_control_statuses: a control without a current finding is not
\* assessed.  The sums of compute_score start from zero.
Load(rows) ==
  /\ row = 0 \/ done
  /\ status' = rows
  /\ row' = 1
  /\ counts' = NoCounts
  /\ achieved' = 0 /\ weighed' = 0 /\ applicable' = 0 /\ assessed' = 0
  /\ done' = FALSE /\ score' = NoScore /\ coverage' = 0 /\ gaps' = {}

At == ControlOrder[row]
Counting == ~done /\ row \in 1..Len(ControlOrder)

CountRow_SkipZero ==
  LET s == status[At] IN
  /\ Counting
  /\ row' = row + 1
  /\ counts' = [counts EXCEPT ![s] = @ + 1]
  /\ applicable' = IF s \in Excluded THEN applicable ELSE applicable + 1
  /\ assessed' = IF s \in Scored THEN assessed + 1 ELSE assessed
  /\ weighed' = IF Credit(s) > 0 THEN weighed + Weight[At] ELSE weighed
  /\ achieved' = IF s \in Scored THEN achieved + Weight[At] * Credit(s)
                                 ELSE achieved
  /\ UNCHANGED <<status, report>>

\* The loop of compute_score.
CountRow ==
  LET s == status[At] IN
  /\ Counting
  /\ row' = row + 1
  /\ counts' = [counts EXCEPT ![s] = @ + 1]
  /\ applicable' = IF s \in Excluded THEN applicable ELSE applicable + 1
  /\ IF s \in Scored
       THEN /\ assessed' = assessed + 1
            /\ weighed' = weighed + Weight[At]
            /\ achieved' = achieved + Weight[At] * Credit(s)
       ELSE UNCHANGED <<assessed, weighed, achieved>>
  /\ UNCHANGED <<status, report>>

\* The two percentages, each guarded against a zero denominator, and the
\* gap report.
Conclude ==
  /\ ~done
  /\ row = Len(ControlOrder) + 1
  /\ done' = TRUE
  /\ score' \in IF assessed = 0 \/ weighed = 0 THEN {NoScore}
                ELSE Percent(achieved, 2 * weighed)
  /\ coverage' \in IF applicable = 0 THEN {0} ELSE Percent(assessed, applicable)
  /\ gaps' = GapsIn(status)
  /\ UNCHANGED <<status, row, sums>>

Next ==
  \/ \E rows \in [Controls -> Statuses] : Load(rows)
  \/ CountRow
  \/ Conclude

Spec == Init /\ [][Next]_vars

-----------------------------------------------------------------------------
(* Properties                                                              *)

TypeOK ==
  /\ status \in [Controls -> Statuses]
  /\ row \in 0..(Len(ControlOrder) + 1)
  /\ counts \in [Statuses -> 0..Len(ControlOrder)]
  /\ weighed \in Nat
  /\ achieved \in 0..(2 * weighed)
  /\ applicable \in 0..Len(ControlOrder)
  /\ assessed \in 0..applicable
  /\ done \in BOOLEAN
  /\ score \in 0..10000 \cup {NoScore}
  /\ coverage \in 0..10000
  /\ gaps \in SUBSET Controls

\* The two numbers and the gap list of one report never contradict each other
\* (ADR-0007 sections 1, 4 and 5), although they come from separate loops with
\* separate status tables and the numbers are rounded: no score exactly if
\* nothing is assessed, 100 exactly if every assessed control is compliant, 0
\* exactly if none earns anything, full coverage exactly if no gap is an
\* unassessed one.
ScoreAndGapsAgree ==
  done =>
    LET judged == {c \in Controls : status[c] \in Scored}
        unseen == {c \in gaps : status[c] = "not_assessed"} IN
    /\ score = NoScore <=> judged = {}
    /\ score = 10000 <=> judged # {} /\ gaps = unseen
    /\ score = 0 <=> judged # {} /\ \A c \in judged :
                                        status[c] \in {"non_compliant", "unknown"}
    /\ judged \cup unseen # {} => (coverage = 10000 <=> unseen = {})
    /\ coverage = 0 <=> judged = {}
=============================================================================
