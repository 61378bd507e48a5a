------------------------------ MODULE Readiness ------------------------------
(***************************************************************************)
(* A reader of the readiness report (services/scoring.py,                  *)
(* api/readiness.py) beside the check runs of CheckRuns: the statuses the  *)
(* last report showed, and the alerts raised since.  What a report makes   *)
(* of the statuses it reads is in Scoring.                                 *)
(***************************************************************************)
EXTENDS CheckRunsRefinement

VARIABLES
  shown,    \* the rows of the last report, as pairs <<control, status>>
  reported, \* a report has been given
  \* history since the last report
  alerted,  \* controls with an alert raised
  lapsed,   \* controls that a run has set to "not assessed"
  stale     \* a run of overtaken answers has committed

readerVars == <<shown, reported, alerted, lapsed, stale>>

RInit ==
  /\ Init
  /\ shown = {}
  /\ reported = FALSE
  /\ alerted = {}
  /\ lapsed = {}
  /\ stale = FALSE

RowsOf(c, runs) ==
  IF runs = {} THEN {<<c, "not_assessed">>} ELSE {<<c, wrote[q][c]>> : q \in runs}

StatusRows_WholeHistory == UNION {RowsOf(c, Written(c)) : c \in Controls}

\* _SELECT_CONTROL_STATUSES_SQL, one statement over the committed rows: each
\* control with its current finding or, LEFT JOIN, without one.
StatusRows == UNION {RowsOf(c, CurrentRuns(c)) : c \in Controls}

\* readiness_report; an unknown tenant gets none.
Report ==
  /\ tenant
  /\ shown' = StatusRows
  /\ reported' = TRUE
  /\ alerted' = {}
  /\ lapsed' = {}
  /\ stale' = FALSE
  /\ UNCHANGED vars

\* The run r commits: its findings and outbox rows become visible.
CommitSeen(r) ==
  /\ Commit(r)
  /\ alerted' = alerted \cup enqueued[r]
  /\ lapsed' = lapsed \cup {c \in Controls : wrote[r][c] = "not_assessed"}
  /\ stale' = (stale \/ overtaken[r])
  /\ UNCHANGED <<shown, reported>>

\* Every other step of the checks is invisible to a reader.
StepUnseen ==
  /\ Next
  /\ \A r \in Runs : Committed(r)' = Committed(r)
  /\ UNCHANGED readerVars

RNext == Report \/ StepUnseen \/ \E r \in Runs : CommitSeen(r)

RSpec == RInit /\ [][RNext]_<<vars, readerVars>>

-----------------------------------------------------------------------------
(* Properties                                                              *)

\* Nothing gets worse in silence: a report has exactly one row per control,
\* and a control whose status is now worse than the last report showed has had
\* an alert since, although an alert compares a finding with its predecessor
\* only, and a reader two reports any number of runs apart.  The exception is
\* a control that was "not assessed" in between: that ranks nowhere
\* (ADR-0008 section 4), and neither of the two steps is a worsening.
DeteriorationIsAlerted ==
  reported =>
    \A c \in Controls :
      /\ \E s \in Verdicts : {t \in Verdicts : <<c, t>> \in shown} = {s}
      /\ \A s, t \in Verdicts :
           <<c, s>> \in shown /\ <<c, t>> \in StatusRows /\ IsWorsening(s, t) =>
             c \in alerted \cup lapsed

\* The exception is not the normal case: answers are never taken back, so a
\* control once assessed becomes "not assessed" only through a run whose
\* answers were overtaken while it ran.
LapsesAreStale ==
  ~stale => \A c \in lapsed, s \in Ranked : <<c, s>> \notin shown
=============================================================================
