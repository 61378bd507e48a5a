------------------------------ MODULE Alerting ------------------------------
(***************************************************************************)
(* The alerting pipeline end to end (ADR-0008): check runs as              *)
(* ComplianceLedger promises them, one commit after the other, and the     *)
(* outbox, its workers and the receiver of OutboxWorker.  The commit of a  *)
(* run and the appearance of its outbox rows are one step; everything      *)
(* after it is concurrent with the next runs.  Runs are numbered in the    *)
(* order of their commits.                                                 *)
(***************************************************************************)
EXTENDS OutboxRefinement

CONSTANTS
  Controls, Questions, RuleQuestions, \* the catalogue, see Decision
  Checks,                             \* bound: check runs that commit
  Nothing                             \* no verdict yet

VARIABLES
  current,   \* the verdict in force of each control
  commits,   \* check runs committed
  worsened   \* history: <<run, control>> for each verdict that got worse

ledgerVars == <<current, commits, worsened>>

\* The rows of the outbox table.
Rows == {a \in Alerts : status[a] # "absent"}

Ledger == INSTANCE ComplianceLedger
            WITH Runs <- 1..Checks, published <- 1..commits, alerts <- Rows

\* One outbox row for each transition, keyed by its finding.
ASSUME AlertingAssumption ==
  /\ Checks \in Nat
  /\ Alerts = (1..Checks) \X Controls
  /\ Nothing \notin Ledger!Verdicts

AInit ==
  /\ Init
  /\ current = [c \in Controls |-> Nothing]
  /\ commits = 0
  /\ worsened = {}

Transitions(S) == {<<commits + 1, c>> : c \in S}

RowsFor_AnyChange(verdict) ==
  Transitions({c \in Controls : current[c] # Nothing /\ current[c] # verdict[c]})

\* The transitions run_check calls enqueue_alert for.
RowsFor(verdict) ==
  Transitions({c \in Controls : Ledger!IsWorsening(current[c], verdict[c])})

\* A check run commits its findings together with its outbox rows, if any.
CheckCommits(verdict) ==
  /\ commits < Checks
  /\ commits' = commits + 1
  /\ current' = verdict
  /\ worsened' = worsened \cup
       Transitions({c \in Controls : Ledger!IsWorsening(current[c], verdict[c])})
  /\ IF RowsFor(verdict) = {} THEN UNCHANGED vars ELSE Enqueue(RowsFor(verdict))

DeliveryStep ==
  /\ \/ Tick
     \/ \E a \in Alerts : LateArrival(a) \/ LateLoss(a)
     \/ \E w \in Workers : WorkerStep(w)
  /\ UNCHANGED ledgerVars

ANext ==
  \/ \E verdict \in [Controls -> Ledger!Verdicts] : CheckCommits(verdict)
  \/ DeliveryStep

ASpec == AInit /\ [][ANext]_<<vars, ledgerVars>>

\* The workers' fairness; none for the checks.
FairASpec == ASpec /\ Fairness

-----------------------------------------------------------------------------
(* Properties                                                              *)

\* No false alarm: what the receiver has heard of, or may still hear of
\* through a late request, is a verdict that got worse, and it was committed.
HeardIsTrue ==
  \A a \in Alerts : delivered[a] + late[a] > 0 => a \in worsened

\* No missed alarm: a committed verdict that got worse is eventually heard of
\* or given up with a record of it, unless all workers have been stopped,
\* while later runs change the verdict again and raise alerts of their own.
DeteriorationIsHeard ==
  \A a \in Alerts :
    a \in worsened ~>
      \/ delivered[a] > 0
      \/ deadEvents[a] > 0
      \/ \A w \in Workers : phase[w] = "stopped"

\* Delivery does not disturb the ledger: its alerts are the rows of the table
\* from the commit on, whatever becomes of them.
KeepsLedger == Ledger!Spec
=============================================================================
