--------------------------- MODULE AlertingProofs ---------------------------
(***************************************************************************)
(* The pipeline of Alerting is an OutboxWorker and keeps the ledger of     *)
(* ComplianceLedger, so what is proved of each holds of the whole, for any *)
(* number of checks, controls and workers.  The fact that joins the two is *)
(* that the rows of the outbox are exactly the transitions that got worse, *)
(* all of them of runs that have committed.                                *)
(***************************************************************************)
EXTENDS Alerting, OutboxWorkerProofs

Joined ==
  /\ commits \in 0..Checks
  /\ Rows = worsened
  /\ \A a \in worsened : a[1] \in 1..commits

LEMMA JoinedInit == AInit => Joined
  BY AlertingAssumption DEF AInit, Init, Joined, Rows

\* Nothing in the outbox, the workers or the network removes or adds a row.
LEMMA RowsStay ==
  ASSUME Inv, DeliveryStep
  PROVE  Rows' = Rows
<1> USE DEF Inv, RowInv, TypeOK, HandsAgree, ClaimIsExclusive, Holding, InFlight,
            OpenStatus, Rows, tableVars
<1>1. CASE Tick
  BY <1>1 DEF Tick
<1>2. CASE \E a \in Alerts : LateArrival(a) \/ LateLoss(a)
  BY <1>2 DEF LateArrival, LateLoss
<1>3. ASSUME NEW w \in Workers, WorkerStep(w) PROVE Rows' = Rows
  <2>1. CASE \/ StartBatch(w) \/ \E a \in Alerts : Claim(w, a)
             \/ EndBatch(w) \/ RequestStop(w) \/ Stop(w)
    BY <2>1, OtherSteps
  <2>2. CASE \/ Accept(w) \/ (\E reply \in Replies : Reply(w, reply))
             \/ Timeout(w) \/ TransportError(w)
    BY <2>2 DEF Accept, Reply, Timeout, TransportError, Answered
  <2>3. CASE MarkSent(w) \/ RetryLater(w) \/ DeadLetter(w)
    BY <2>3 DEF MarkSent, RetryLater, DeadLetter
  <2>4. CASE TickFails(w) \/ Crash(w)
    BY <2>4 DEF TickFails, Crash, Rollback
  <2>5. QED
    BY <1>3, <2>1, <2>2, <2>3, <2>4 DEF WorkerStep
<1>4. QED
  BY <1>1, <1>2, <1>3 DEF DeliveryStep

LEMMA CommitJoins ==
  ASSUME Inv, Joined, NEW verdict \in [Controls -> Ledger!Verdicts],
         CheckCommits(verdict)
  PROVE  /\ Joined'
         /\ Ledger!Publish(commits + 1, verdict)
         /\ commits + 1 \in 1..Checks
<1>1. /\ commits \in Nat /\ Checks \in Nat /\ commits + 1 <= Checks
      /\ commits' = commits + 1 /\ current' = verdict
      /\ worsened' = worsened \cup RowsFor(verdict)
  BY AlertingAssumption DEF CheckCommits, Joined, RowsFor
<1>2. RowsFor(verdict) \subseteq Alerts
  <2>1. commits + 1 \in 1..Checks
    BY <1>1
  <2>2. QED
    BY <2>1, AlertingAssumption DEF RowsFor, Transitions
<1>3. Rows' = Rows \cup RowsFor(verdict)
  <2>1. CASE RowsFor(verdict) = {}
    BY <2>1 DEF CheckCommits, vars, tableVars, Rows
  <2>2. CASE RowsFor(verdict) # {}
    BY <1>2, <2>2 DEF CheckCommits, Enqueue, Rows
  <2>3. QED
    BY <2>1, <2>2
<1>4. \A a \in RowsFor(verdict) : a[1] = commits + 1
  BY DEF RowsFor, Transitions
<1>5. 1..(commits + 1) = (1..commits) \cup {commits + 1}
  BY <1>1
<1>6. Joined'
  <2>1. commits' \in 0..Checks
    BY <1>1
  <2>2. \A a \in worsened' : a[1] \in 1..(commits + 1)
    BY <1>1, <1>4, <1>5 DEF Joined
  <2>3. QED
    BY <1>1, <1>3, <2>1, <2>2 DEF Joined
<1>7. Ledger!Publish(commits + 1, verdict)
  <2>1. commits + 1 \notin 1..commits
    BY <1>1
  <2>2. (1..commits)' = (1..commits) \cup {commits + 1}
    BY <1>1, <1>5
  <2>3. Rows' = Rows \cup {<<commits + 1, c>> :
                 c \in {d \in Controls : Ledger!IsWorsening(current[d], verdict[d])}}
    BY <1>3 DEF RowsFor, Transitions
  <2>4. QED
    BY <1>1, <2>1, <2>2, <2>3 DEF Ledger!Publish
<1>8. QED
  BY <1>1, <1>6, <1>7

LEMMA DeliveryJoins ==
  ASSUME Inv, Joined, DeliveryStep
  PROVE  Joined' /\ UNCHANGED Ledger!vars
<1>1. /\ current' = current /\ commits' = commits /\ worsened' = worsened
      /\ Rows' = Rows
  BY RowsStay DEF DeliveryStep, ledgerVars
<1>2. QED
  BY <1>1 DEF Joined, Ledger!vars

\* A step of the pipeline is a step of the worker's module or none.
LEMMA PipelineStep ==
  ASSUME Joined, [ANext]_<<vars, ledgerVars>>
  PROVE  [Next]_vars
<1>1. CASE DeliveryStep
  BY <1>1 DEF DeliveryStep, Next
<1>2. ASSUME NEW verdict \in [Controls -> Ledger!Verdicts], CheckCommits(verdict)
      PROVE  [Next]_vars
  <2>1. RowsFor(verdict) \subseteq Alerts
    <3>1. commits + 1 \in 1..Checks
      BY <1>2, AlertingAssumption DEF CheckCommits, Joined
    <3>2. QED
      BY <3>1, AlertingAssumption DEF RowsFor, Transitions
  <2>2. QED
    BY <1>2, <2>1 DEF CheckCommits, Next
<1>3. QED
  BY <1>1, <1>2 DEF ANext

LEMMA PipelineInvariance == ASpec => [](Inv /\ Joined)
<1>1. AInit => Inv /\ Joined
  BY InvInit, JoinedInit DEF AInit
<1>2. Inv /\ Joined /\ [ANext]_<<vars, ledgerVars>> => Inv' /\ Joined'
  <2> SUFFICES ASSUME Inv, Joined, [ANext]_<<vars, ledgerVars>>
               PROVE  Inv' /\ Joined'
    OBVIOUS
  <2>1. Inv'
    BY PipelineStep, InvNext
  <2>2. CASE UNCHANGED <<vars, ledgerVars>>
    BY <2>1, <2>2 DEF Joined, Rows, vars, tableVars, ledgerVars
  <2>3. Joined'
    BY <2>2, CommitJoins, DeliveryJoins DEF ANext
  <2>4. QED
    BY <2>1, <2>3
<1>3. QED
  BY <1>1, <1>2, PTL DEF ASpec

\* Whatever is proved of OutboxWorker holds of the pipeline.
THEOREM PipelineIsWorker == ASpec => Spec
<1>1. AInit => Init
  BY DEF AInit
<1>2. Joined /\ [ANext]_<<vars, ledgerVars>> => [Next]_vars
  BY PipelineStep
<1>3. QED
  BY <1>1, <1>2, PipelineInvariance, PTL DEF ASpec, Spec

\* No false alarm, for any number of checks, controls and workers: nothing
\* the network holds or the receiver has seen is anything but a committed
\* verdict that got worse.
THEOREM NoFalseAlarm == ASpec => []HeardIsTrue
<1>1. Inv /\ Joined => HeardIsTrue
  <2> SUFFICES ASSUME Inv, Joined, NEW a \in Alerts, delivered[a] + late[a] > 0
               PROVE  a \in worsened
    BY DEF HeardIsTrue
  <2>1. late[a] > 0 \/ delivered[a] > 0
    BY DEF Inv, RowInv, TypeOK
  <2>2. a \in Rows
    BY <2>1, LateHasRow DEF Rows
  <2>3. QED
    BY <2>2 DEF Joined
<1>2. QED
  BY <1>1, PipelineInvariance, PTL

\* What the outbox promises of delivery holds of the whole pipeline.
THEOREM PipelineDelivers == ASpec => ImplementsDelivery
BY PipelineIsWorker, Refinement

\* An alert is open, received, or recorded as given up.
NoneLost ==
  \A a \in worsened :
    \/ status[a] \in OpenStatus
    \/ delivered[a] > 0
    \/ deadEvents[a] = 1

\* No alarm is lost on the way, whatever the workers and the network do and
\* whatever later checks find: a committed verdict that got worse is still
\* to be sent, or was received, or is on record as given up, with one audit
\* event.
THEOREM NothingIsLost == ASpec => []NoneLost
<1>1. Inv /\ Joined => NoneLost
  <2> SUFFICES ASSUME Inv, Joined, NEW a \in worsened
               PROVE  \/ status[a] \in OpenStatus
                      \/ delivered[a] > 0
                      \/ deadEvents[a] = 1
    BY DEF NoneLost
  <2>1. a \in Alerts /\ status[a] # "absent"
    BY DEF Joined, Rows
  <2>2. CASE status[a] = "sent"
    BY <2>1, <2>2 DEF Inv, SentWasReceived
  <2>3. CASE status[a] = "dead_letter"
    BY <2>1, <2>3 DEF Inv, AuditTellsTheEnd
  <2>4. status[a] \in {"absent"} \cup OpenStatus \cup {"sent", "dead_letter"}
    BY <2>1 DEF Inv, RowInv, TypeOK, Status, Terminal
  <2>5. QED
    BY <2>1, <2>2, <2>3, <2>4
<1>2. QED
  BY <1>1, PipelineInvariance, PTL

\* The delivery of alerts, its failures included, never disturbs the ledger.
THEOREM LedgerKept == ASpec => KeepsLedger
<1>1. AInit => Ledger!Init
  BY DEF AInit, Init, Ledger!Init, Rows
<1>2. Inv /\ Joined /\ [ANext]_<<vars, ledgerVars>> => [Ledger!Next]_Ledger!vars
  <2> SUFFICES ASSUME Inv, Joined, [ANext]_<<vars, ledgerVars>>
               PROVE  [Ledger!Next]_Ledger!vars
    OBVIOUS
  <2>1. CASE DeliveryStep
    BY <2>1, DeliveryJoins
  <2>2. ASSUME NEW verdict \in [Controls -> Ledger!Verdicts], CheckCommits(verdict)
        PROVE  Ledger!Next
    BY <2>2, CommitJoins DEF Ledger!Next
  <2>3. CASE UNCHANGED <<vars, ledgerVars>>
    BY <2>3 DEF vars, tableVars, ledgerVars, Rows, Ledger!vars
  <2>4. QED
    BY <2>1, <2>2, <2>3 DEF ANext
<1>3. QED
  BY <1>1, <1>2, PipelineInvariance, PTL DEF ASpec, KeepsLedger, Ledger!Spec
=============================================================================
