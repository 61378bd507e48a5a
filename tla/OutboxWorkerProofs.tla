------------------------- MODULE OutboxWorkerProofs -------------------------
(***************************************************************************)
(* Proofs about OutboxWorker for every set of alerts and workers and every *)
(* value of the settings.  Inv is the inductive invariant.                 *)
(***************************************************************************)
EXTENDS OutboxRefinement, TLAPS

\* A worker has a row in its hands exactly while its claim is open, and an
\* outcome exactly once the send is over.
HandsAgree ==
  \A w \in Workers :
    /\ claimed[w] = NoAlert <=> phase[w] \notin Holding
    /\ outcome[w] # "none" => phase[w] = "answered"

\* Nothing happened to a row that is not there yet.
AbsentIsUntouched ==
  \A a \in Alerts :
    status[a] = "absent" => attempts[a] = 0 /\ rollbacks[a] = 0

\* The receiver has taken in what it is about to acknowledge or has
\* acknowledged.
AckedWasReceived ==
  \A w \in Workers :
    phase[w] = "accepted" \/ outcome[w] = "ok" => delivered[claimed[w]] > 0

\* The row and its lock.
RowInv ==
  /\ TypeOK
  /\ HandsAgree
  /\ ClaimIsExclusive
  /\ RetryWithinBudget
  /\ AbsentIsUntouched

Inv ==
  /\ RowInv
  /\ AckedWasReceived
  /\ SentWasReceived
  /\ AuditTellsTheEnd
  /\ DuplicatesAreExplained

-----------------------------------------------------------------------------
LEMMA RowInvInit == Init => RowInv
BY WorkerAssumption DEF Init, RowInv, TypeOK, HandsAgree, ClaimIsExclusive,
   RetryWithinBudget, AbsentIsUntouched, Status, OpenStatus, Terminal, Phases,
   Holding, InFlight, Outcomes

LEMMA RowInvNext == RowInv /\ [Next]_vars => RowInv'
<1> SUFFICES ASSUME RowInv, [Next]_vars PROVE RowInv'
  OBVIOUS
<1> USE WorkerAssumption DEF RowInv, TypeOK, HandsAgree, ClaimIsExclusive,
   RetryWithinBudget, AbsentIsUntouched, Status, OpenStatus, Terminal, Phases,
   Holding, InFlight, Outcomes, tableVars, workerVars, netVars
<1>1. CASE Tick
  BY <1>1 DEF Tick, AtLeast
<1>2. ASSUME NEW rows \in SUBSET Alerts, Enqueue(rows) PROVE RowInv'
  BY <1>2 DEF Enqueue
<1>3. ASSUME NEW a \in Alerts, LateArrival(a) PROVE RowInv'
  BY <1>3 DEF LateArrival
<1>4. ASSUME NEW a \in Alerts, LateLoss(a) PROVE RowInv'
  BY <1>4 DEF LateLoss
<1>5. ASSUME NEW w \in Workers, StartBatch(w) PROVE RowInv'
  BY <1>5 DEF StartBatch
<1>6. ASSUME NEW w \in Workers, NEW a \in Alerts, Claim(w, a) PROVE RowInv'
  BY <1>6 DEF Claim, Claimable, Locked
<1>7. ASSUME NEW w \in Workers, EndBatch(w) PROVE RowInv'
  BY <1>7 DEF EndBatch
<1>8. ASSUME NEW w \in Workers, RequestStop(w) PROVE RowInv'
  BY <1>8 DEF RequestStop
<1>9. ASSUME NEW w \in Workers, Stop(w) PROVE RowInv'
  BY <1>9 DEF Stop
<1>10. ASSUME NEW w \in Workers, Accept(w) PROVE RowInv'
  BY <1>10 DEF Accept
<1>11. ASSUME NEW w \in Workers, NEW o \in Outcomes \ {"none"}, phase[w] \in InFlight,
              Answered(w, o), LeaveInNetwork(w) \/ UNCHANGED late
       PROVE RowInv'
  BY <1>11 DEF Answered, LeaveInNetwork
<1>12. ASSUME NEW w \in Workers, MarkSent(w) PROVE RowInv'
  BY <1>12 DEF MarkSent, Commit, Release
<1>13. ASSUME NEW w \in Workers, RetryLater(w) PROVE RowInv'
  <2> DEFINE a == claimed[w]
  <2>1. a \in Alerts /\ attemptNo[w] \in 1..(MaxAttempts - 1)
    BY <1>13 DEF RetryLater, Exhausted, Retryable
  <2>2. PICK delay \in 0..BackoffCap :
          due' = [due EXCEPT ![a] = AtLeast(delay - held[w], 0 - Horizon)]
    BY <1>13 DEF RetryLater, RetryDelays
  <2>3. AtLeast(delay - held[w], 0 - Horizon) \in (0 - Horizon)..BackoffCap
    BY <2>1 DEF AtLeast
  <2>4. due' \in [Alerts -> (0 - Horizon)..BackoffCap]
    BY <2>2, <2>3
  <2> QED
    BY <1>13, <2>1, <2>4 DEF RetryLater, Commit, Release
<1>14. ASSUME NEW w \in Workers, DeadLetter(w) PROVE RowInv'
  BY <1>14 DEF DeadLetter, Commit, Release
<1>15. ASSUME NEW w \in Workers, Rollback(w), stopping'[w] \in BOOLEAN,
              stopping' \in [Workers -> BOOLEAN] PROVE RowInv'
  <2>1. claimed[w] \in Alerts
    BY <1>15 DEF Rollback
  <2>2. late' \in [Alerts -> Nat]
    BY <1>15, <2>1 DEF Rollback, LeaveInNetwork
  <2>3. rollbacks' \in [Alerts -> 0..MaxRollbacks]
    BY <1>15, <2>1 DEF Rollback
  <2>4. TypeOK'
    BY <1>15, <2>2, <2>3 DEF Rollback, Release
  <2>5. HandsAgree' /\ ClaimIsExclusive'
    BY <1>15, <2>1 DEF Rollback, Release
  <2>6. RetryWithinBudget' /\ AbsentIsUntouched'
    BY <1>15, <2>1 DEF Rollback
  <2> QED
    BY <2>4, <2>5, <2>6
<1>16. CASE UNCHANGED vars
  BY <1>16 DEF vars
<1>17. ASSUME NEW w \in Workers, WorkerStep(w) PROVE RowInv'
  <2>1. ASSUME NEW reply \in Replies, Reply(w, reply) PROVE RowInv'
    BY <1>11, <2>1 DEF Reply, Classify, Replies
  <2>2. CASE Timeout(w)
    BY <1>11, <2>2 DEF Timeout
  <2>3. CASE TransportError(w)
    BY <1>11, <2>3 DEF TransportError
  <2>4. CASE TickFails(w)
    BY <1>15, <2>4 DEF TickFails
  <2>5. CASE Crash(w)
    BY <1>15, <2>5 DEF Crash
  <2> QED
    BY <1>5, <1>6, <1>7, <1>8, <1>9, <1>10, <1>12, <1>13, <1>14, <1>17,
       <2>1, <2>2, <2>3, <2>4, <2>5 DEF WorkerStep
<1> QED
  BY <1>1, <1>2, <1>3, <1>4, <1>16, <1>17 DEF Next

-----------------------------------------------------------------------------
\* Every step but those named leaves the row's fate and the copies the
\* receiver took in as they are.
LEMMA OtherSteps ==
  ASSUME NEW w \in Workers, RowInv,
         \/ StartBatch(w) \/ \E a \in Alerts : Claim(w, a)
         \/ EndBatch(w) \/ RequestStop(w) \/ Stop(w)
  PROVE  /\ UNCHANGED <<tableVars, netVars, rollbacks, outcome>>
         /\ \A v \in Workers : phase'[v] = "accepted" =>
              phase[v] = "accepted" /\ claimed'[v] = claimed[v]
         /\ \A v \in Workers : outcome[v] # "none" => claimed'[v] = claimed[v]
BY DEF RowInv, TypeOK, HandsAgree, StartBatch, Claim, EndBatch, RequestStop,
   Stop, Holding, InFlight, tableVars, workerVars, netVars

\* The send is over or given up; the copies taken in do not change.
LEMMA ReceivedNext ==
  RowInv /\ RowInv' /\ AckedWasReceived /\ SentWasReceived /\ [Next]_vars
    => AckedWasReceived' /\ SentWasReceived'
<1> SUFFICES ASSUME RowInv, RowInv', AckedWasReceived, SentWasReceived,
                    [Next]_vars
             PROVE  AckedWasReceived' /\ SentWasReceived'
  OBVIOUS
<1> USE DEF RowInv, TypeOK, HandsAgree, AckedWasReceived, SentWasReceived,
   Holding, InFlight, tableVars, workerVars, netVars
<1>1. CASE Tick
  BY <1>1 DEF Tick
<1>2. CASE \/ \E rows \in SUBSET Alerts : Enqueue(rows)
           \/ \E a \in Alerts : LateArrival(a) \/ LateLoss(a)
  BY <1>2 DEF Enqueue, LateArrival, LateLoss
<1>3. ASSUME NEW w \in Workers, WorkerStep(w)
      PROVE  AckedWasReceived' /\ SentWasReceived'
  <2>1. CASE \/ StartBatch(w) \/ \E a \in Alerts : Claim(w, a)
             \/ EndBatch(w) \/ RequestStop(w) \/ Stop(w)
    BY <2>1, OtherSteps
  <2>2. CASE Accept(w)
    BY <2>2 DEF Accept
  <2>3. CASE (\E reply \in Replies : Reply(w, reply))
             \/ Timeout(w) \/ TransportError(w)
    BY <2>3 DEF Reply, Classify, Replies, Timeout, TransportError, Answered
  <2>4. CASE MarkSent(w)
    BY <2>4 DEF MarkSent, Commit, Release
  <2>5. CASE RetryLater(w) \/ DeadLetter(w)
    BY <2>5 DEF RetryLater, DeadLetter, Commit, Release
  <2>6. CASE TickFails(w) \/ Crash(w)
    BY <2>6 DEF TickFails, Crash, Rollback, Release
  <2> QED
    BY <1>3, <2>1, <2>2, <2>3, <2>4, <2>5, <2>6 DEF WorkerStep
<1>4. CASE UNCHANGED vars
  BY <1>4 DEF vars
<1> QED
  BY <1>1, <1>2, <1>3, <1>4 DEF Next

\* Only MarkSent and DeadLetter write a terminal event, and they find the
\* row open.
LEMMA AuditNext ==
  RowInv /\ AuditTellsTheEnd /\ [Next]_vars => AuditTellsTheEnd'
<1> SUFFICES ASSUME RowInv, AuditTellsTheEnd, [Next]_vars
             PROVE  AuditTellsTheEnd'
  OBVIOUS
<1> USE DEF RowInv, TypeOK, HandsAgree, ClaimIsExclusive, AuditTellsTheEnd,
   Holding, InFlight, OpenStatus, tableVars, netVars
<1>1. CASE Tick
  BY <1>1 DEF Tick
<1>2. CASE \/ \E rows \in SUBSET Alerts : Enqueue(rows)
           \/ \E a \in Alerts : LateArrival(a) \/ LateLoss(a)
  BY <1>2 DEF Enqueue, LateArrival, LateLoss
<1>3. ASSUME NEW w \in Workers, WorkerStep(w)
      PROVE  AuditTellsTheEnd'
  <2>1. CASE \/ StartBatch(w) \/ \E a \in Alerts : Claim(w, a)
             \/ EndBatch(w) \/ RequestStop(w) \/ Stop(w)
    BY <2>1, OtherSteps
  <2>2. CASE \/ Accept(w) \/ (\E reply \in Replies : Reply(w, reply))
             \/ Timeout(w) \/ TransportError(w)
    BY <2>2 DEF Accept, Reply, Timeout, TransportError, Answered
  <2>3. CASE MarkSent(w)
    BY <2>3 DEF MarkSent
  <2>4. CASE RetryLater(w)
    BY <2>4 DEF RetryLater
  <2>5. CASE DeadLetter(w)
    BY <2>5 DEF DeadLetter
  <2>6. CASE TickFails(w) \/ Crash(w)
    BY <2>6 DEF TickFails, Crash, Rollback
  <2> QED
    BY <1>3, <2>1, <2>2, <2>3, <2>4, <2>5, <2>6 DEF WorkerStep
<1>4. CASE UNCHANGED vars
  BY <1>4 DEF vars
<1> QED
  BY <1>1, <1>2, <1>3, <1>4 DEF Next

-----------------------------------------------------------------------------
\* One more copy is always paid for: by the claim while it is open, then by
\* the attempt it counts or by its rollback.
LEMMA DuplicatesNext ==
  RowInv /\ RowInv' /\ DuplicatesAreExplained /\ [Next]_vars
    => DuplicatesAreExplained'
<1> SUFFICES ASSUME RowInv, RowInv', DuplicatesAreExplained, [Next]_vars
             PROVE  DuplicatesAreExplained'
  OBVIOUS
<1> USE DEF RowInv, TypeOK, HandsAgree, ClaimIsExclusive,
   DuplicatesAreExplained, InHand, OnTheWay, Holding, InFlight, tableVars,
   workerVars, netVars
<1>1. CASE Tick
  BY <1>1 DEF Tick
<1>2. CASE \/ \E rows \in SUBSET Alerts : Enqueue(rows)
           \/ \E a \in Alerts : LateArrival(a) \/ LateLoss(a)
  BY <1>2 DEF Enqueue, LateArrival, LateLoss
<1>3. ASSUME NEW w \in Workers,
             StartBatch(w) \/ EndBatch(w) \/ RequestStop(w) \/ Stop(w)
      PROVE  DuplicatesAreExplained'
  BY <1>3 DEF StartBatch, EndBatch, RequestStop, Stop
<1>4. ASSUME NEW w \in Workers, NEW a \in Alerts, Claim(w, a)
      PROVE  DuplicatesAreExplained'
  BY <1>4 DEF Claim, Claimable, Locked
<1>5. ASSUME NEW w \in Workers, Accept(w)
      PROVE  DuplicatesAreExplained'
  BY <1>5 DEF Accept
<1>6. ASSUME NEW w \in Workers, NEW o \in Outcomes, phase[w] \in InFlight,
             Answered(w, o), LeaveInNetwork(w) \/ UNCHANGED late
      PROVE  DuplicatesAreExplained'
  BY <1>6 DEF Answered, LeaveInNetwork
<1>7. ASSUME NEW w \in Workers, Finish(w)
      PROVE  DuplicatesAreExplained'
  BY <1>7 DEF Finish, MarkSent, RetryLater, DeadLetter, Commit, Release
<1>8. ASSUME NEW w \in Workers, Rollback(w)
      PROVE  DuplicatesAreExplained'
  BY <1>8 DEF Rollback, Release, LeaveInNetwork
<1>9. CASE UNCHANGED vars
  BY <1>9 DEF vars
<1>10. ASSUME NEW w \in Workers, WorkerStep(w)
       PROVE  DuplicatesAreExplained'
  <2>1. ASSUME NEW reply \in Replies, Reply(w, reply)
        PROVE  DuplicatesAreExplained'
    BY <1>6, <2>1 DEF Reply, Classify, Replies, Outcomes
  <2>2. CASE Timeout(w) \/ TransportError(w)
    BY <1>6, <2>2 DEF Timeout, TransportError, Outcomes
  <2>3. CASE TickFails(w) \/ Crash(w)
    BY <1>8, <2>3 DEF TickFails, Crash
  <2> QED
    BY <1>3, <1>4, <1>5, <1>7, <1>10, <2>1, <2>2, <2>3
       DEF WorkerStep, Finish
<1> QED
  BY <1>1, <1>2, <1>9, <1>10 DEF Next

-----------------------------------------------------------------------------
LEMMA InvInit == Init => Inv
BY RowInvInit DEF Init, Inv, AckedWasReceived, SentWasReceived,
   AuditTellsTheEnd, DuplicatesAreExplained, InHand, OnTheWay, Holding,
   InFlight

LEMMA InvNext == Inv /\ [Next]_vars => Inv'
BY RowInvNext, ReceivedNext, AuditNext, DuplicatesNext DEF Inv

\* Inv holds in every reachable state: the basis of the theorems below.
THEOREM Invariance == Spec => []Inv
BY InvInit, InvNext, PTL DEF Spec

\* Every variable keeps its type; attempts never exceed MaxAttempts.
THEOREM TypeCorrect == Spec => []TypeOK
<1>1. Inv => TypeOK
  BY DEF Inv, RowInv
<1> QED
  BY <1>1, Invariance, PTL

\* One worker at most has a row, and what it read of the row before the send
\* is still true when it writes the outcome.
THEOREM Exclusion == Spec => []ClaimIsExclusive
<1>1. Inv => ClaimIsExclusive
  BY DEF Inv, RowInv
<1> QED
  BY <1>1, Invariance, PTL

\* An alert marked sent was received.
THEOREM SentReceived == Spec => []SentWasReceived
<1>1. Inv => SentWasReceived
  BY DEF Inv
<1> QED
  BY <1>1, Invariance, PTL

\* A settled row has exactly one terminal audit event, an open one none.
THEOREM AuditComplete == Spec => []AuditTellsTheEnd
<1>1. Inv => AuditTellsTheEnd
  BY DEF Inv
<1> QED
  BY <1>1, Invariance, PTL

\* Copies at the receiver are bounded by attempts and rolled-back claims.
THEOREM DuplicatesBounded == Spec => []DuplicatesAreExplained
<1>1. Inv => DuplicatesAreExplained
  BY DEF Inv
<1> QED
  BY <1>1, Invariance, PTL

\* A failed row has between one and MaxAttempts - 1 counted attempts.
THEOREM BudgetKept == Spec => []RetryWithinBudget
<1>1. Inv => RetryWithinBudget
  BY DEF Inv, RowInv
<1> QED
  BY <1>1, Invariance, PTL

-----------------------------------------------------------------------------
\* A window a retry was drawn from is not empty.
WindowInv ==
  /\ RetryWithinWindow
  /\ \A a \in Alerts : status[a] = "failed" => Window(attempts[a]) >= 0

LEMMA WindowIsInt == \A n \in Nat \ {0} : Window(n) \in Int
<1> SUFFICES ASSUME NEW n \in Nat \ {0} PROVE Window(n) \in Int
  OBVIOUS
<1>1. n - 1 \in Nat
  OBVIOUS
<1>2. 2^(n - 1) \in Int
  BY <1>1, SMT
<1> QED
  BY <1>2, WorkerAssumption DEF Window

\* A retry is counted from the start of its transaction, so the time the send
\* took only brings it nearer; then the clock does.
LEMMA WindowNext ==
  RowInv /\ WindowInv /\ [Next]_vars => WindowInv'
<1> SUFFICES ASSUME RowInv, WindowInv, [Next]_vars
             PROVE  WindowInv'
  OBVIOUS
<1> USE WorkerAssumption
    DEF RowInv, TypeOK, HandsAgree, ClaimIsExclusive, WindowInv, RetryWithinWindow,
        Holding, InFlight, OpenStatus, tableVars
<1>1. CASE Tick
  <2>1. SUFFICES ASSUME NEW a \in Alerts, status[a] = "failed"
                 PROVE  due'[a] <= BackoffCap /\ due'[a] <= Window(attempts[a])
    BY <1>1 DEF Tick
  <2>2. attempts[a] \in 1..MaxAttempts
    BY <2>1 DEF RetryWithinBudget
  <2>3. Window(attempts[a]) \in Nat
    BY <2>1, <2>2, WindowIsInt
  <2>4. due'[a] = AtLeast(due[a] - 1, 0 - Horizon)
    BY <1>1, <2>1 DEF Tick
  <2>5. due[a] \in Int /\ due[a] <= BackoffCap /\ due[a] <= Window(attempts[a])
    BY <2>1
  <2>6. QED
    BY <2>3, <2>4, <2>5 DEF AtLeast
<1>2. CASE \/ \E rows \in SUBSET Alerts : Enqueue(rows)
           \/ \E a \in Alerts : LateArrival(a) \/ LateLoss(a)
  BY <1>2 DEF Enqueue, LateArrival, LateLoss
<1>3. ASSUME NEW w \in Workers, WorkerStep(w)
      PROVE  WindowInv'
  <2>1. CASE \/ StartBatch(w) \/ \E a \in Alerts : Claim(w, a)
             \/ EndBatch(w) \/ RequestStop(w) \/ Stop(w)
    BY <2>1, OtherSteps
  <2>2. CASE \/ Accept(w) \/ (\E reply \in Replies : Reply(w, reply))
             \/ Timeout(w) \/ TransportError(w)
    BY <2>2 DEF Accept, Reply, Timeout, TransportError, Answered
  <2>3. CASE MarkSent(w) \/ DeadLetter(w)
    BY <2>3 DEF MarkSent, DeadLetter
  <2>4. CASE RetryLater(w)
    <3> DEFINE n == attemptNo[w]
    <3>1. n \in 1..(MaxAttempts - 1) /\ claimed[w] \in Alerts
      BY <2>4 DEF RetryLater, Exhausted
    <3>2. Window(n) \in Int
      BY <3>1, WindowIsInt
    <3>3. PICK delay \in RetryDelays(n) :
            due' = [due EXCEPT ![claimed[w]] = AtLeast(delay - held[w], 0 - Horizon)]
      BY <2>4 DEF RetryLater
    <3>4. delay \in Nat /\ delay <= BackoffCap /\ delay <= Window(n)
      BY <3>3 DEF RetryDelays
    <3>5. /\ Window(n) >= 0
          /\ AtLeast(delay - held[w], 0 - Horizon) <= BackoffCap
          /\ AtLeast(delay - held[w], 0 - Horizon) <= Window(n)
      BY <3>2, <3>4 DEF AtLeast
    <3>6. QED
      BY <2>4, <3>1, <3>3, <3>5 DEF RetryLater
  <2>5. CASE TickFails(w) \/ Crash(w)
    BY <2>5 DEF TickFails, Crash, Rollback
  <2> QED
    BY <1>3, <2>1, <2>2, <2>3, <2>4, <2>5 DEF WorkerStep
<1>4. CASE UNCHANGED vars
  BY <1>4 DEF vars
<1> QED
  BY <1>1, <1>2, <1>3, <1>4 DEF Next

\* A row that waits for a retry is due within its backoff window.
THEOREM WindowKept == Spec => []RetryWithinWindow
<1>1. Init => WindowInv
  BY DEF Init, WindowInv, RetryWithinWindow
<1>2. Inv /\ WindowInv /\ [Next]_vars => WindowInv'
  BY WindowNext DEF Inv
<1>3. WindowInv => RetryWithinWindow
  BY DEF WindowInv
<1> QED
  BY <1>1, <1>2, <1>3, Invariance, PTL DEF Spec

-----------------------------------------------------------------------------
\* What one step may do to a row, in the words of RowHistory.
RowStep ==
  \A a \in Alerts :
    /\ status[a] \in Terminal => /\ status'[a] = status[a]
                                 /\ attempts'[a] = attempts[a]
    /\ attempts'[a] # attempts[a] => /\ attempts'[a] = attempts[a] + 1
                                     /\ status'[a] \notin {"absent", "pending"}

LEMMA RowStepNext == RowInv /\ [Next]_vars => RowStep
<1> SUFFICES ASSUME RowInv, [Next]_vars PROVE RowStep
  OBVIOUS
<1> USE DEF RowInv, TypeOK, HandsAgree, ClaimIsExclusive, RowStep, Terminal,
   Holding, InFlight, OpenStatus, tableVars
<1>1. CASE Tick
  BY <1>1 DEF Tick
<1>2. CASE \/ \E rows \in SUBSET Alerts : Enqueue(rows)
           \/ \E a \in Alerts : LateArrival(a) \/ LateLoss(a)
  BY <1>2 DEF Enqueue, LateArrival, LateLoss
<1>3. ASSUME NEW w \in Workers, WorkerStep(w)
      PROVE  RowStep
  <2>1. CASE \/ StartBatch(w) \/ \E a \in Alerts : Claim(w, a)
             \/ EndBatch(w) \/ RequestStop(w) \/ Stop(w)
    BY <2>1, OtherSteps
  <2>2. CASE \/ Accept(w) \/ (\E reply \in Replies : Reply(w, reply))
             \/ Timeout(w) \/ TransportError(w)
    BY <2>2 DEF Accept, Reply, Timeout, TransportError, Answered
  <2>3. CASE MarkSent(w)
    BY <2>3 DEF MarkSent
  <2>4. CASE RetryLater(w)
    BY <2>4 DEF RetryLater
  <2>5. CASE DeadLetter(w)
    BY <2>5 DEF DeadLetter
  <2>6. CASE TickFails(w) \/ Crash(w)
    BY <2>6 DEF TickFails, Crash, Rollback
  <2> QED
    BY <1>3, <2>1, <2>2, <2>3, <2>4, <2>5, <2>6 DEF WorkerStep
<1>4. CASE UNCHANGED vars
  BY <1>4 DEF vars
<1> QED
  BY <1>1, <1>2, <1>3, <1>4 DEF Next

\* A settled row is never touched again and attempts are counted one by one.
THEOREM HistoryKept == Spec => RowHistory
<1>1. Inv /\ [Next]_vars => [RowStep]_<<status, attempts>>
  BY RowStepNext DEF Inv
<1> QED
  BY <1>1, Invariance, PTL DEF Spec, RowHistory, RowStep

-----------------------------------------------------------------------------
(* Refinement                                                              *)

\* A request left in the network belongs to a row that exists.
LEMMA LateHasRow ==
  ASSUME Inv, NEW a \in Alerts, late[a] > 0 \/ delivered[a] > 0
  PROVE  status[a] # "absent"
<1> SUFFICES ASSUME status[a] = "absent" PROVE FALSE
  OBVIOUS
<1>1. InHand(a) = 0 /\ OnTheWay(a) = 0
  BY DEF Inv, RowInv, ClaimIsExclusive, InHand, OnTheWay, Holding, InFlight,
     OpenStatus
<1>2. attempts[a] = 0 /\ rollbacks[a] = 0
  BY DEF Inv, RowInv, AbsentIsUntouched
<1> QED
  BY <1>1, <1>2 DEF Inv, RowInv, TypeOK, DuplicatesAreExplained

LEMMA DeliveryNext == Inv /\ [Next]_vars => [Delivery!Next]_Delivery!vars
<1> SUFFICES ASSUME Inv, [Next]_vars PROVE [Delivery!Next]_Delivery!vars
  OBVIOUS
<1>1. TypeOK /\ HandsAgree /\ ClaimIsExclusive
  BY DEF Inv, RowInv
<1>2. ASSUME UNCHANGED <<status, delivered>> PROVE UNCHANGED Delivery!vars
  BY <1>2 DEF Delivery!vars, AbstractState
<1>3. ASSUME NEW a \in Alerts, status[a] # "absent",
             delivered' = [delivered EXCEPT ![a] = @ + 1], UNCHANGED status
      PROVE  Delivery!Next
  BY <1>1, <1>3 DEF Delivery!Next, Delivery!Deliver, AbstractState, TypeOK,
     OpenStatus
<1>4. ASSUME NEW rows \in SUBSET Alerts, Enqueue(rows) PROVE Delivery!Next
  <2>1. \A a \in rows : AbstractState[a] = "absent"
    BY <1>4 DEF Enqueue, AbstractState, OpenStatus
  <2>2. AbstractState' = [a \in Alerts |-> IF a \in rows THEN "open" ELSE AbstractState[a]]
    BY <1>1, <1>4 DEF Enqueue, AbstractState, TypeOK, OpenStatus
  <2> QED
    BY <1>4, <2>1, <2>2 DEF Enqueue, netVars, Delivery!Next, Delivery!Raise
<1>5. ASSUME NEW a \in Alerts, LateArrival(a) PROVE Delivery!Next
  BY <1>3, <1>5, LateHasRow DEF LateArrival, tableVars
<1>6. ASSUME NEW w \in Workers, phase[w] \in Holding
      PROVE  claimed[w] \in Alerts /\ status[claimed[w]] \in OpenStatus
  BY <1>1, <1>6 DEF TypeOK, HandsAgree, ClaimIsExclusive
<1>7. ASSUME NEW w \in Workers, Accept(w) PROVE Delivery!Next
  BY <1>3, <1>6, <1>7 DEF Accept, Holding, InFlight, OpenStatus, tableVars
<1>8. ASSUME NEW w \in Workers, MarkSent(w) PROVE Delivery!Next
  <2>1. delivered[claimed[w]] > 0
    BY <1>8 DEF MarkSent, Inv, AckedWasReceived
  <2>2. claimed[w] \in Alerts /\ status[claimed[w]] \in OpenStatus
    BY <1>6, <1>8 DEF MarkSent, Holding
  <2> QED
    BY <1>1, <1>8, <2>1, <2>2 DEF MarkSent, Commit, netVars, Delivery!Next,
       Delivery!Confirm, AbstractState, TypeOK, OpenStatus
<1>9. ASSUME NEW w \in Workers, DeadLetter(w) PROVE Delivery!Next
  <2>1. claimed[w] \in Alerts /\ status[claimed[w]] \in OpenStatus
    BY <1>6, <1>9 DEF DeadLetter, Holding
  <2> QED
    BY <1>1, <1>9, <2>1 DEF DeadLetter, Commit, netVars, Delivery!Next,
       Delivery!GiveUp, AbstractState, TypeOK, OpenStatus
<1>10. ASSUME NEW w \in Workers, RetryLater(w) PROVE UNCHANGED Delivery!vars
  <2>1. claimed[w] \in Alerts /\ status[claimed[w]] \in OpenStatus
    BY <1>6, <1>10 DEF RetryLater, Holding
  <2>2. AbstractState' = AbstractState
    BY <1>1, <1>10, <2>1 DEF RetryLater, AbstractState, TypeOK, OpenStatus
  <2> QED
    BY <1>10, <2>2 DEF RetryLater, Commit, netVars, Delivery!vars
<1>11. CASE Tick \/ UNCHANGED vars
  BY <1>2, <1>11 DEF Tick, vars, tableVars, netVars
<1>12. ASSUME NEW a \in Alerts, LateLoss(a) PROVE UNCHANGED Delivery!vars
  BY <1>2, <1>12 DEF LateLoss, tableVars
<1>13. ASSUME NEW w \in Workers, WorkerStep(w)
       PROVE  [Delivery!Next]_Delivery!vars
  <2>1. CASE \/ StartBatch(w) \/ \E a \in Alerts : Claim(w, a)
             \/ EndBatch(w) \/ RequestStop(w) \/ Stop(w)
    BY <1>2, <2>1, OtherSteps DEF Inv, tableVars, netVars
  <2>2. CASE \/ \E reply \in Replies : Reply(w, reply)
             \/ Timeout(w) \/ TransportError(w)
    BY <1>2, <2>2 DEF Reply, Timeout, TransportError, Answered, tableVars
  <2>3. CASE TickFails(w) \/ Crash(w)
    BY <1>2, <2>3 DEF TickFails, Crash, Rollback, tableVars
  <2> QED
    BY <1>7, <1>8, <1>9, <1>10, <1>13, <2>1, <2>2, <2>3 DEF WorkerStep
<1> QED
  BY <1>4, <1>5, <1>11, <1>12, <1>13 DEF Next

\* The worker keeps the promise of the outbox: every step is a step of
\* AlertDelivery, with the alert's row as its state, or changes nothing there.
THEOREM Refinement == Spec => ImplementsDelivery
<1>1. Init => Delivery!Init
  BY DEF Init, Delivery!Init, AbstractState, OpenStatus
<1> QED
  BY <1>1, DeliveryNext, Invariance, PTL
     DEF Spec, ImplementsDelivery, Delivery!Spec

-----------------------------------------------------------------------------
(* Why alerts settle and workers stop, but for the fairness                *)

\* The steps of a row while it is not let go.
LEMMA LetGo ==
  ASSUME Inv, [Next]_vars, NEW w \in Workers, claimed[w] # NoAlert,
         claimed'[w] # claimed[w]
  PROVE  MarkSent(w) \/ RetryLater(w) \/ DeadLetter(w) \/ Rollback(w)
<1> USE DEF Inv, RowInv, TypeOK, HandsAgree, Holding, InFlight, workerVars
<1>1. CASE \/ Tick
           \/ \E rows \in SUBSET Alerts : Enqueue(rows)
           \/ \E a \in Alerts : LateArrival(a) \/ LateLoss(a)
           \/ UNCHANGED vars
  BY <1>1 DEF Tick, Enqueue, LateArrival, LateLoss, vars
<1>2. ASSUME NEW v \in Workers, WorkerStep(v)
      PROVE  MarkSent(w) \/ RetryLater(w) \/ DeadLetter(w) \/ Rollback(w)
  <2>1. CASE v # w
    <3>1. claimed'[w] = claimed[w]
      BY <1>2, <2>1 DEF WorkerStep, StartBatch, Claim, EndBatch, RequestStop,
         Stop, Accept, Reply, Timeout, TransportError, Answered, MarkSent,
         RetryLater, DeadLetter, Commit, Release, TickFails, Crash, Rollback
    <3> QED
      BY <3>1
  <2>2. CASE v = w
    <3>1. CASE \/ StartBatch(w) \/ (\E a \in Alerts : Claim(w, a))
               \/ EndBatch(w) \/ RequestStop(w) \/ Stop(w)
      <4>1. \A a \in Alerts : ~Claim(w, a)
        BY DEF Claim
      <4> QED
        BY <3>1, <4>1 DEF StartBatch, EndBatch, RequestStop, Stop
    <3>2. CASE \/ Accept(w) \/ (\E reply \in Replies : Reply(w, reply))
               \/ Timeout(w) \/ TransportError(w)
      BY <3>2 DEF Accept, Reply, Timeout, TransportError, Answered
    <3> QED
      BY <1>2, <2>2, <3>1, <3>2 DEF WorkerStep, TickFails, Crash
  <2> QED
    BY <2>1, <2>2
<1> QED
  BY <1>1, <1>2 DEF Next

\* What the claims of a row have used up.
Spent(a) == attempts[a] + rollbacks[a]

ClaimCounts(w, a) ==
  claimed[w] = a /\ claimed'[w] # a =>
    status'[a] \in Terminal \/ Spent(a)' = Spent(a) + 1

LEMMA ClaimCountsNext ==
  ASSUME Inv, [Next]_vars, NEW w \in Workers, NEW a \in Alerts
  PROVE  ClaimCounts(w, a)
<1> SUFFICES ASSUME claimed[w] = a, claimed'[w] # a
             PROVE  status'[a] \in Terminal \/ Spent(a)' = Spent(a) + 1
  BY DEF ClaimCounts
<1>1. claimed[w] # NoAlert
  BY WorkerAssumption
<1>2. CASE MarkSent(w) \/ DeadLetter(w)
  BY <1>2 DEF Inv, RowInv, TypeOK, MarkSent, DeadLetter, Terminal
<1>3. CASE RetryLater(w)
  <2>1. attemptNo[w] = attempts[a] + 1
    BY <1>3 DEF Inv, RowInv, RetryLater, ClaimIsExclusive, Holding
  <2>2. attempts'[a] = attemptNo[w] /\ rollbacks' = rollbacks
    BY <1>3 DEF Inv, RowInv, TypeOK, RetryLater, Commit
  <2>3. attempts[a] \in Nat /\ rollbacks[a] \in Nat
    BY WorkerAssumption DEF Inv, RowInv, TypeOK
  <2> QED
    BY <2>1, <2>2, <2>3 DEF Spent
<1>4. CASE Rollback(w)
  <2>1. attempts' = attempts /\ rollbacks'[a] = rollbacks[a] + 1
    BY <1>4 DEF Inv, RowInv, TypeOK, Rollback, tableVars
  <2>2. attempts[a] \in Nat /\ rollbacks[a] \in Nat
    BY WorkerAssumption DEF Inv, RowInv, TypeOK
  <2> QED
    BY <2>1, <2>2 DEF Spent
<1> QED
  BY <1>1, <1>2, <1>3, <1>4, LetGo

\* No claim is for nothing: whoever lets a row go has settled it, or used up
\* one of its attempts or of its rollbacks.  An open row has fewer than
\* MaxAttempts counted attempts (BudgetKept), so it is settled after finitely
\* many claims, whatever the receiver does.
THEOREM EveryClaimCounts ==
  Spec => [][\A w \in Workers, a \in Alerts : ClaimCounts(w, a)]_vars
<1>1. Inv /\ [Next]_vars
        => [\A w \in Workers, a \in Alerts : ClaimCounts(w, a)]_vars
  BY ClaimCountsNext
<1> QED
  BY <1>1, Invariance, PTL DEF Spec

\* How much of its last batch a worker has behind it.
Mark(w) ==
  IF phase[w] = "sending" THEN 4 * handled[w] + 1
  ELSE IF phase[w] = "accepted" THEN 4 * handled[w] + 2
  ELSE IF phase[w] = "answered" THEN 4 * handled[w] + 3
  ELSE IF phase[w] = "draining" THEN 4 * handled[w] + 4
  ELSE IF phase[w] = "polling" THEN 4 * MaxBatch + 5
  ELSE 4 * MaxBatch + 6

LEMMA MarkBounded ==
  ASSUME TypeOK, NEW w \in Workers
  PROVE  Mark(w) \in 0..(4 * MaxBatch + 6)
<1>1. handled[w] \in 0..MaxBatch /\ MaxBatch \in Nat
  BY WorkerAssumption DEF TypeOK
<1> QED
  BY <1>1 DEF Mark

Forward(w) == Mark(w) < Mark(w)'
Stays(w) == phase'[w] = phase[w] /\ handled'[w] = handled[w]

\* A worker that was asked to stop, and still is, only goes forward.
StopsNow(w) == stopping[w] /\ stopping'[w] => Stays(w) \/ Forward(w)

LEMMA StoppingStep ==
  ASSUME Inv, NEW w \in Workers, stopping[w], stopping'[w], WorkerStep(w)
  PROVE  Stays(w) \/ Forward(w)
<1>1. /\ handled[w] \in 0..MaxBatch /\ MaxBatch \in Nat
      /\ handled \in [Workers -> 0..MaxBatch]
      /\ phase \in [Workers -> Phases]
  BY WorkerAssumption DEF Inv, RowInv, TypeOK
<1>2. CASE \/ RequestStop(w) \/ StartBatch(w)
  BY <1>2 DEF RequestStop, StartBatch, workerVars, Stays
<1>3. CASE \E a \in Alerts : Claim(w, a)
  <2>1. /\ phase[w] = "draining" /\ phase'[w] = "sending"
        /\ handled'[w] = handled[w] + 1
    BY <1>1, <1>3 DEF Claim
  <2> QED
    BY <1>1, <2>1 DEF Forward, Mark
<1>4. CASE EndBatch(w) \/ Stop(w)
  <2>1. \/ phase[w] = "draining" /\ phase'[w] = "polling"
        \/ phase[w] = "polling" /\ phase'[w] = "stopped"
    BY <1>1, <1>4 DEF EndBatch, Stop
  <2> QED
    BY <1>1, <2>1 DEF Forward, Mark
<1>5. CASE \/ Accept(w) \/ (\E reply \in Replies : Reply(w, reply))
           \/ Timeout(w) \/ TransportError(w)
  <2>1. /\ handled'[w] = handled[w]
        /\ \/ phase[w] = "sending" /\ phase'[w] = "accepted"
           \/ phase[w] \in InFlight /\ phase'[w] = "answered"
    BY <1>1, <1>5 DEF Accept, Reply, Timeout, TransportError, Answered
  <2> QED
    BY <1>1, <2>1 DEF Forward, Mark, InFlight
<1>6. CASE MarkSent(w) \/ RetryLater(w) \/ DeadLetter(w)
  <2>1. /\ handled'[w] = handled[w]
        /\ phase[w] = "answered" /\ phase'[w] = "draining"
    BY <1>1, <1>6 DEF MarkSent, RetryLater, DeadLetter, Commit, Release
  <2> QED
    BY <1>1, <2>1 DEF Forward, Mark
<1>7. CASE TickFails(w) \/ Crash(w)
  <2>1. phase[w] \in Holding /\ phase'[w] = "polling"
    BY <1>1, <1>7 DEF TickFails, Crash, Rollback, Release
  <2> QED
    BY <1>1, <2>1 DEF Forward, Mark, Holding, InFlight
<1> QED
  BY <1>2, <1>3, <1>4, <1>5, <1>6, <1>7 DEF WorkerStep

LEMMA StopsNext ==
  ASSUME Inv, [Next]_vars, NEW w \in Workers
  PROVE  StopsNow(w)
<1> SUFFICES ASSUME stopping[w], stopping'[w] PROVE Stays(w) \/ Forward(w)
  BY DEF StopsNow
<1>1. CASE \/ Tick
           \/ \E rows \in SUBSET Alerts : Enqueue(rows)
           \/ \E a \in Alerts : LateArrival(a) \/ LateLoss(a)
           \/ UNCHANGED vars
  BY <1>1 DEF Tick, Enqueue, LateArrival, LateLoss, vars, workerVars, Stays
<1>2. ASSUME NEW v \in Workers, v # w, WorkerStep(v) PROVE Stays(w)
  BY <1>2 DEF Inv, RowInv, TypeOK, WorkerStep, StartBatch, Claim, EndBatch,
     RequestStop, Stop, Accept, Reply, Timeout, TransportError, Answered,
     MarkSent, RetryLater, DeadLetter, Commit, Release, TickFails, Crash,
     Rollback, workerVars, Stays
<1> QED
  BY <1>1, <1>2, StoppingStep DEF Next

\* A stop is not put off by rows that stay due, retries that fall due within
\* the batch, or failures: once asked, a worker goes through what is left of
\* its batch in one direction and ends (MarkBounded); only a crash, which
\* forgets the request, sets it back.
THEOREM StopIsFinal ==
  Spec => [][\A w \in Workers : StopsNow(w)]_vars
<1>1. Inv /\ [Next]_vars => [\A w \in Workers : StopsNow(w)]_vars
  BY StopsNext
<1> QED
  BY <1>1, Invariance, PTL DEF Spec
=============================================================================
