---------------------------- MODULE OutboxWorker ----------------------------
(***************************************************************************)
(* The outbox worker of src/pdpl/workers/outbox.py: processes that poll    *)
(* the outbox table, claim one due row per transaction (FOR UPDATE SKIP    *)
(* LOCKED), post it to a webhook while the transaction is open, and record *)
(* the outcome in the same transaction.  The receiver may refuse, answer   *)
(* late or not at all; a worker may fail between the send and the commit.  *)
(*                                                                         *)
(* A row's next_attempt_at is kept relative to the database clock: due[a]  *)
(* is the number of ticks until the row may be claimed, negative once it   *)
(* is overdue.                                                             *)
(***************************************************************************)
EXTENDS Integers, FiniteSets

CONSTANTS
  Alerts,        \* outbox rows, one per worsening transition
  Workers,       \* worker processes sharing the table
  NoAlert,       \* "no row claimed"
  MaxAttempts,   \* settings.outbox_max_attempts
  MaxBatch,      \* run_once's max_batch
  BackoffBase,   \* settings.outbox_backoff_base_seconds, in ticks
  BackoffCap,    \* settings.outbox_backoff_cap_seconds, in ticks
  SendDeadline,  \* settings.alert_webhook_timeout_seconds, in ticks
  HoldLimit,     \* bound: ticks a claim's transaction stays open
  Horizon,       \* bound: how long overdue a row is told apart
  MaxRollbacks   \* bound: claims of one row that are rolled back

ASSUME WorkerAssumption ==
  /\ NoAlert \notin Alerts
  /\ MaxAttempts \in Nat \ {0}
  /\ MaxBatch \in Nat \ {0}
  /\ BackoffBase \in Nat
  /\ BackoffCap \in Nat
  /\ SendDeadline \in Nat \ {0}
  /\ HoldLimit \in Nat
  /\ SendDeadline <= HoldLimit
  /\ Horizon \in Nat
  /\ MaxRollbacks \in Nat

VARIABLES
  \* the outbox table
  status, attempts, due,
  \* the audit_log entries of a row, by event type
  sentEvents, deadEvents,
  \* the workers
  phase, claimed, attemptNo, held, outcome, handled, stopping,
  \* the receiver and the network: copies accepted, requests nobody waits for
  delivered, late,
  \* history: claims of the row that were rolled back
  rollbacks

tableVars == <<status, attempts, due, sentEvents, deadEvents>>
workerVars == <<phase, claimed, attemptNo, held, outcome, handled>>
netVars == <<delivered, late>>
vars == <<tableVars, workerVars, stopping, netVars, rollbacks>>

OpenStatus == {"pending", "failed"}
Terminal == {"sent", "dead_letter"}
Status == {"absent"} \cup OpenStatus \cup Terminal

\* A request is on its way ("sending") or taken in by the receiver
\* ("accepted"), and the worker awaits the answer.
InFlight == {"sending", "accepted"}
Holding == InFlight \cup {"answered"}
Phases == {"polling", "draining", "stopped"} \cup Holding

Outcomes == {"none", "ok", "permanent", "transient", "unexpected"}
Replies == {"1xx", "2xx", "3xx", "4xx", "429", "5xx"}

\* WebhookNotifier._raise_for_status, and the except branches of _process_row.
Classify(reply) ==
  CASE reply = "2xx" -> "ok"
    [] reply \in {"429", "5xx"} -> "transient"
    [] reply = "4xx" -> "permanent"
    [] OTHER -> "unexpected"

AtLeast(x, floor) == IF x < floor THEN floor ELSE x

\* base * 2 ** (attempts - 1), with the failed attempt already counted.  In the
\* code a float, which overflows only for settings hundreds of times the default.
Window(n) == BackoffBase * 2^(n - 1)

\* random.uniform(0, min(window, cap)), in whole ticks.
RetryDelays_Doubled(n) == {d \in 0..BackoffCap : d <= Window(n + 1)}
RetryDelays(n) == {d \in 0..BackoffCap : d <= Window(n)}

Init ==
  /\ status = [a \in Alerts |-> "absent"]
  /\ attempts = [a \in Alerts |-> 0]
  /\ due = [a \in Alerts |-> 0]
  /\ sentEvents = [a \in Alerts |-> 0]
  /\ deadEvents = [a \in Alerts |-> 0]
  /\ phase = [w \in Workers |-> "polling"]
  /\ claimed = [w \in Workers |-> NoAlert]
  /\ attemptNo = [w \in Workers |-> 0]
  /\ held = [w \in Workers |-> 0]
  /\ outcome = [w \in Workers |-> "none"]
  /\ handled = [w \in Workers |-> 0]
  /\ stopping = [w \in Workers |-> FALSE]
  /\ delivered = [a \in Alerts |-> 0]
  /\ late = [a \in Alerts |-> 0]
  /\ rollbacks = [a \in Alerts |-> 0]

-----------------------------------------------------------------------------
(* The table and the clock                                                 *)

\* A check commits the pending rows of its calls of enqueue_alert.  Their
\* next_attempt_at is the start of its transaction, so they may be overdue
\* when they become visible.
Enqueue(rows) ==
  /\ rows # {}
  /\ \A a \in rows : status[a] = "absent"
  /\ \E age \in 0..Horizon :
        due' = [a \in Alerts |-> IF a \in rows THEN 0 - age ELSE due[a]]
  /\ status' = [a \in Alerts |-> IF a \in rows THEN "pending" ELSE status[a]]
  /\ UNCHANGED <<attempts, sentEvents, deadEvents, workerVars, stopping,
                 netVars, rollbacks>>

\* Time passes.  A request is given up at its deadline and a transaction is
\* over by HoldLimit, so neither is left waiting beyond it.
Tick ==
  /\ \A w \in Workers :
        /\ phase[w] \in InFlight => held[w] < SendDeadline
        /\ phase[w] \in Holding => held[w] < HoldLimit
  /\ due' = [a \in Alerts |-> IF status[a] \in OpenStatus
                                THEN AtLeast(due[a] - 1, 0 - Horizon)
                                ELSE due[a]]
  /\ held' = [w \in Workers |-> IF phase[w] \in Holding
                                  THEN held[w] + 1 ELSE held[w]]
  /\ UNCHANGED <<status, attempts, sentEvents, deadEvents, phase, claimed,
                 attemptNo, outcome, handled, stopping, netVars, rollbacks>>

-----------------------------------------------------------------------------
(* run_forever and run_once                                                *)

StartBatch_IgnoringStop(w) ==
  /\ phase[w] = "polling"
  /\ phase' = [phase EXCEPT ![w] = "draining"]
  /\ handled' = [handled EXCEPT ![w] = 0]
  /\ UNCHANGED <<tableVars, claimed, attemptNo, held, outcome, stopping,
                 netVars, rollbacks>>

\* A poll interval has passed and no stop was requested: run_once begins.
StartBatch(w) ==
  /\ phase[w] = "polling"
  /\ ~stopping[w]
  /\ phase' = [phase EXCEPT ![w] = "draining"]
  /\ handled' = [handled EXCEPT ![w] = 0]
  /\ UNCHANGED <<tableVars, claimed, attemptNo, held, outcome, stopping,
                 netVars, rollbacks>>

Locked(a) == \E w \in Workers : claimed[w] = a
Claimable_Unlocked(a) == status[a] \in OpenStatus /\ due[a] <= 0
Claimable_Pending(a) == status[a] = "pending" /\ due[a] <= 0 /\ ~Locked(a)
Claimable_Unfinished(a) == status[a] \notin {"absent", "sent"} /\ due[a] <= 0 /\ ~Locked(a)
Claimable(a) == status[a] \in OpenStatus /\ due[a] <= 0 /\ ~Locked(a)

\* _CLAIM_SQL takes and locks the claimable row with the least
\* next_attempt_at; _process_row computes attempt_no from the row it read
\* and starts the send.
Claim(w, a) ==
  /\ phase[w] = "draining"
  /\ handled[w] < MaxBatch
  /\ Claimable(a)
  /\ \A b \in Alerts : Claimable(b) => due[a] <= due[b]
  /\ phase' = [phase EXCEPT ![w] = "sending"]
  /\ claimed' = [claimed EXCEPT ![w] = a]
  /\ attemptNo' = [attemptNo EXCEPT ![w] = attempts[a] + 1]
  /\ held' = [held EXCEPT ![w] = 0]
  /\ handled' = [handled EXCEPT ![w] = @ + 1]
  /\ UNCHANGED <<tableVars, outcome, stopping, netVars, rollbacks>>

\* run_once returns: no due row is left, or max_batch rows were handled.
EndBatch(w) ==
  /\ phase[w] = "draining"
  /\ handled[w] = MaxBatch \/ \A a \in Alerts : ~Claimable(a)
  /\ phase' = [phase EXCEPT ![w] = "polling"]
  /\ UNCHANGED <<tableVars, claimed, attemptNo, held, outcome, handled,
                 stopping, netVars, rollbacks>>

\* SIGINT or SIGTERM sets the stop event; run_forever looks at it only
\* between two ticks.
RequestStop(w) ==
  /\ phase[w] # "stopped"
  /\ stopping' = [stopping EXCEPT ![w] = TRUE]
  /\ UNCHANGED <<tableVars, workerVars, netVars, rollbacks>>

Stop(w) ==
  /\ phase[w] = "polling"
  /\ stopping[w]
  /\ phase' = [phase EXCEPT ![w] = "stopped"]
  /\ UNCHANGED <<tableVars, claimed, attemptNo, held, outcome, handled,
                 stopping, netVars, rollbacks>>

-----------------------------------------------------------------------------
(* notifier.send                                                           *)

\* The receiver takes the alert in.
Accept(w) ==
  /\ phase[w] = "sending"
  /\ phase' = [phase EXCEPT ![w] = "accepted"]
  /\ delivered' = [delivered EXCEPT ![claimed[w]] = @ + 1]
  /\ UNCHANGED <<tableVars, claimed, attemptNo, held, outcome, handled,
                 stopping, late, rollbacks>>

\* The send ends with the given outcome.
Answered(w, o) ==
  /\ phase' = [phase EXCEPT ![w] = "answered"]
  /\ outcome' = [outcome EXCEPT ![w] = o]
  /\ UNCHANGED <<tableVars, claimed, attemptNo, held, handled, stopping,
                 delivered, rollbacks>>

\* The receiver answers.  Only an accepted alert is answered 2xx; an error
\* status may come before or after the receiver took the alert in.
Reply(w, reply) ==
  /\ phase[w] \in InFlight
  /\ reply = "2xx" => phase[w] = "accepted"
  /\ Answered(w, Classify(reply))
  /\ UNCHANGED late

\* What becomes of a request nobody awaits any more: one that has not
\* reached the receiver is lost or arrives later.
LeaveInNetwork(w) ==
  late' \in IF phase[w] = "sending"
              THEN {late, [late EXCEPT ![claimed[w]] = @ + 1]}
              ELSE {late}

\* asyncio.timeout: one deadline over connect, write and read.
Timeout(w) ==
  /\ phase[w] \in InFlight
  /\ held[w] >= SendDeadline
  /\ Answered(w, "transient")
  /\ LeaveInNetwork(w)

\* httpx.TransportError: the connection fails, before or after the request
\* was written.
TransportError(w) ==
  /\ phase[w] \in InFlight
  /\ Answered(w, "transient")
  /\ LeaveInNetwork(w)

LateArrival(a) ==
  /\ late[a] > 0
  /\ late' = [late EXCEPT ![a] = @ - 1]
  /\ delivered' = [delivered EXCEPT ![a] = @ + 1]
  /\ UNCHANGED <<tableVars, workerVars, stopping, rollbacks>>

LateLoss(a) ==
  /\ late[a] > 0
  /\ late' = [late EXCEPT ![a] = @ - 1]
  /\ UNCHANGED <<tableVars, workerVars, stopping, delivered, rollbacks>>

-----------------------------------------------------------------------------
(* The outcome is written and the transaction ends                         *)

\* The transaction is over: its row lock is gone.
Release(w, next) ==
  /\ phase' = [phase EXCEPT ![w] = next]
  /\ claimed' = [claimed EXCEPT ![w] = NoAlert]
  /\ outcome' = [outcome EXCEPT ![w] = "none"]
  /\ attemptNo' = [attemptNo EXCEPT ![w] = 0]
  /\ held' = [held EXCEPT ![w] = 0]
  /\ UNCHANGED handled

Commit(w) ==
  /\ Release(w, "draining")
  /\ UNCHANGED <<stopping, netVars, rollbacks>>

\* attempt_no >= max_attempts.
Exhausted_Late(w) == attemptNo[w] > MaxAttempts
Exhausted(w) == attemptNo[w] >= MaxAttempts
Retryable == {"transient", "unexpected"}

MarkSent_AnyAnswer(w) ==
  LET a == claimed[w] IN
  /\ phase[w] = "answered"
  /\ outcome[w] \in {"ok", "unexpected"}
  /\ status' = [status EXCEPT ![a] = "sent"]
  /\ attempts' = [attempts EXCEPT ![a] = attemptNo[w]]
  /\ sentEvents' = [sentEvents EXCEPT ![a] = @ + 1]
  /\ UNCHANGED <<due, deadEvents>>
  /\ Commit(w)

\* _mark_sent: status, attempts and the alert.sent event, in one transaction.
MarkSent(w) ==
  LET a == claimed[w] IN
  /\ phase[w] = "answered"
  /\ outcome[w] = "ok"
  /\ status' = [status EXCEPT ![a] = "sent"]
  /\ attempts' = [attempts EXCEPT ![a] = attemptNo[w]]
  /\ sentEvents' = [sentEvents EXCEPT ![a] = @ + 1]
  /\ UNCHANGED <<due, deadEvents>>
  /\ Commit(w)

\* _retry_later: next_attempt_at is counted from now(), the start of the
\* transaction, so the time the send took is part of the delay.
RetryLater_Uncounted(w) ==
  LET a == claimed[w] IN
  /\ phase[w] = "answered"
  /\ outcome[w] \in Retryable
  /\ ~Exhausted(w)
  /\ \E delay \in RetryDelays(attemptNo[w]) :
        due' = [due EXCEPT ![a] = AtLeast(delay - held[w], 0 - Horizon)]
  /\ status' = [status EXCEPT ![a] = "failed"]
  /\ UNCHANGED <<attempts, sentEvents, deadEvents>>
  /\ Commit(w)

RetryLater(w) ==
  LET a == claimed[w] IN
  /\ phase[w] = "answered"
  /\ outcome[w] \in Retryable
  /\ ~Exhausted(w)
  /\ \E delay \in RetryDelays(attemptNo[w]) :
        due' = [due EXCEPT ![a] = AtLeast(delay - held[w], 0 - Horizon)]
  /\ status' = [status EXCEPT ![a] = "failed"]
  /\ attempts' = [attempts EXCEPT ![a] = attemptNo[w]]
  /\ UNCHANGED <<sentEvents, deadEvents>>
  /\ Commit(w)

\* _dead_letter: a permanent failure at once, any other when attempts are
\* exhausted; the alert.dead_lettered event goes with it.
DeadLetter(w) ==
  LET a == claimed[w] IN
  /\ phase[w] = "answered"
  /\ outcome[w] = "permanent" \/ (outcome[w] \in Retryable /\ Exhausted(w))
  /\ status' = [status EXCEPT ![a] = "dead_letter"]
  /\ attempts' = [attempts EXCEPT ![a] = attemptNo[w]]
  /\ deadEvents' = [deadEvents EXCEPT ![a] = @ + 1]
  /\ UNCHANGED <<due, sentEvents>>
  /\ Commit(w)

\* The claim's transaction rolls back: neither the status nor the attempt
\* was recorded, and whatever was sent stays sent.
Rollback(w) ==
  /\ phase[w] \in Holding
  /\ rollbacks[claimed[w]] < MaxRollbacks
  /\ rollbacks' = [rollbacks EXCEPT ![claimed[w]] = @ + 1]
  /\ LeaveInNetwork(w)
  /\ Release(w, "polling")
  /\ UNCHANGED <<tableVars, delivered>>

\* A database error escapes run_once; run_forever logs it and goes on.
TickFails(w) == Rollback(w) /\ UNCHANGED stopping

\* The process dies and is started again, with no stop requested.
Crash(w) == Rollback(w) /\ stopping' = [stopping EXCEPT ![w] = FALSE]

-----------------------------------------------------------------------------
Finish(w) == MarkSent(w) \/ RetryLater(w) \/ DeadLetter(w)

WorkerStep(w) ==
  \/ StartBatch(w)
  \/ \E a \in Alerts : Claim(w, a)
  \/ EndBatch(w)
  \/ RequestStop(w)
  \/ Stop(w)
  \/ Accept(w)
  \/ \E reply \in Replies : Reply(w, reply)
  \/ Timeout(w)
  \/ TransportError(w)
  \/ MarkSent(w)
  \/ RetryLater(w)
  \/ DeadLetter(w)
  \/ TickFails(w)
  \/ Crash(w)

Next ==
  \/ Tick
  \/ \E rows \in SUBSET Alerts : Enqueue(rows)
  \/ \E a \in Alerts : LateArrival(a) \/ LateLoss(a)
  \/ \E w \in Workers : WorkerStep(w)

Spec == Init /\ [][Next]_vars

\* The event loop keeps running the worker's own code and time passes.  No
\* fairness on the receiver, the network, the signals or new alerts.
Fairness ==
  /\ WF_vars(Tick)
  /\ \A w \in Workers :
        /\ WF_vars(StartBatch(w))
        /\ WF_vars(\E a \in Alerts : Claim(w, a))
        /\ WF_vars(EndBatch(w))
        /\ WF_vars(Stop(w))
        /\ WF_vars(Timeout(w))
        /\ WF_vars(Finish(w))

FairSpec == Spec /\ Fairness

-----------------------------------------------------------------------------
(* Properties                                                              *)

TypeOK ==
  /\ status \in [Alerts -> Status]
  /\ attempts \in [Alerts -> 0..MaxAttempts]
  /\ due \in [Alerts -> (0 - Horizon)..BackoffCap]
  /\ sentEvents \in [Alerts -> Nat]
  /\ deadEvents \in [Alerts -> Nat]
  /\ phase \in [Workers -> Phases]
  /\ claimed \in [Workers -> Alerts \cup {NoAlert}]
  /\ attemptNo \in [Workers -> 0..MaxAttempts]
  /\ held \in [Workers -> 0..HoldLimit]
  /\ outcome \in [Workers -> Outcomes]
  /\ handled \in [Workers -> 0..MaxBatch]
  /\ stopping \in [Workers -> BOOLEAN]
  /\ delivered \in [Alerts -> Nat]
  /\ late \in [Alerts -> Nat]
  /\ rollbacks \in [Alerts -> 0..MaxRollbacks]

\* The row lock does its work across the open send: a row is in the hands of
\* one worker at most, that worker's attempt number, computed from a row read
\* before the send, is still one more than the row's count when it is
\* written, and the row is still unsettled.
ClaimIsExclusive ==
  \A w \in Workers : phase[w] \in Holding =>
    /\ status[claimed[w]] \in OpenStatus
    /\ attemptNo[w] = attempts[claimed[w]] + 1
    /\ \A v \in Workers \ {w} : claimed[v] # claimed[w]

\* A row is marked sent only if the receiver has taken the alert in: no
\* classification of an answer and no order of failures marks an alert sent
\* that nobody received.
SentWasReceived ==
  \A a \in Alerts : status[a] = "sent" => delivered[a] > 0

\* The audit log tells how an alert ended: exactly one terminal event, of
\* the row's own kind, once the row is settled, and none before, whatever was
\* rolled back or sent again in between.
AuditTellsTheEnd ==
  \A a \in Alerts :
    /\ sentEvents[a] = IF status[a] = "sent" THEN 1 ELSE 0
    /\ deadEvents[a] = IF status[a] = "dead_letter" THEN 1 ELSE 0

\* 1 while some claim of the row is open, resp. its request is on the way.
InHand(a) ==
  IF \E w \in Workers : phase[w] \in Holding /\ claimed[w] = a THEN 1 ELSE 0
OnTheWay(a) ==
  IF \E w \in Workers : phase[w] = "sending" /\ claimed[w] = a THEN 1 ELSE 0

\* At-least-once, and no worse: the receiver sees a key at most once for
\* every counted attempt, every rolled-back claim and the claim in progress.
\* Copies still in the network count too.
DuplicatesAreExplained ==
  \A a \in Alerts :
    delivered[a] + late[a] + OnTheWay(a)
      <= attempts[a] + rollbacks[a] + InHand(a)

\* A row waits for a retry only while attempts are left, and only after a
\* failure that was counted; an untried row has none.
RetryWithinBudget ==
  \A a \in Alerts :
    /\ status[a] = "failed" => attempts[a] \in 1..(MaxAttempts - 1)
    /\ status[a] = "pending" => attempts[a] = 0

\* A row that waits for a retry is due within the backoff window of the
\* failures counted so far, min(base * 2^(n-1), cap), however long the send
\* and its transaction took.
RetryWithinWindow ==
  \A a \in Alerts :
    status[a] = "failed" =>
      /\ due[a] <= BackoffCap
      /\ due[a] <= Window(attempts[a])

\* The state machine of the outbox row (ADR-0008 section 7) with several
\* workers: sent and dead_letter are never left or rewritten, and a row is
\* touched only to count one more attempt.
RowHistory ==
  [][\A a \in Alerts :
       /\ status[a] \in Terminal => /\ status'[a] = status[a]
                                    /\ attempts'[a] = attempts[a]
       /\ attempts'[a] # attempts[a] => /\ attempts'[a] = attempts[a] + 1
                                        /\ status'[a] \notin {"absent", "pending"}
    ]_<<status, attempts>>

\* No alert is lost: once its row is committed it is sent or dead-lettered,
\* whatever the receiver, the network and a bounded number of rollbacks do,
\* unless every worker has been stopped.
EveryAlertSettles ==
  \A a \in Alerts :
    status[a] = "pending" ~>
      (status[a] \in Terminal \/ \A w \in Workers : phase[w] = "stopped")

\* A worker asked to stop finishes its batch and stops: rows that stay due
\* and a receiver that never answers cannot hold it, unless a crash forgets
\* the request.
ShutdownCompletes ==
  \A w \in Workers :
    stopping[w] ~> (phase[w] = "stopped" \/ ~stopping[w])
-----------------------------------------------------------------------------
(* A statement of ADR-0008 that the code does not keep                     *)

\* ADR-0008 section 7: a failed row has its retry scheduled at a future
\* next_attempt_at.
FailedIsScheduledAhead ==
  [][\A a \in Alerts :
       attempts'[a] # attempts[a] /\ status'[a] = "failed" => due'[a] > 0
    ]_<<status, attempts>>
=============================================================================
