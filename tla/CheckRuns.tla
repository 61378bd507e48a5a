----------------------------- MODULE CheckRuns -----------------------------
(***************************************************************************)
(* One tenant's compliance checks: concurrent run_check transactions       *)
(* (services/checks.py) and questionnaire submissions (services/answers.py)*)
(* on the tables evidence, findings and outbox, statement by statement,    *)
(* under PostgreSQL's READ COMMITTED isolation, which is what session.py   *)
(* uses.  Each statement sees what is committed when it starts; now() is   *)
(* the start of the transaction.                                           *)
(*                                                                         *)
(* A run inserts at most one finding per control, so the finding run r     *)
(* wrote for control c has the id <<r, c>>, and it exists for the others   *)
(* once r has committed.  The findings table is read off the runs:         *)
(*   status      wrote[r][c]                                               *)
(*   valid_from  start[r]                                                  *)
(*   valid_to    start[s] of the committed run s that closed it, or NULL   *)
(* and the outbox row of that transition, keyed by the finding's id, is    *)
(* there if c is in enqueued[r].                                           *)
(***************************************************************************)
EXTENDS Decision, Sequences

CONSTANTS
  Runs,         \* calls of run_check for the tenant
  Submissions,  \* calls of record_answers for the tenant
  NoRun,        \* "no finding"
  ControlOrder, \* the active controls, ORDER BY code
  Elapse        \* bound: how far now() may move between two transactions,
                \* {0, 1} if two may begin in the same microsecond

ASSUME CheckAssumption ==
  /\ NoRun \notin Runs
  /\ ControlOrder \in Seq(Controls)
  /\ \A i, j \in 1..Len(ControlOrder) :
        ControlOrder[i] = ControlOrder[j] => i = j
  /\ \A c \in Controls : \E i \in 1..Len(ControlOrder) : ControlOrder[i] = c
  /\ Elapse \subseteq Nat

VARIABLES
  clock,     \* the database clock
  tenant,    \* the tenant's row is committed and active
  \* submissions
  stage, collected, given,
  \* runs: progress, now(), what the run has read
  pc, start, answers, seen, pos,
  \* runs: what the run has written, visible to others once it committed
  closed, wrote, enqueued,
  \* history, for AssessedMeansCurrent
  overtaken, assessed

subVars == <<stage, collected, given>>
localVars == <<answers, seen, pos>>
writeVars == <<closed, wrote, enqueued>>
historyVars == <<overtaken, assessed>>
vars == <<clock, tenant, subVars, pc, start, localVars, writeVars, historyVars>>

Nothing == "nothing"   \* no finding written

Stages == {"idle", "open", "recorded", "rejected"}
Active == {"begun", "answered", "looping", "replacing"}
Phases == {"idle", "committed", "failed"} \cup Active

Init ==
  /\ clock = 0
  /\ tenant = FALSE
  /\ stage = [s \in Submissions |-> "idle"]
  /\ collected = [s \in Submissions |-> 0]
  /\ given = [s \in Submissions |-> NoAnswers]
  /\ pc = [r \in Runs |-> "idle"]
  /\ start = [r \in Runs |-> 0]
  /\ answers = [r \in Runs |-> NoAnswers]
  /\ seen = [r \in Runs |-> [c \in Controls |-> NoRun]]
  /\ pos = [r \in Runs |-> 1]
  /\ closed = [r \in Runs |-> [c \in Controls |-> NoRun]]
  /\ wrote = [r \in Runs |-> [c \in Controls |-> Nothing]]
  /\ enqueued = [r \in Runs |-> {}]
  /\ overtaken = [r \in Runs |-> FALSE]
  /\ assessed = FALSE

\* A transaction that begins at t: now() never runs backwards.
BeginAt(t) == clock' = t
Instants == {clock + d : d \in Elapse}

-----------------------------------------------------------------------------
(* What is committed                                                       *)

Committed(r) == r \in Runs /\ pc[r] = "committed"

\* Finding <<q, c>> is committed and its valid_to is NULL.
Current(q, c) ==
  /\ Committed(q)
  /\ wrote[q][c] # Nothing
  /\ \A s \in Runs : Committed(s) => closed[s][c] # q

\* The runs whose finding for c is current: at most one, see CleanHandoff.
CurrentRuns(c) == {q \in Runs : Current(q, c)}

Recorded == {s \in Submissions : stage[s] = "recorded"}

\* _SELECT_LATEST_ANSWERS_SQL: per question the answer collected last.  With
\* equal timestamps (created_at is the same now()) the choice is arbitrary.
LatestAnswers ==
  {m \in AnswerMaps :
    /\ DOMAIN m = UNION {DOMAIN given[s] : s \in Recorded}
    /\ \A q \in DOMAIN m : \E s \in Recorded :
          /\ q \in DOMAIN given[s]
          /\ m[q] = given[s][q]
          /\ \A t \in Recorded :
                q \in DOMAIN given[t] => collected[t] <= collected[s]}

-----------------------------------------------------------------------------
(* create_tenant and record_answers                                        *)

CreateTenant ==
  /\ ~tenant
  /\ tenant' = TRUE
  /\ UNCHANGED <<clock, subVars, pc, start, localVars, writeVars, historyVars>>

\* The transaction of record_answers begins, with valid answers to known
\* questions; collected_at will be its now().
OpenSubmission(s) ==
  /\ stage[s] = "idle"
  /\ tenant
  /\ \E t \in Instants :
        BeginAt(t) /\ collected' = [collected EXCEPT ![s] = t]
  /\ given' \in {[given EXCEPT ![s] = m] : m \in AnswerMaps \ {NoAnswers}}
  /\ stage' = [stage EXCEPT ![s] = "open"]
  /\ UNCHANGED <<tenant, pc, start, localVars, writeVars, historyVars>>

\* An inactive tenant, an unknown question, an answer that is neither yes
\* nor no, or a failure before the commit: nothing is recorded.
RejectSubmission(s) ==
  /\ stage[s] \in {"idle", "open"}
  /\ stage' = [stage EXCEPT ![s] = "rejected"]
  /\ collected' = [collected EXCEPT ![s] = 0]
  /\ given' = [given EXCEPT ![s] = NoAnswers]
  /\ UNCHANGED <<clock, tenant, pc, start, localVars, writeVars, historyVars>>

\* All the evidence rows become visible at once.
RecordAnswers(s) ==
  /\ stage[s] = "open"
  /\ stage' = [stage EXCEPT ![s] = "recorded"]
  /\ overtaken' = [r \in Runs |->
                     overtaken[r] \/ pc[r] \in Active \ {"begun"}]
  /\ assessed' = FALSE
  /\ UNCHANGED <<clock, tenant, collected, given, pc, start, localVars,
                 writeVars>>

-----------------------------------------------------------------------------
(* run_check                                                               *)

\* The transaction begins with the tenant check; an unknown tenant ends it.
Begin(r) ==
  /\ pc[r] = "idle"
  /\ IF tenant
       THEN /\ \E t \in Instants :
                 BeginAt(t) /\ start' = [start EXCEPT ![r] = t]
            /\ pc' = [pc EXCEPT ![r] = "begun"]
       ELSE /\ pc' = [pc EXCEPT ![r] = "failed"]
            /\ UNCHANGED <<clock, start>>
  /\ UNCHANGED <<tenant, subVars, localVars, writeVars, historyVars>>

\* load_tenant_answers; the check_runs row and its audit event follow.
ReadAnswers(r) ==
  /\ pc[r] = "begun"
  /\ answers' \in {[answers EXCEPT ![r] = m] : m \in LatestAnswers}
  /\ pc' = [pc EXCEPT ![r] = "answered"]
  /\ UNCHANGED <<clock, tenant, subVars, start, seen, pos, writeVars,
                 historyVars>>

SeenNow(c) ==
  IF CurrentRuns(c) = {} THEN NoRun ELSE CHOOSE q \in CurrentRuns(c) : TRUE

\* _SELECT_CURRENT_FINDINGS_SQL, a later statement and a later snapshot.
ReadFindings(r) ==
  /\ pc[r] = "answered"
  /\ seen' = [seen EXCEPT ![r] = [c \in Controls |-> SeenNow(c)]]
  /\ pc' = [pc EXCEPT ![r] = "looping"]
  /\ UNCHANGED <<clock, tenant, subVars, start, answers, pos, writeVars,
                 historyVars>>

Order_Unsorted(r) ==
  IF r = CHOOSE q \in Runs : TRUE
    THEN ControlOrder
    ELSE [i \in 1..Len(ControlOrder) |->
            ControlOrder[Len(ControlOrder) + 1 - i]]
Order(r) == ControlOrder

\* The control the loop is at, its old status and the verdict.
InLoop(r) == pc[r] = "looping" /\ pos[r] <= Len(ControlOrder)
At(r) == Order(r)[pos[r]]
OldStatus(r) == wrote[seen[r][At(r)]][At(r)]
NewStatus(r) == Decide(answers[r], At(r))
IsFirst(r) == seen[r][At(r)] = NoRun

Same_UnlessWorse(r) == ~IsWorsening(OldStatus(r), NewStatus(r))
Same(r) == OldStatus(r) = NewStatus(r)

Advance(r) ==
  /\ pos' = [pos EXCEPT ![r] = @ + 1]
  /\ UNCHANGED <<clock, tenant, subVars, start, answers, seen, historyVars>>

\* The status is what it was: nothing is written for this control.
Unchanged(r) ==
  /\ InLoop(r)
  /\ ~IsFirst(r)
  /\ Same(r)
  /\ Advance(r)
  /\ UNCHANGED <<pc, writeVars>>

\* Another open transaction has updated the row the close is about.
RowLocked(r) ==
  \E s \in Runs \ {r} : pc[s] \in Active /\ closed[s][At(r)] = seen[r][At(r)]

WantsToClose(r) == InLoop(r) /\ ~IsFirst(r) /\ ~Same(r)

\* ck_findings_valid_range: valid_to = now() must be after valid_from.
RangeOk_Unchecked(r) == start[r] >= 0
RangeOk(r) == start[r] > start[seen[r][At(r)]]

\* _CLOSE_OLD_FINDING_SQL waits for a lock on the row and then looks at the
\* row again: one that has been closed since is left alone, and the code does
\* not look at the number of rows closed.
CloseOld(r) ==
  /\ WantsToClose(r)
  /\ ~RowLocked(r)
  /\ IF Current(seen[r][At(r)], At(r))
       THEN /\ RangeOk(r)
            /\ closed' = [closed EXCEPT ![r][At(r)] = seen[r][At(r)]]
       ELSE UNCHANGED closed
  /\ pc' = [pc EXCEPT ![r] = "replacing"]
  /\ UNCHANGED <<clock, tenant, subVars, start, localVars, wrote, enqueued,
                 historyVars>>

WantsToInsert(r) == pc[r] = "replacing" \/ (InLoop(r) /\ IsFirst(r))

\* An open transaction has put in, or closed, a current finding of the
\* control: the index uniq_findings_current makes the insert wait for it.
IndexBusy(r) ==
  \E s \in Runs \ {r} :
    /\ pc[s] \in Active
    /\ wrote[s][At(r)] # Nothing \/ closed[s][At(r)] # NoRun

\* uniq_findings_current: a current finding of the control that this run has
\* not closed itself.
Duplicate_Unindexed(r) == FALSE
Duplicate(r) == \E q \in CurrentRuns(At(r)) : closed[r][At(r)] # q

Alerting_AnyChange(r) == ~IsFirst(r) /\ NewStatus(r) \in Ranked
Alerting(r) == ~IsFirst(r) /\ IsWorsening(OldStatus(r), NewStatus(r))

\* The new finding, its audit event and, for a worsening transition, the
\* outbox row of enqueue_alert.
InsertNew(r) ==
  /\ WantsToInsert(r)
  /\ ~IndexBusy(r)
  /\ ~Duplicate(r)
  /\ wrote' = [wrote EXCEPT ![r][At(r)] = NewStatus(r)]
  /\ enqueued' = [enqueued EXCEPT
                    ![r] = IF Alerting(r) THEN @ \cup {At(r)} ELSE @]
  /\ pc' = [pc EXCEPT ![r] = "looping"]
  /\ Advance(r)
  /\ UNCHANGED closed

\* run_check returns or raises: what it had read is gone.
Forget(r) ==
  /\ answers' = [answers EXCEPT ![r] = NoAnswers]
  /\ seen' = [seen EXCEPT ![r] = [c \in Controls |-> NoRun]]
  /\ pos' = [pos EXCEPT ![r] = 1]
  /\ UNCHANGED <<clock, tenant, subVars>>

\* The run is completed and everything it wrote is committed.
Commit(r) ==
  /\ pc[r] = "looping"
  /\ pos[r] > Len(ControlOrder)
  /\ pc' = [pc EXCEPT ![r] = "committed"]
  /\ assessed' = ~overtaken[r]
  /\ overtaken' = [q \in Runs |->
        /\ q # r
        /\ \/ overtaken[q]
           \/ overtaken[r] /\ pc[q] \in {"looping", "replacing"}]
  /\ Forget(r)
  /\ UNCHANGED <<start, writeVars>>

\* The transaction rolls back: its writes and locks are gone.
Abort(r) ==
  /\ pc' = [pc EXCEPT ![r] = "failed"]
  /\ start' = [start EXCEPT ![r] = 0]
  /\ closed' = [closed EXCEPT ![r] = [c \in Controls |-> NoRun]]
  /\ wrote' = [wrote EXCEPT ![r] = [c \in Controls |-> Nothing]]
  /\ enqueued' = [enqueued EXCEPT ![r] = {}]
  /\ overtaken' = [overtaken EXCEPT ![r] = FALSE]
  /\ Forget(r)
  /\ UNCHANGED assessed

\* The close would leave an empty or negative validity range.
RangeViolation(r) ==
  /\ WantsToClose(r)
  /\ ~RowLocked(r)
  /\ Current(seen[r][At(r)], At(r))
  /\ ~RangeOk(r)
  /\ Abort(r)

\* The insert would make a second current finding.
UniqueViolation(r) ==
  /\ WantsToInsert(r)
  /\ ~IndexBusy(r)
  /\ Duplicate(r)
  /\ Abort(r)

\* Any other error, or the process dies.
Fail(r) == pc[r] \in Active /\ Abort(r)

-----------------------------------------------------------------------------
Work(r) ==
  \/ ReadAnswers(r)
  \/ ReadFindings(r)
  \/ Unchanged(r)
  \/ CloseOld(r)
  \/ InsertNew(r)
  \/ Commit(r)
  \/ RangeViolation(r)
  \/ UniqueViolation(r)

Next ==
  \/ CreateTenant
  \/ \E s \in Submissions :
        OpenSubmission(s) \/ RejectSubmission(s) \/ RecordAnswers(s)
  \/ \E r \in Runs : Begin(r) \/ Work(r) \/ Fail(r)

Spec == Init /\ [][Next]_vars

\* A run that has begun goes on as long as no lock makes it wait.
FairSpec == Spec /\ \A r \in Runs : WF_vars(Work(r))

-----------------------------------------------------------------------------
(* Properties                                                              *)

TypeOK ==
  /\ clock \in Nat
  /\ tenant \in BOOLEAN
  /\ stage \in [Submissions -> Stages]
  /\ collected \in [Submissions -> 0..clock]
  /\ given \in [Submissions -> AnswerMaps]
  /\ pc \in [Runs -> Phases]
  /\ start \in [Runs -> 0..clock]
  /\ answers \in [Runs -> AnswerMaps]
  /\ seen \in [Runs -> [Controls -> Runs \cup {NoRun}]]
  /\ pos \in [Runs -> 1..(Len(ControlOrder) + 1)]
  /\ closed \in [Runs -> [Controls -> Runs \cup {NoRun}]]
  /\ wrote \in [Runs -> [Controls -> Verdicts \cup {Nothing}]]
  /\ enqueued \in [Runs -> SUBSET Controls]
  /\ overtaken \in [Runs -> BOOLEAN]
  /\ assessed \in BOOLEAN

\* The committed findings of a control, and the committed runs that closed one.
Written(c) == {r \in Runs : Committed(r) /\ wrote[r][c] # Nothing}
ClosersOf(q, c) == {s \in Runs : Committed(s) /\ closed[s][c] = q}

\* The history of a control is a clean handoff (ADR-0002, checks.py): a
\* finding is closed at most once, only by a run that puts its successor in at
\* that very time, and after its own valid_from; and once there is a finding
\* there is exactly one current one, whatever runs overlapped.
CleanHandoff ==
  \A c \in Controls :
    /\ \A q \in Written(c) :
         /\ \A s, t \in ClosersOf(q, c) : s = t
         /\ \A s \in ClosersOf(q, c) : s \in Written(c) /\ start[q] < start[s]
    /\ Written(c) # {} => \E q \in Runs : CurrentRuns(c) = {q}

\* Only the first finding of a control replaces none: a finding.created
\* event is never written for a control that already had a finding.
OneBeginning ==
  \A c \in Controls : \A r, s \in Written(c) :
    closed[r][c] = NoRun /\ closed[s][c] = NoRun => r = s

\* The outbox agrees with the history: a finding has an alert if and only if
\* it is worse than the finding it really replaced, which is the one the run
\* read before it waited for locks; and no status follows itself.
AlertsTellHistory ==
  \A c \in Controls : \A r \in Written(c) :
    LET q == closed[r][c] IN
    IF q = NoRun
      THEN c \notin enqueued[r]
      ELSE /\ q \in Written(c)
           /\ wrote[q][c] # wrote[r][c]
           /\ c \in enqueued[r] <=> IsWorsening(wrote[q][c], wrote[r][c])

\* A run that no submission and no run of older answers overtook leaves the
\* findings in agreement with the latest answers, and they stay so until the
\* next submission or the next overtaken run.
AssessedMeansCurrent ==
  assessed =>
    \A c \in Controls :
      /\ CurrentRuns(c) # {}
      /\ \A q \in CurrentRuns(c) :
           wrote[q][c] \in {Decide(m, c) : m \in LatestAnswers}

\* Runs that wait for each other's locks never wait in a circle: as long as
\* some run is in progress, some run in progress is not waiting.
Waiting(r) ==
  \/ WantsToClose(r) /\ RowLocked(r)
  \/ WantsToInsert(r) /\ IndexBusy(r)

NoWaitingCircle ==
  LET open == {r \in Runs : pc[r] \in Active} IN
  open # {} => \E r \in open : ~Waiting(r)

\* Every run that begins ends, committed or rolled back.
RunsEnd ==
  \A r \in Runs : pc[r] \in Active ~> pc[r] \in {"committed", "failed"}

-----------------------------------------------------------------------------
(* A statement of the code's comments that the code does not keep          *)

\* checks.py and decision.py: the answers and the findings of a run are read
\* from one consistent snapshot.  Then the answers a run holds when it reads
\* the findings would still be the latest ones.
OneConsistentSnapshot ==
  [][\A r \in Runs :
       pc[r] = "answered" /\ pc'[r] = "looping" =>
         answers[r] \in LatestAnswers]_vars
=============================================================================
