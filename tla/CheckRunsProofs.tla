--------------------------- MODULE CheckRunsProofs ---------------------------
(***************************************************************************)
(* Proofs about CheckRuns for any catalogue, rules, runs and submissions.  *)
(* Inv is the inductive invariant: what the locks and the unique index     *)
(* protect while runs overlap.                                             *)
(***************************************************************************)
EXTENDS CheckRunsRefinement, TLAPS

Size == Len(ControlOrder)
Working == {"looping", "replacing"}

\* A run outside its loop starts it at the first control.
Rewound(r) == pc[r] \notin Working => pos[r] = 1

\* A run that has not reached its loop, or has failed, has written nothing.
NothingYet(r) ==
  pc[r] \notin Working \cup {"committed"} =>
    \A c \in Controls :
      closed[r][c] = NoRun /\ wrote[r][c] = Nothing /\ c \notin enqueued[r]

\* What a run closes, and what it saw, are committed findings.
ClosesAreReal(r) ==
  \A c \in Controls : closed[r][c] # NoRun =>
    /\ Committed(closed[r][c])
    /\ wrote[closed[r][c]][c] # Nothing
    /\ start[closed[r][c]] < start[r]

SeenIsReal(r) ==
  \A c \in Controls : seen[r][c] # NoRun =>
    Committed(seen[r][c]) /\ wrote[seen[r][c]][c] # Nothing

\* Controls the loop has yet to handle are untouched.
LoopInOrder(r) ==
  pc[r] \in Working =>
    \A i \in pos[r]..Size :
      /\ wrote[r][ControlOrder[i]] = Nothing
      /\ ControlOrder[i] \notin enqueued[r]
      /\ closed[r][ControlOrder[i]] # NoRun => pc[r] = "replacing" /\ i = pos[r]

\* Between the close and the insert of a control.
Replacing(r) ==
  pc[r] = "replacing" =>
    /\ pos[r] <= Size
    /\ ~IsFirst(r)
    /\ ~Same(r)
    /\ closed[r][At(r)] \in {NoRun, seen[r][At(r)]}

\* A close is always followed by its insert.
ClosesAreReplaced(r) ==
  \A c \in Controls :
    closed[r][c] # NoRun /\ wrote[r][c] = Nothing =>
      pc[r] = "replacing" /\ c = At(r)

\* AlertsTellHistory, already before the commit.
AlertsAgree(r) ==
  \A c \in Controls :
    /\ c \in enqueued[r] => wrote[r][c] # Nothing
    /\ wrote[r][c] # Nothing =>
         IF closed[r][c] = NoRun
           THEN c \notin enqueued[r]
           ELSE /\ wrote[closed[r][c]][c] # wrote[r][c]
                /\ c \in enqueued[r] <=>
                     IsWorsening(wrote[closed[r][c]][c], wrote[r][c])

\* Every control the loop has passed has a finding.
Covered(r) ==
  pc[r] \in Working =>
    \A i \in 1..(pos[r] - 1) :
      wrote[r][ControlOrder[i]] # Nothing \/ seen[r][ControlOrder[i]] # NoRun

RunOK(r) ==
  /\ Rewound(r)
  /\ NothingYet(r)
  /\ ClosesAreReal(r)
  /\ SeenIsReal(r)
  /\ LoopInOrder(r)
  /\ Replacing(r)
  /\ ClosesAreReplaced(r)
  /\ AlertsAgree(r)
  /\ Covered(r)

\* No finding is closed twice.
ClosesDiffer ==
  \A r, s \in Runs, c \in Controls :
    closed[r][c] # NoRun /\ closed[r][c] = closed[s][c] => r = s

\* Of overlapping runs one at a time writes a finding for a control, and it
\* has closed the one in force.
OneWriter ==
  \A r \in Runs, c \in Controls :
    pc[r] \in Active /\ wrote[r][c] # Nothing =>
      /\ \A s \in Runs \ {r} :
           pc[s] \in Active => wrote[s][c] = Nothing /\ closed[s][c] = NoRun
      /\ \A q \in CurrentRuns(c) : q = closed[r][c]

\* The committed findings.
OneCurrent == \A c \in Controls : \A q, s \in CurrentRuns(c) : q = s
StillCurrent == \A c \in Controls : Written(c) # {} => CurrentRuns(c) # {}
History == OneCurrent /\ StillCurrent /\ OneBeginning

RunInv ==
  /\ \A r \in Runs : RunOK(r)
  /\ ClosesDiffer
  /\ OneWriter
  /\ History

Inv == TypeOK /\ RunInv

-----------------------------------------------------------------------------
(* The data                                                                *)

LEMMA Order_ ==
  /\ Size \in Nat
  /\ \A i \in 1..Size : ControlOrder[i] \in Controls
BY CheckAssumption DEF Size

LEMMA VerdictType == \A m, c : Decide(m, c) \in Verdicts
BY DEF Decide, ControlDecision, EvaluateYesNo, Verdicts, Ranked

LEMMA EmptyAnswers == NoAnswers \in AnswerMaps
<1>1. NoAnswers \in [{} -> {"yes", "no"}]
  BY DEF NoAnswers
<1> QED
  BY <1>1 DEF AnswerMaps

LEMMA NothingIsNoVerdict == Nothing \notin Verdicts
BY DEF Nothing, Verdicts, Ranked

LEMMA SeenNowIsCurrent ==
  ASSUME NEW c \in Controls
  PROVE  \/ SeenNow(c) = NoRun /\ CurrentRuns(c) = {}
         \/ SeenNow(c) \in CurrentRuns(c) /\ SeenNow(c) \in Runs
                                          /\ SeenNow(c) # NoRun
BY CheckAssumption DEF SeenNow, CurrentRuns

-----------------------------------------------------------------------------
(* Types                                                                   *)

LEMMA Later ==
  ASSUME TypeOK, NEW t \in Instants
  PROVE  t \in Nat /\ clock <= t
BY CheckAssumption DEF TypeOK, Instants

LEMMA Widen ==
  ASSUME NEW S, NEW a \in Nat, NEW b \in Nat, a <= b, NEW f \in [S -> 0..a]
  PROVE  /\ f \in [S -> 0..b]
         /\ \A x \in S : [f EXCEPT ![x] = b] \in [S -> 0..b]
<1>1. \A y \in S : f[y] \in 0..b
  BY SMT
<1> QED
  BY <1>1

LEMMA TypeInit == Init => TypeOK
<1> SUFFICES ASSUME Init PROVE TypeOK
  OBVIOUS
<1>1. pos \in [Runs -> 1..(Len(ControlOrder) + 1)]
  <2>1. 1 \in 1..(Len(ControlOrder) + 1)
    BY Order_ DEF Size
  <2> QED
    BY <2>1 DEF Init
<1>2. /\ collected \in [Submissions -> 0..clock]
      /\ start \in [Runs -> 0..clock]
  BY DEF Init
<1>3. /\ seen \in [Runs -> [Controls -> Runs \cup {NoRun}]]
      /\ closed \in [Runs -> [Controls -> Runs \cup {NoRun}]]
  BY DEF Init
<1>4. wrote \in [Runs -> [Controls -> Verdicts \cup {Nothing}]]
  BY DEF Init
<1>5. given \in [Submissions -> AnswerMaps] /\ answers \in [Runs -> AnswerMaps]
  BY EmptyAnswers DEF Init
<1> QED
  BY <1>1, <1>2, <1>3, <1>4, <1>5 DEF Init, TypeOK, Stages, Phases, Active

LEMMA TypeNext ==
  ASSUME TypeOK, \A r \in Runs : Replacing(r), [Next]_vars
  PROVE  TypeOK'
<1> USE EmptyAnswers, Order_ DEF TypeOK, subVars, localVars,
   writeVars, historyVars, Stages, Phases, Active, Size
<1>1. CASE CreateTenant
  BY <1>1 DEF CreateTenant
<1>2. ASSUME NEW s \in Submissions, OpenSubmission(s) PROVE TypeOK'
  <2>1. PICK t \in Instants :
          clock' = t /\ collected' = [collected EXCEPT ![s] = t]
    BY <1>2 DEF OpenSubmission, BeginAt
  <2>2. PICK m \in AnswerMaps : given' = [given EXCEPT ![s] = m]
    BY <1>2 DEF OpenSubmission
  <2>4. /\ clock' \in Nat
        /\ collected' \in [Submissions -> 0..clock']
        /\ start' \in [Runs -> 0..clock']
    <3>1. start' = start
      BY <1>2 DEF OpenSubmission
    <3> QED
      BY <3>1, <2>1, Later, Widen
  <2>5. given' \in [Submissions -> AnswerMaps]
    BY <2>2
  <2> QED
    BY <1>2, <2>4, <2>5 DEF OpenSubmission
<1>3. ASSUME NEW s \in Submissions, RejectSubmission(s) PROVE TypeOK'
  BY <1>3 DEF RejectSubmission
<1>4. ASSUME NEW s \in Submissions, RecordAnswers(s) PROVE TypeOK'
  BY <1>4 DEF RecordAnswers
<1>5. ASSUME NEW r \in Runs, Begin(r) PROVE TypeOK'
  <2>1. CASE tenant
    <3>1. PICK t \in Instants : clock' = t /\ start' = [start EXCEPT ![r] = t]
      BY <1>5, <2>1 DEF Begin, BeginAt
    <3>3. /\ clock' \in Nat
          /\ collected' \in [Submissions -> 0..clock']
          /\ start' \in [Runs -> 0..clock']
      <4>1. collected' = collected
        BY <1>5 DEF Begin
      <4> QED
        BY <4>1, <3>1, Later, Widen
    <3> QED
      BY <1>5, <2>1, <3>3 DEF Begin
  <2>2. CASE ~tenant
    BY <1>5, <2>2 DEF Begin
  <2> QED
    BY <2>1, <2>2
<1>6. ASSUME NEW r \in Runs, ReadAnswers(r) PROVE TypeOK'
  BY <1>6 DEF ReadAnswers, LatestAnswers
<1>7. ASSUME NEW r \in Runs, ReadFindings(r) PROVE TypeOK'
  BY <1>7, SeenNowIsCurrent DEF ReadFindings
<1>8. ASSUME NEW r \in Runs, Unchanged(r) PROVE TypeOK'
  BY <1>8 DEF Unchanged, InLoop, Advance
<1>9. ASSUME NEW r \in Runs, CloseOld(r) PROVE TypeOK'
  <2>1. At(r) \in Controls
    BY <1>9 DEF CloseOld, WantsToClose, InLoop, At, Order
  <2>2. closed' \in [Runs -> [Controls -> Runs \cup {NoRun}]]
    <3>1. seen[r][At(r)] \in Runs \cup {NoRun}
      BY <2>1
    <3>2. CASE closed' = [closed EXCEPT ![r][At(r)] = seen[r][At(r)]]
      BY <2>1, <3>1, <3>2
    <3> QED
      BY <1>9, <3>2 DEF CloseOld
  <2> QED
    BY <1>9, <2>2 DEF CloseOld
<1>10. ASSUME NEW r \in Runs, pos[r] <= Size, InsertNew(r) PROVE TypeOK'
  <2>1. At(r) \in Controls
    BY <1>10 DEF At, Order
  <2>2. wrote' \in [Runs -> [Controls -> Verdicts \cup {Nothing}]]
    <3>1. NewStatus(r) \in Verdicts \cup {Nothing}
      BY VerdictType DEF NewStatus
    <3>2. wrote' = [wrote EXCEPT ![r][At(r)] = NewStatus(r)]
      BY <1>10 DEF InsertNew
    <3> QED
      BY <2>1, <3>1, <3>2
  <2>3. enqueued' \in [Runs -> SUBSET Controls]
    BY <1>10, <2>1 DEF InsertNew
  <2>4. pos' \in [Runs -> 1..(Len(ControlOrder) + 1)]
    BY <1>10 DEF InsertNew, Advance
  <2> QED
    BY <1>10, <2>2, <2>3, <2>4 DEF InsertNew, Advance
<1>11. ASSUME NEW r \in Runs, Commit(r) PROVE TypeOK'
  BY <1>11 DEF Commit, Forget
<1>12. ASSUME NEW r \in Runs, Abort(r) PROVE TypeOK'
  <2>1. pos' \in [Runs -> 1..(Len(ControlOrder) + 1)]
    BY <1>12 DEF Abort, Forget
  <2>2. /\ seen' \in [Runs -> [Controls -> Runs \cup {NoRun}]]
        /\ closed' \in [Runs -> [Controls -> Runs \cup {NoRun}]]
    BY <1>12 DEF Abort, Forget
  <2>3. wrote' \in [Runs -> [Controls -> Verdicts \cup {Nothing}]]
    BY <1>12 DEF Abort
  <2>4. start' \in [Runs -> 0..clock'] /\ collected' = collected
    BY <1>12 DEF Abort, Forget
  <2> QED
    BY <1>12, <2>1, <2>2, <2>3, <2>4 DEF Abort, Forget
<1>13. CASE UNCHANGED vars
  BY <1>13 DEF vars
<1>14. ASSUME NEW r \in Runs, WantsToInsert(r) PROVE pos[r] <= Size
  BY <1>14 DEF WantsToInsert, InLoop, Replacing
<1>15. ASSUME NEW r \in Runs, InsertNew(r) PROVE TypeOK'
  BY <1>10, <1>14, <1>15 DEF InsertNew
<1>16. ASSUME NEW r \in Runs, Fail(r) \/ RangeViolation(r) \/ UniqueViolation(r)
       PROVE  TypeOK'
  BY <1>12, <1>16 DEF Fail, RangeViolation, UniqueViolation
<1> QED
  BY <1>1, <1>2, <1>3, <1>4, <1>5, <1>6, <1>7, <1>8, <1>9, <1>11, <1>13, <1>15,
     <1>16 DEF Next, Work

-----------------------------------------------------------------------------
(* What a step leaves alone                                                *)

SameRun(q) ==
  /\ pc'[q] = pc[q] /\ start'[q] = start[q] /\ answers'[q] = answers[q]
  /\ seen'[q] = seen[q] /\ pos'[q] = pos[q] /\ closed'[q] = closed[q]
  /\ wrote'[q] = wrote[q] /\ enqueued'[q] = enqueued[q]

SameWrites(q) ==
  start'[q] = start[q] /\ closed'[q] = closed[q] /\ wrote'[q] = wrote[q]

CommittedStay ==
  \A q \in Runs : Committed(q) => Committed(q)' /\ SameWrites(q)

\* A run that does not move keeps its invariant: of the others it looks only
\* at committed ones.
LEMMA RunKept ==
  ASSUME TypeOK, CommittedStay, NEW q \in Runs, SameRun(q), RunOK(q)
  PROVE  RunOK(q)'
<1> USE DEF SameRun, RunOK, CommittedStay, SameWrites
<1>1. Rewound(q)'
  BY DEF Rewound
<1>2. NothingYet(q)'
  BY DEF NothingYet
<1>3. ClosesAreReal(q)'
  BY DEF ClosesAreReal, TypeOK
<1>4. SeenIsReal(q)'
  BY DEF SeenIsReal, TypeOK
<1>5. LoopInOrder(q)'
  BY DEF LoopInOrder
<1>6. Replacing(q)'
  <2> SUFFICES ASSUME pc[q] = "replacing"
               PROVE  Replacing(q)'
    BY DEF Replacing
  <2>1. At(q) \in Controls /\ At(q)' = At(q)
    BY Order_ DEF Replacing, TypeOK, At, Order
  <2>2. seen[q][At(q)] # NoRun
    BY DEF Replacing, IsFirst
  <2>3. wrote'[seen[q][At(q)]] = wrote[seen[q][At(q)]]
    BY <2>1, <2>2 DEF SeenIsReal, TypeOK, Committed
  <2>4. OldStatus(q)' = OldStatus(q) /\ NewStatus(q)' = NewStatus(q)
    BY <2>1, <2>3 DEF OldStatus, NewStatus
  <2> QED
    BY <2>1, <2>4 DEF Replacing, Same, IsFirst
<1>7. ClosesAreReplaced(q)'
  BY DEF ClosesAreReplaced, At, Order
<1>8. AlertsAgree(q)'
  <2> SUFFICES ASSUME NEW c \in Controls
               PROVE  wrote[q][c] # Nothing /\ closed[q][c] # NoRun =>
                        wrote'[closed[q][c]] = wrote[closed[q][c]]
    BY DEF AlertsAgree
  <2> QED
    BY DEF ClosesAreReal, Committed
<1>9. Covered(q)'
  BY DEF Covered
<1> QED
  BY <1>1, <1>2, <1>3, <1>4, <1>5, <1>6, <1>7, <1>8, <1>9

\* A step of a run that is not committed, before or after, does not change
\* the committed findings.
LEMMA HistorySame ==
  ASSUME NEW r \in Runs, ~Committed(r), ~Committed(r)',
         \A q \in Runs \ {r} : SameRun(q)
  PROVE  \A c \in Controls :
           CurrentRuns(c)' = CurrentRuns(c) /\ Written(c)' = Written(c)
<1>1. \A q \in Runs : Committed(q)' <=> Committed(q)
  BY DEF SameRun, Committed
<1>2. \A q \in Runs : Committed(q) =>
        closed'[q] = closed[q] /\ wrote'[q] = wrote[q]
  BY DEF SameRun
<1>3. \A c \in Controls : Written(c)' = Written(c)
  BY <1>1, <1>2 DEF Written
<1>4. \A c \in Controls, q \in Runs : Current(q, c)' <=> Current(q, c)
  BY <1>1, <1>2 DEF Current
<1>5. \A c \in Controls : CurrentRuns(c)' = CurrentRuns(c)
  BY <1>4 DEF CurrentRuns
<1> QED
  BY <1>3, <1>5

LEMMA HistoryKept ==
  ASSUME NEW r \in Runs, ~Committed(r), ~Committed(r)', History,
         \A q \in Runs \ {r} : SameRun(q)
  PROVE  History'
<1>1. \A c \in Controls :
        CurrentRuns(c)' = CurrentRuns(c) /\ Written(c)' = Written(c)
  BY HistorySame
<1>2. \A c \in Controls : \A q \in Written(c) : closed'[q] = closed[q]
  BY DEF Written, SameRun
<1>3. OneCurrent' /\ StillCurrent'
  BY <1>1 DEF History, OneCurrent, StillCurrent
<1>4. OneBeginning'
  BY <1>1, <1>2 DEF History, OneBeginning
<1> QED
  BY <1>3, <1>4 DEF History

\* So what is left to show of such a step is about its run, and the two
\* invariants that relate uncommitted runs.
LEMMA OneRunMoves ==
  ASSUME Inv, NEW r \in Runs, ~Committed(r), ~Committed(r)',
         \A q \in Runs \ {r} : SameRun(q),
         RunOK(r)', ClosesDiffer', OneWriter'
  PROVE  RunInv'
<1>1. CommittedStay
  BY DEF CommittedStay, SameRun, SameWrites, Committed
<1>2. \A q \in Runs \ {r} : RunOK(q)'
  BY <1>1, RunKept DEF Inv, RunInv
<1>3. History'
  BY HistoryKept DEF Inv, RunInv
<1> QED
  BY <1>2, <1>3 DEF RunInv

\* A step that closes and writes nothing.
LEMMA QuietMove ==
  ASSUME Inv, NEW r \in Runs, ~Committed(r), ~Committed(r)',
         \A q \in Runs \ {r} : SameRun(q),
         closed' = closed, wrote' = wrote, RunOK(r)'
  PROVE  RunInv'
<1>1. ClosesDiffer'
  BY DEF Inv, RunInv, ClosesDiffer
<1>2. \A c \in Controls : CurrentRuns(c)' = CurrentRuns(c)
  BY HistorySame
<1>3. \A q \in Runs, c \in Controls :
        pc'[q] \in Active /\ (wrote[q][c] # Nothing \/ closed[q][c] # NoRun)
          => pc[q] \in Active
  BY DEF Inv, RunInv, RunOK, NothingYet, Working, Active, SameRun, Committed
<1>4. OneWriter'
  BY <1>2, <1>3 DEF Inv, RunInv, OneWriter
<1> QED
  BY <1>1, <1>4, OneRunMoves

\* A step of no run.
LEMMA NobodyMoves ==
  ASSUME Inv, UNCHANGED <<pc, start, answers, seen, pos, closed, wrote, enqueued>>
  PROVE  RunInv'
<1>1. \A q \in Runs : SameRun(q)
  BY DEF SameRun
<1>2. CommittedStay
  BY <1>1 DEF CommittedStay, SameRun, SameWrites, Committed
<1>3. \A q \in Runs : RunOK(q)'
  BY <1>1, <1>2, RunKept DEF Inv, RunInv
<1>4. ClosesDiffer'
  BY DEF Inv, RunInv, ClosesDiffer
<1>5. \A c : CurrentRuns(c)' = CurrentRuns(c) /\ Written(c)' = Written(c)
  BY DEF CurrentRuns, Written, Current, Committed
<1>6. OneWriter'
  BY <1>5 DEF Inv, RunInv, OneWriter
<1>7. History'
  BY <1>5 DEF Inv, RunInv, History, OneCurrent, StillCurrent, OneBeginning
<1> QED
  BY <1>3, <1>4, <1>6, <1>7 DEF RunInv

-----------------------------------------------------------------------------
(* One lemma per action of a run                                           *)

\* All but a commit: seen from outside the run, nothing has happened.
MovesAlone(r) ==
  /\ ~Committed(r)
  /\ ~Committed(r)'
  /\ \A q \in Runs \ {r} : SameRun(q)

LEMMA BeginKeeps ==
  ASSUME Inv, TypeOK', NEW r \in Runs, Begin(r)
  PROVE  RunInv' /\ MovesAlone(r)
<1> USE DEF Inv, TypeOK
<1>1. /\ pc[r] = "idle"
      /\ pc' \in {[pc EXCEPT ![r] = "begun"], [pc EXCEPT ![r] = "failed"]}
      /\ UNCHANGED <<localVars, writeVars>>
  BY DEF Begin
<1>2. \A q \in Runs \ {r} : start'[q] = start[q]
  BY DEF Begin
<1>3. pc'[r] \in {"begun", "failed"}
  BY <1>1
<1>4. ~Committed(r) /\ ~Committed(r)'
  BY <1>1, <1>3 DEF Committed
<1>5. \A q \in Runs \ {r} : SameRun(q)
  BY <1>1, <1>2 DEF SameRun, localVars, writeVars
<1>6. /\ closed' = closed /\ wrote' = wrote /\ enqueued' = enqueued
      /\ seen' = seen /\ pos' = pos
  BY <1>1 DEF localVars, writeVars
<1>7. Rewound(r) /\ NothingYet(r) /\ SeenIsReal(r)
  BY DEF RunInv, RunOK
<1>8. Rewound(r)' /\ NothingYet(r)'
  BY <1>1, <1>3, <1>6, <1>7 DEF Rewound, NothingYet, Working
<1>9. \A c \in Controls : closed[r][c] = NoRun /\ wrote[r][c] = Nothing
                          /\ c \notin enqueued[r]
  BY <1>1, <1>7 DEF NothingYet, Working
<1>10. ClosesAreReal(r)' /\ ClosesAreReplaced(r)' /\ AlertsAgree(r)'
  BY <1>6, <1>9 DEF ClosesAreReal, ClosesAreReplaced, AlertsAgree
<1>11. SeenIsReal(r)'
  BY <1>4, <1>5, <1>6, <1>7 DEF SeenIsReal, SameRun, Committed
<1>12. LoopInOrder(r)' /\ Replacing(r)' /\ Covered(r)'
  BY <1>3 DEF LoopInOrder, Replacing, Covered, Working
<1> QED
  BY <1>4, <1>5, <1>6, <1>8, <1>10, <1>11, <1>12, QuietMove DEF RunOK, MovesAlone

LEMMA ReadAnswersKeeps ==
  ASSUME Inv, TypeOK', NEW r \in Runs, ReadAnswers(r)
  PROVE  RunInv' /\ MovesAlone(r)
<1> USE DEF Inv, TypeOK
<1>1. /\ pc[r] = "begun"
      /\ pc' = [pc EXCEPT ![r] = "answered"]
      /\ UNCHANGED <<start, seen, pos, closed, wrote, enqueued>>
  BY DEF ReadAnswers, writeVars
<1>2. \A q \in Runs \ {r} : answers'[q] = answers[q]
  BY DEF ReadAnswers
<1>4. ~Committed(r) /\ ~Committed(r)'
  BY <1>1 DEF Committed
<1>5. \A q \in Runs \ {r} : SameRun(q)
  BY <1>1, <1>2 DEF SameRun
<1>7. Rewound(r) /\ NothingYet(r) /\ SeenIsReal(r)
  BY DEF RunInv, RunOK
<1>8. Rewound(r)' /\ NothingYet(r)'
  BY <1>1, <1>7 DEF Rewound, NothingYet, Working
<1>9. \A c \in Controls : closed[r][c] = NoRun /\ wrote[r][c] = Nothing
                          /\ c \notin enqueued[r]
  BY <1>1, <1>7 DEF NothingYet, Working
<1>10. ClosesAreReal(r)' /\ ClosesAreReplaced(r)' /\ AlertsAgree(r)'
  BY <1>1, <1>9 DEF ClosesAreReal, ClosesAreReplaced, AlertsAgree
<1>11. SeenIsReal(r)'
  BY <1>1, <1>4, <1>5, <1>7 DEF SeenIsReal, SameRun, Committed
<1>12. LoopInOrder(r)' /\ Replacing(r)' /\ Covered(r)'
  BY <1>1 DEF LoopInOrder, Replacing, Covered, Working
<1> QED
  BY <1>1, <1>4, <1>5, <1>8, <1>10, <1>11, <1>12, QuietMove DEF RunOK, MovesAlone

LEMMA ReadFindingsKeeps ==
  ASSUME Inv, TypeOK', NEW r \in Runs, ReadFindings(r)
  PROVE  RunInv' /\ MovesAlone(r)
<1> USE DEF Inv, TypeOK
<1>1. /\ pc[r] = "answered"
      /\ pc' = [pc EXCEPT ![r] = "looping"]
      /\ seen' = [seen EXCEPT ![r] = [c \in Controls |-> SeenNow(c)]]
      /\ UNCHANGED <<start, answers, pos, closed, wrote, enqueued>>
  BY DEF ReadFindings, writeVars
<1>4. ~Committed(r) /\ ~Committed(r)'
  BY <1>1 DEF Committed
<1>5. \A q \in Runs \ {r} : SameRun(q)
  BY <1>1 DEF SameRun
<1>7. Rewound(r) /\ NothingYet(r)
  BY DEF RunInv, RunOK
<1>8. Rewound(r)' /\ NothingYet(r)'
  BY <1>1 DEF Rewound, NothingYet, Working
<1>9. \A c \in Controls : closed[r][c] = NoRun /\ wrote[r][c] = Nothing
                          /\ c \notin enqueued[r]
  BY <1>1, <1>7 DEF NothingYet, Working
<1>10. ClosesAreReal(r)' /\ ClosesAreReplaced(r)' /\ AlertsAgree(r)'
  BY <1>1, <1>9 DEF ClosesAreReal, ClosesAreReplaced, AlertsAgree
<1>11. SeenIsReal(r)'
  <2> SUFFICES ASSUME NEW c \in Controls, seen'[r][c] # NoRun
               PROVE  /\ seen'[r][c] \in Runs
                      /\ pc'[seen'[r][c]] = "committed"
                      /\ wrote'[seen'[r][c]][c] # Nothing
    BY DEF SeenIsReal, Committed
  <2>1. seen'[r][c] = SeenNow(c)
    BY <1>1
  <2>2. seen'[r][c] \in Runs /\ Current(seen'[r][c], c)
    BY <2>1, SeenNowIsCurrent DEF CurrentRuns
  <2>3. /\ pc[seen'[r][c]] = "committed"
        /\ wrote[seen'[r][c]][c] # Nothing
    BY <2>2 DEF Current, Committed
  <2>4. pc'[seen'[r][c]] = "committed"
    BY <1>1, <2>2, <2>3
  <2> QED
    BY <1>1, <2>2, <2>3, <2>4
<1>12. LoopInOrder(r)' /\ Replacing(r)'
  BY <1>1, <1>9, Order_ DEF LoopInOrder, Replacing, Working
<1>13. Covered(r)'
  BY <1>1, <1>7 DEF Covered, Rewound, Working
<1> QED
  BY <1>1, <1>4, <1>5, <1>8, <1>10, <1>11, <1>12, <1>13, QuietMove DEF RunOK, MovesAlone

LEMMA UnchangedKeeps ==
  ASSUME Inv, TypeOK', NEW r \in Runs, Unchanged(r)
  PROVE  RunInv' /\ MovesAlone(r)
<1> USE DEF Inv, TypeOK
<1>1. /\ pc[r] = "looping" /\ pos[r] <= Size
      /\ seen[r][ControlOrder[pos[r]]] # NoRun
      /\ pos' = [pos EXCEPT ![r] = @ + 1]
      /\ UNCHANGED <<pc, start, answers, seen, closed, wrote, enqueued>>
  BY DEF Unchanged, InLoop, IsFirst, At, Order, Advance, writeVars, Size
<1>4. ~Committed(r) /\ ~Committed(r)'
  BY <1>1 DEF Committed
<1>5. \A q \in Runs \ {r} : SameRun(q)
  BY <1>1 DEF SameRun
<1>7. RunOK(r)
  BY DEF RunInv
<1>8. Rewound(r)' /\ NothingYet(r)'
  BY <1>1 DEF Rewound, NothingYet, Working
<1>10. ClosesAreReal(r)' /\ ClosesAreReplaced(r)' /\ AlertsAgree(r)'
  BY <1>1, <1>7 DEF RunOK, ClosesAreReal, ClosesAreReplaced, AlertsAgree,
     Committed
<1>11. SeenIsReal(r)'
  BY <1>1, <1>7 DEF RunOK, SeenIsReal, Committed
<1>12. LoopInOrder(r)' /\ Replacing(r)'
  <2>1. pos'[r] = pos[r] + 1 /\ pos[r] \in Nat
    BY <1>1
  <2> QED
    BY <1>1, <1>7, <2>1, Order_ DEF RunOK, LoopInOrder, Replacing
<1>13. Covered(r)'
  <2> SUFFICES ASSUME NEW i \in 1..(pos'[r] - 1)
               PROVE  \/ wrote[r][ControlOrder[i]] # Nothing
                      \/ seen[r][ControlOrder[i]] # NoRun
    BY <1>1 DEF Covered
  <2>1. i = pos[r] \/ i \in 1..(pos[r] - 1)
    BY <1>1
  <2> QED
    BY <1>1, <1>7, <2>1 DEF RunOK, Covered, Working
<1> QED
  BY <1>1, <1>4, <1>5, <1>8, <1>10, <1>11, <1>12, <1>13, QuietMove DEF RunOK, MovesAlone

\* The control the loop is at is as its place in the order says, and its place
\* is the only one.
LEMMA AtControl ==
  ASSUME TypeOK, NEW r \in Runs, pos[r] <= Size
  PROVE  /\ At(r) \in Controls
         /\ pos[r] \in 1..Size
         /\ At(r) = ControlOrder[pos[r]]
         /\ \A i \in 1..Size : ControlOrder[i] = At(r) => i = pos[r]
<1>1. pos[r] \in 1..Size
  BY Order_ DEF TypeOK, Size
<1>2. At(r) = ControlOrder[pos[r]]
  BY DEF At, Order
<1> QED
  BY <1>1, <1>2, Order_, CheckAssumption DEF Size

LEMMA CloseOldKeeps ==
  ASSUME Inv, TypeOK', NEW r \in Runs, CloseOld(r)
  PROVE  RunInv' /\ MovesAlone(r)
<1> DEFINE c0 == At(r)
<1> DEFINE q0 == seen[r][c0]
<1>1. /\ pc[r] = "looping" /\ pos[r] <= Size
      /\ q0 # NoRun
      /\ ~Same(r) /\ ~IsFirst(r)
      /\ ~RowLocked(r)
      /\ pc' = [pc EXCEPT ![r] = "replacing"]
      /\ UNCHANGED <<start, answers, seen, pos, wrote, enqueued>>
  BY DEF CloseOld, WantsToClose, InLoop, IsFirst, localVars, Size
<1>2. /\ c0 \in Controls /\ pos[r] \in 1..Size /\ c0 = ControlOrder[pos[r]]
      /\ \A i \in 1..Size : ControlOrder[i] = c0 => i = pos[r]
  BY <1>1, AtControl DEF Inv
<1>3. \/ /\ Current(q0, c0) /\ RangeOk(r)
         /\ closed' = [closed EXCEPT ![r][c0] = q0]
      \/ closed' = closed
  BY DEF CloseOld
<1>4. ~Committed(r) /\ ~Committed(r)'
  BY <1>1 DEF Committed, Inv, TypeOK
<1>5. \A q \in Runs \ {r} : SameRun(q)
  BY <1>1, <1>3 DEF SameRun, Inv, TypeOK
<1>6. RunOK(r)
  BY DEF Inv, RunInv
<1>7. /\ pc'[r] = "replacing"
      /\ \A c \in Controls \ {c0} : closed'[r][c] = closed[r][c]
      /\ closed'[r][c0] \in {closed[r][c0], q0}
  BY <1>1, <1>2, <1>3 DEF Inv, TypeOK
<1>8. wrote[r][c0] = Nothing /\ closed[r][c0] = NoRun
  BY <1>1, <1>2, <1>6 DEF RunOK, LoopInOrder, Working
<1>9. /\ q0 \in Runs /\ q0 # r /\ Committed(q0) /\ wrote[q0][c0] # Nothing
  BY <1>1, <1>2, <1>4, <1>6 DEF RunOK, SeenIsReal, Committed
<1>10. closed'[r][c0] = q0 \/ closed' = closed
  BY <1>2, <1>3 DEF Inv, TypeOK
<1>11. RunOK(r)'
  <2>1. Rewound(r)' /\ NothingYet(r)'
    BY <1>7 DEF Rewound, NothingYet, Working
  <2>2. \A q \in Runs : Committed(q)' <=> Committed(q)
    BY <1>1, <1>4, <1>5 DEF SameRun, Committed
  <2>3. ClosesAreReal(r)'
    <3>1. closed'[r][c0] # NoRun => start[closed'[r][c0]] < start[r]
      BY <1>2, <1>3, <1>7, <1>8 DEF RangeOk, Inv, TypeOK
    <3>2. \A c \in Controls : closed'[r][c] # NoRun =>
            /\ closed'[r][c] \in Runs /\ pc[closed'[r][c]] = "committed"
            /\ wrote[closed'[r][c]][c] # Nothing
            /\ start[closed'[r][c]] < start[r]
      BY <1>6, <1>7, <1>8, <1>9, <3>1 DEF RunOK, ClosesAreReal, Committed
    <3>3. \A q \in Runs : pc[q] = "committed" => pc'[q] = "committed"
      BY <2>2 DEF Committed
    <3> QED
      BY <1>1, <3>2, <3>3 DEF ClosesAreReal, Committed
  <2>4. SeenIsReal(r)'
    BY <1>1, <1>6, <2>2 DEF RunOK, SeenIsReal, Committed
  <2>5. LoopInOrder(r)'
    <3> SUFFICES ASSUME NEW i \in pos[r]..Size
                 PROVE  /\ wrote[r][ControlOrder[i]] = Nothing
                        /\ ControlOrder[i] \notin enqueued[r]
                        /\ closed'[r][ControlOrder[i]] # NoRun => i = pos[r]
      BY <1>1, <1>7 DEF LoopInOrder
    <3>1. i \in 1..Size
      BY <1>2, Order_
    <3>2. i # pos[r] => closed'[r][ControlOrder[i]] = closed[r][ControlOrder[i]]
      BY <1>2, <1>7, <3>1, Order_
    <3> QED
      BY <1>1, <1>6, <3>2 DEF RunOK, LoopInOrder, Working
  <2>6. At(r)' = c0
    BY <1>1 DEF At, Order
  <2>7. Replacing(r)'
    <3>1. ~IsFirst(r)' /\ ~Same(r)'
      BY <1>1, <2>6 DEF IsFirst, Same, OldStatus, NewStatus
    <3>2. closed'[r][c0] \in {NoRun, q0}
      BY <1>7, <1>8
    <3> QED
      BY <1>1, <2>6, <3>1, <3>2 DEF Replacing
  <2>8. ClosesAreReplaced(r)'
    BY <1>1, <1>6, <1>7, <2>6 DEF RunOK, ClosesAreReplaced
  <2>9. AlertsAgree(r)'
    <3> SUFFICES ASSUME NEW c \in Controls, wrote[r][c] # Nothing
                 PROVE  closed'[r][c] = closed[r][c]
      BY <1>1, <1>6 DEF RunOK, AlertsAgree
    <3> QED
      BY <1>7, <1>8
  <2>10. Covered(r)'
    BY <1>1, <1>6 DEF RunOK, Covered, Working
  <2> QED
    BY <2>1, <2>3, <2>4, <2>5, <2>7, <2>8, <2>9, <2>10 DEF RunOK
<1>12. ClosesDiffer'
  <2>1. closed' # closed => \A s \in Runs \ {r} : closed[s][c0] # q0
    <3> SUFFICES ASSUME closed' # closed, NEW s \in Runs \ {r},
                        closed[s][c0] = q0
                 PROVE  FALSE
      OBVIOUS
    <3>1. ~Committed(s)
      BY <1>3 DEF Current
    <3>2. pc[s] \notin Active
      BY <1>1 DEF RowLocked
    <3>3. closed[s][c0] = NoRun
      BY <1>2, <3>1, <3>2 DEF Inv, RunInv, RunOK, NothingYet, Active, Working,
         Committed
    <3> QED
      BY <1>1, <3>3
  <2>2. CASE closed' = closed
    BY <2>2 DEF Inv, RunInv, ClosesDiffer
  <2>3. CASE closed' # closed
    <3>1. closed'[r][c0] = q0
      BY <1>10, <2>3
    <3>2. \A s \in Runs \ {r} : closed'[s] = closed[s]
      BY <1>5 DEF SameRun
    <3>3. \A s \in Runs, c \in Controls \ {c0} : closed'[s][c] = closed[s][c]
      BY <1>7, <3>2
    <3>4. \A s \in Runs \ {r} : closed'[s][c0] # closed'[r][c0]
      BY <2>1, <2>3, <3>1, <3>2
    <3>5. ClosesDiffer
      BY DEF Inv, RunInv
    <3>6. \A s, t \in Runs, c \in Controls :
            closed'[s][c] # NoRun /\ closed'[s][c] = closed'[t][c] => s = t
      <4> SUFFICES ASSUME NEW s \in Runs, NEW t \in Runs, NEW c \in Controls,
                          closed'[s][c] # NoRun, closed'[s][c] = closed'[t][c]
                   PROVE  s = t
        OBVIOUS
      <4>1. CASE c # c0
        BY <3>3, <3>5, <4>1 DEF ClosesDiffer
      <4>2. CASE c = c0 /\ s # r /\ t # r
        BY <3>2, <3>5, <4>2 DEF ClosesDiffer
      <4>3. CASE c = c0 /\ (s = r \/ t = r)
        BY <3>4, <4>3
      <4> QED
        BY <4>1, <4>2, <4>3
    <3> QED
      BY <3>6 DEF ClosesDiffer
  <2> QED
    BY <2>2, <2>3
<1>13. OneWriter'
  <2>1. \A c \in Controls : CurrentRuns(c)' = CurrentRuns(c)
    BY <1>4, <1>5, HistorySame
  <2>2. \A q \in Runs : pc'[q] \in Active <=> pc[q] \in Active
    BY <1>1, <1>5, <1>7 DEF SameRun, Active
  <2>3. \A q \in Runs, c \in Controls :
          wrote[q][c] # Nothing => closed'[q][c] = closed[q][c]
    BY <1>5, <1>7, <1>8 DEF SameRun
  <2>4. OneWriter
    BY DEF Inv, RunInv
  <2> SUFFICES ASSUME NEW q \in Runs, NEW c \in Controls,
                      pc[q] \in Active, wrote[q][c] # Nothing,
                      NEW s \in Runs \ {q}, pc[s] \in Active
               PROVE  closed'[s][c] = NoRun
    BY <1>1, <2>1, <2>2, <2>3, <2>4 DEF OneWriter
  <2>5. closed[s][c] = NoRun
    BY <2>4 DEF OneWriter
  <2>6. CASE s # r \/ c # c0 \/ closed' = closed
    BY <1>5, <1>7, <2>5, <2>6 DEF SameRun
  <2>7. CASE s = r /\ c = c0 /\ closed' # closed
    <3>1. Current(q0, c0)
      BY <1>3, <2>7
    <3>2. closed[q][c0] = q0
      BY <1>9, <2>4, <2>7, <3>1 DEF OneWriter, CurrentRuns
    <3> QED
      BY <1>1, <2>7, <3>2 DEF RowLocked
  <2> QED
    BY <2>6, <2>7
<1> QED
  BY <1>4, <1>5, <1>11, <1>12, <1>13, OneRunMoves DEF MovesAlone

\* What the run is about to replace is what it read, and it has closed it: with
\* nothing closed but something read, the unique index refuses the insert.
LEMMA InsertReplacesSeen ==
  ASSUME Inv, NEW r \in Runs, WantsToInsert(r), ~Duplicate(r)
  PROVE  /\ pc[r] \in Working /\ pos[r] <= Size /\ At(r) \in Controls
         /\ closed[r][At(r)] = seen[r][At(r)]
         /\ ~IsFirst(r) => ~Same(r)
<1>1. RunOK(r)
  BY DEF Inv, RunInv
<1>2. pc[r] \in Working /\ pos[r] <= Size
  BY <1>1 DEF WantsToInsert, InLoop, RunOK, Replacing, Working, Size
<1>3. At(r) \in Controls /\ pos[r] \in 1..Size /\ At(r) = ControlOrder[pos[r]]
  BY <1>2, AtControl DEF Inv
<1>4. CASE pc[r] = "looping"
  <2>1. IsFirst(r)
    BY <1>4 DEF WantsToInsert
  <2>2. closed[r][At(r)] = NoRun
    BY <1>1, <1>3, <1>4 DEF RunOK, LoopInOrder, Working
  <2> QED
    BY <1>2, <1>3, <2>1, <2>2 DEF IsFirst
<1>5. CASE pc[r] = "replacing"
  <2>1. /\ ~Same(r) /\ seen[r][At(r)] # NoRun
        /\ closed[r][At(r)] \in {NoRun, seen[r][At(r)]}
    BY <1>1, <1>5 DEF RunOK, Replacing, IsFirst
  <2>2. seen[r][At(r)] \in Written(At(r))
    BY <1>1, <1>3, <2>1 DEF RunOK, SeenIsReal, Written, Committed
  <2>3. PICK q \in CurrentRuns(At(r)) : TRUE
    BY <1>3, <2>2 DEF Inv, RunInv, History, StillCurrent
  <2>4. closed[r][At(r)] = q /\ q # NoRun
    BY <2>3, CheckAssumption DEF Duplicate, CurrentRuns
  <2> QED
    BY <1>2, <1>3, <2>1, <2>4
<1> QED
  BY <1>2, <1>4, <1>5 DEF Working

LEMMA InsertNewKeeps ==
  ASSUME Inv, TypeOK', NEW r \in Runs, InsertNew(r)
  PROVE  RunInv' /\ MovesAlone(r)
<1> DEFINE c0 == At(r)
<1> DEFINE q0 == seen[r][c0]
<1>1. /\ ~IndexBusy(r) /\ ~Duplicate(r)
      /\ wrote' = [wrote EXCEPT ![r][c0] = NewStatus(r)]
      /\ enqueued' = [enqueued EXCEPT ![r] = IF Alerting(r) THEN @ \cup {c0} ELSE @]
      /\ pc' = [pc EXCEPT ![r] = "looping"]
      /\ pos' = [pos EXCEPT ![r] = @ + 1]
      /\ UNCHANGED <<start, answers, seen, closed>>
  BY DEF InsertNew, Advance
<1>2. /\ pc[r] \in Working /\ pos[r] <= Size /\ c0 \in Controls
      /\ closed[r][c0] = q0
      /\ ~IsFirst(r) => ~Same(r)
  BY InsertReplacesSeen DEF InsertNew
<1>3. /\ pos[r] \in 1..Size /\ c0 = ControlOrder[pos[r]]
      /\ \A i \in 1..Size : ControlOrder[i] = c0 => i = pos[r]
  BY <1>2, AtControl DEF Inv
<1>4. ~Committed(r) /\ ~Committed(r)'
  BY <1>1, <1>2 DEF Committed, Inv, TypeOK, Working
<1>5. \A q \in Runs \ {r} : SameRun(q)
  BY <1>1 DEF SameRun, Inv, TypeOK
<1>6. RunOK(r)
  BY DEF Inv, RunInv
<1>7. /\ pc'[r] = "looping" /\ pos'[r] = pos[r] + 1
      /\ wrote'[r][c0] = NewStatus(r) /\ wrote'[r][c0] # Nothing
      /\ \A c \in Controls \ {c0} : wrote'[r][c] = wrote[r][c]
      /\ \A c \in Controls \ {c0} : c \in enqueued'[r] <=> c \in enqueued[r]
  <2>1. NewStatus(r) # Nothing
    BY VerdictType, NothingIsNoVerdict DEF NewStatus
  <2> QED
    BY <1>1, <1>2, <2>1 DEF Inv, TypeOK
<1>8. wrote[r][c0] = Nothing /\ c0 \notin enqueued[r]
  BY <1>2, <1>3, <1>6 DEF RunOK, LoopInOrder
<1>9. c0 \in enqueued'[r] <=> Alerting(r)
  BY <1>1, <1>8 DEF Inv, TypeOK
<1>10. \A q \in Runs : Committed(q) => Committed(q)' /\ wrote'[q] = wrote[q]
  BY <1>4, <1>5 DEF SameRun, Committed
<1>11. RunOK(r)'
  <2>1. Rewound(r)' /\ NothingYet(r)'
    BY <1>7 DEF Rewound, NothingYet, Working
  <2>2. ClosesAreReal(r)' /\ SeenIsReal(r)'
    BY <1>1, <1>6, <1>10 DEF RunOK, ClosesAreReal, SeenIsReal, Committed
  <2>3. LoopInOrder(r)'
    <3> SUFFICES ASSUME NEW i \in (pos[r] + 1)..Size
                 PROVE  /\ wrote'[r][ControlOrder[i]] = Nothing
                        /\ ControlOrder[i] \notin enqueued'[r]
                        /\ closed[r][ControlOrder[i]] = NoRun
      BY <1>1, <1>7 DEF LoopInOrder
    <3>1. i \in 1..Size /\ i \in pos[r]..Size /\ i # pos[r]
      BY <1>3, Order_
    <3>2. ControlOrder[i] \in Controls \ {c0}
      BY <1>3, <3>1, Order_
    <3> QED
      BY <1>2, <1>6, <1>7, <3>1, <3>2 DEF RunOK, LoopInOrder
  <2>4. Replacing(r)'
    BY <1>7 DEF Replacing
  <2>5. ClosesAreReplaced(r)'
    BY <1>1, <1>2, <1>6, <1>7 DEF RunOK, ClosesAreReplaced
  <2>6. AlertsAgree(r)'
    <3> SUFFICES ASSUME NEW c \in Controls
                 PROVE  /\ c \in enqueued'[r] => wrote'[r][c] # Nothing
                        /\ wrote'[r][c] # Nothing =>
                             IF closed[r][c] = NoRun
                               THEN c \notin enqueued'[r]
                               ELSE /\ wrote'[closed[r][c]][c] # wrote'[r][c]
                                    /\ c \in enqueued'[r] <=>
                                         IsWorsening(wrote'[closed[r][c]][c],
                                                     wrote'[r][c])
      BY <1>1 DEF AlertsAgree
    <3>1. closed[r][c] # NoRun => wrote'[closed[r][c]] = wrote[closed[r][c]]
      BY <1>6, <1>10 DEF RunOK, ClosesAreReal, Committed
    <3>2. CASE c # c0
      BY <1>6, <1>7, <3>1, <3>2 DEF RunOK, AlertsAgree
    <3>3. CASE c = c0
      <4>1. IsFirst(r) <=> closed[r][c] = NoRun
        BY <1>2, <3>3 DEF IsFirst
      <4>2. ~IsFirst(r) => OldStatus(r) = wrote'[closed[r][c]][c]
        BY <1>2, <3>1, <3>3, <4>1 DEF OldStatus
      <4> QED
        BY <1>2, <1>7, <1>9, <3>3, <4>1, <4>2 DEF Alerting, Same
    <3> QED
      BY <3>2, <3>3
  <2>7. Covered(r)'
    <3> SUFFICES ASSUME NEW i \in 1..pos[r]
                 PROVE  \/ wrote'[r][ControlOrder[i]] # Nothing
                        \/ seen[r][ControlOrder[i]] # NoRun
      BY <1>1, <1>3, <1>7 DEF Covered
    <3>1. CASE i = pos[r]
      BY <1>3, <1>7, <3>1
    <3>2. CASE i # pos[r]
      <4>1. i \in 1..(pos[r] - 1) /\ ControlOrder[i] \in Controls \ {c0}
        BY <1>3, <3>2, Order_
      <4> QED
        BY <1>2, <1>6, <1>7, <4>1 DEF RunOK, Covered
    <3> QED
      BY <3>1, <3>2
  <2> QED
    BY <2>1, <2>2, <2>3, <2>4, <2>5, <2>6, <2>7 DEF RunOK
<1>12. ClosesDiffer'
  BY <1>1 DEF Inv, RunInv, ClosesDiffer
<1>13. OneWriter'
  <2>1. \A c \in Controls : CurrentRuns(c)' = CurrentRuns(c)
    BY <1>4, <1>5, HistorySame
  <2>2. \A q \in Runs : pc'[q] \in Active <=> pc[q] \in Active
    BY <1>2, <1>5, <1>7 DEF SameRun, Active, Working
  <2>3. OneWriter
    BY DEF Inv, RunInv
  <2>4. \A s \in Runs \ {r} :
          pc[s] \in Active => wrote[s][c0] = Nothing /\ closed[s][c0] = NoRun
    BY <1>1 DEF IndexBusy
  <2>5. \A q \in CurrentRuns(c0) : closed[r][c0] = q
    BY <1>1 DEF Duplicate
  <2>6. ASSUME NEW q \in Runs, NEW c \in Controls \ {c0},
               pc[q] \in Active, wrote'[q][c] # Nothing
        PROVE  /\ \A s \in Runs \ {q} : pc[s] \in Active =>
                    wrote'[s][c] = Nothing /\ closed[s][c] = NoRun
               /\ \A s \in CurrentRuns(c) : s = closed[q][c]
    <3>1. \A s \in Runs : wrote'[s][c] = wrote[s][c]
      BY <1>5, <1>7 DEF SameRun
    <3> QED
      BY <2>3, <2>6, <3>1 DEF OneWriter
  <2>7. ASSUME NEW q \in Runs, pc[q] \in Active, wrote'[q][c0] # Nothing
        PROVE  /\ \A s \in Runs \ {q} : pc[s] \in Active =>
                    wrote'[s][c0] = Nothing /\ closed[s][c0] = NoRun
               /\ \A s \in CurrentRuns(c0) : s = closed[q][c0]
    <3>1. q = r
      BY <1>5, <2>4, <2>7 DEF SameRun
    <3> QED
      BY <1>5, <2>4, <2>5, <3>1 DEF SameRun
  <2> QED
    BY <1>1, <2>1, <2>2, <2>6, <2>7 DEF OneWriter
<1> QED
  BY <1>4, <1>5, <1>11, <1>12, <1>13, OneRunMoves DEF MovesAlone

LEMMA AbortKeeps ==
  ASSUME Inv, TypeOK', NEW r \in Runs, pc[r] \in Active, Abort(r)
  PROVE  RunInv' /\ MovesAlone(r)
<1>1. /\ pc' = [pc EXCEPT ![r] = "failed"]
      /\ start' = [start EXCEPT ![r] = 0]
      /\ closed' = [closed EXCEPT ![r] = [c \in Controls |-> NoRun]]
      /\ wrote' = [wrote EXCEPT ![r] = [c \in Controls |-> Nothing]]
      /\ enqueued' = [enqueued EXCEPT ![r] = {}]
      /\ answers' = [answers EXCEPT ![r] = NoAnswers]
      /\ seen' = [seen EXCEPT ![r] = [c \in Controls |-> NoRun]]
      /\ pos' = [pos EXCEPT ![r] = 1]
  BY DEF Abort, Forget
<1>2. /\ pc'[r] = "failed" /\ pos'[r] = 1
      /\ \A c \in Controls : /\ closed'[r][c] = NoRun /\ wrote'[r][c] = Nothing
                             /\ c \notin enqueued'[r] /\ seen'[r][c] = NoRun
  BY <1>1 DEF Inv, TypeOK
<1>4. ~Committed(r) /\ ~Committed(r)'
  BY <1>2 DEF Committed, Active
<1>5. \A q \in Runs \ {r} : SameRun(q)
  BY <1>1 DEF SameRun, Inv, TypeOK
<1>6. RunOK(r)'
  BY <1>2 DEF RunOK, Rewound, NothingYet, ClosesAreReal, SeenIsReal, LoopInOrder,
     Replacing, ClosesAreReplaced, AlertsAgree, Covered, Working
<1>7. ClosesDiffer'
  BY <1>2, <1>5 DEF Inv, RunInv, ClosesDiffer, SameRun
<1>8. OneWriter'
  <2>1. \A c \in Controls : CurrentRuns(c)' = CurrentRuns(c)
    BY <1>4, <1>5, HistorySame
  <2>2. pc'[r] \notin Active
    BY <1>2 DEF Active
  <2> QED
    BY <1>5, <2>1, <2>2 DEF Inv, RunInv, OneWriter, SameRun
<1> QED
  BY <1>4, <1>5, <1>6, <1>7, <1>8, OneRunMoves DEF MovesAlone

\* What a commit does to the findings of a control.
LEMMA CommitReplaces ==
  ASSUME Inv, NEW r \in Runs, Commit(r), NEW c \in Controls
  PROVE  /\ wrote[r][c] = Nothing =>
              /\ closed[r][c] = NoRun
              /\ CurrentRuns(c)' = CurrentRuns(c)
              /\ Written(c)' = Written(c)
         /\ wrote[r][c] # Nothing =>
              /\ \A q \in CurrentRuns(c) : q = closed[r][c]
              /\ CurrentRuns(c)' = {r}
              /\ Written(c)' = Written(c) \cup {r}
<1>1. /\ pc[r] = "looping"
      /\ pc' = [pc EXCEPT ![r] = "committed"]
      /\ closed' = closed /\ wrote' = wrote
  BY DEF Commit, writeVars
<1>2. \A q \in Runs : Committed(q)' <=> Committed(q) \/ q = r
  BY <1>1 DEF Committed, Inv, TypeOK
<1>3. ~Committed(r)
  BY <1>1 DEF Committed
<1>4. RunOK(r)
  BY DEF Inv, RunInv
<1>5. CASE wrote[r][c] = Nothing
  <2>1. closed[r][c] = NoRun
    BY <1>1, <1>4, <1>5 DEF RunOK, ClosesAreReplaced
  <2>2. Written(c)' = Written(c)
    BY <1>1, <1>2, <1>5 DEF Written
  <2>3. \A q \in Runs : Current(q, c)' <=> Current(q, c)
    BY <1>1, <1>2, <1>5, <2>1, CheckAssumption DEF Current
  <2> QED
    BY <1>5, <2>1, <2>2, <2>3 DEF CurrentRuns
<1>6. CASE wrote[r][c] # Nothing
  <2>1. \A q \in CurrentRuns(c) : q = closed[r][c]
    BY <1>1, <1>6 DEF Inv, RunInv, OneWriter, Active
  <2>2. Written(c)' = Written(c) \cup {r}
    BY <1>1, <1>2, <1>6 DEF Written
  <2>3. \A s \in Runs : closed[s][c] # r
    BY <1>3, CheckAssumption DEF Inv, RunInv, RunOK, ClosesAreReal
  <2>4. Current(r, c)'
    BY <1>1, <1>2, <1>6, <2>3 DEF Current
  <2>5. \A q \in Runs \ {r} : ~Current(q, c)'
    <3> SUFFICES ASSUME NEW q \in Runs \ {r}, Current(q, c)'
                 PROVE  FALSE
      OBVIOUS
    <3>1. Current(q, c) /\ closed[r][c] # q
      BY <1>1, <1>2 DEF Current
    <3> QED
      BY <2>1, <3>1 DEF CurrentRuns
  <2>6. CurrentRuns(c)' = {r}
    BY <2>4, <2>5 DEF CurrentRuns
  <2> QED
    BY <1>6, <2>1, <2>2, <2>6
<1> QED
  BY <1>5, <1>6

LEMMA CommitKeeps ==
  ASSUME Inv, TypeOK', NEW r \in Runs, Commit(r)
  PROVE  RunInv'
<1>1. /\ pc[r] = "looping"
      /\ pc' = [pc EXCEPT ![r] = "committed"]
      /\ seen' = [seen EXCEPT ![r] = [c \in Controls |-> NoRun]]
      /\ pos' = [pos EXCEPT ![r] = 1]
      /\ answers' = [answers EXCEPT ![r] = NoAnswers]
      /\ UNCHANGED <<start, closed, wrote, enqueued>>
  BY DEF Commit, Forget, writeVars
<1>2. /\ pc'[r] = "committed" /\ pos'[r] = 1
      /\ \A c \in Controls : seen'[r][c] = NoRun
  BY <1>1 DEF Inv, TypeOK
<1>3. \A q \in Runs \ {r} : SameRun(q)
  BY <1>1 DEF SameRun, Inv, TypeOK
<1>4. \A q \in Runs : Committed(q) => Committed(q)'
  BY <1>2, <1>3 DEF SameRun, Committed
<1>5. CommittedStay
  BY <1>1, <1>4 DEF CommittedStay, SameWrites
<1>6. \A q \in Runs \ {r} : RunOK(q)'
  BY <1>3, <1>5, RunKept DEF Inv, RunInv
<1>7. RunOK(r)'
  <2>1. RunOK(r)
    BY DEF Inv, RunInv
  <2>2. Rewound(r)' /\ NothingYet(r)' /\ LoopInOrder(r)' /\ Replacing(r)'
        /\ Covered(r)'
    BY <1>2 DEF Rewound, NothingYet, LoopInOrder, Replacing, Covered, Working
  <2>3. ClosesAreReal(r)'
    BY <1>1, <1>4, <2>1 DEF RunOK, ClosesAreReal, Committed
  <2>4. SeenIsReal(r)'
    BY <1>2 DEF SeenIsReal
  <2>5. ClosesAreReplaced(r)'
    BY <1>1, <2>1 DEF RunOK, ClosesAreReplaced
  <2>6. AlertsAgree(r)'
    BY <1>1, <2>1 DEF RunOK, AlertsAgree
  <2> QED
    BY <2>2, <2>3, <2>4, <2>5, <2>6 DEF RunOK
<1>8. ClosesDiffer'
  BY <1>1 DEF Inv, RunInv, ClosesDiffer
<1>9. OneWriter'
  <2>1. OneWriter
    BY DEF Inv, RunInv
  <2> SUFFICES ASSUME NEW q \in Runs, NEW c \in Controls,
                      pc'[q] \in Active, wrote[q][c] # Nothing
               PROVE  /\ \A s \in Runs \ {q} : pc'[s] \in Active =>
                           wrote[s][c] = Nothing /\ closed[s][c] = NoRun
                      /\ \A s \in CurrentRuns(c)' : s = closed[q][c]
    BY <1>1 DEF OneWriter
  <2>2. q # r
    BY <1>2 DEF Active
  <2>3. pc[q] \in Active /\ \A s \in Runs : pc'[s] \in Active => pc[s] \in Active
    BY <1>1, <1>3, <2>2 DEF SameRun, Active
  <2>4. wrote[r][c] = Nothing
    BY <1>1, <2>1, <2>2, <2>3 DEF OneWriter, Active
  <2>5. CurrentRuns(c)' = CurrentRuns(c)
    BY <2>4, CommitReplaces
  <2> QED
    BY <2>1, <2>3, <2>5 DEF OneWriter
<1>10. OneCurrent' /\ StillCurrent'
  BY CommitReplaces DEF Inv, RunInv, History, OneCurrent, StillCurrent
<1>11. OneBeginning'
  <2> SUFFICES ASSUME NEW c \in Controls, NEW q \in Written(c)', NEW s \in Written(c)',
                      closed[q][c] = NoRun, closed[s][c] = NoRun
               PROVE  q = s
    BY <1>1 DEF OneBeginning
  <2>1. CASE wrote[r][c] = Nothing
    BY <2>1, CommitReplaces DEF Inv, RunInv, History, OneBeginning
  <2>2. CASE wrote[r][c] # Nothing /\ closed[r][c] = NoRun
    <3>1. CurrentRuns(c) = {}
      BY <2>2, CommitReplaces, CheckAssumption DEF CurrentRuns
    <3>2. Written(c) = {}
      BY <3>1 DEF Inv, RunInv, History, StillCurrent
    <3> QED
      BY <2>2, <3>2, CommitReplaces
  <2>3. CASE wrote[r][c] # Nothing /\ closed[r][c] # NoRun
    BY <2>3, CommitReplaces DEF Inv, RunInv, History, OneBeginning
  <2> QED
    BY <2>1, <2>2, <2>3
<1> QED
  BY <1>6, <1>7, <1>8, <1>9, <1>10, <1>11 DEF RunInv, History

-----------------------------------------------------------------------------
(* The theorems                                                            *)

LEMMA InvInit == Init => Inv
<1> SUFFICES ASSUME Init PROVE Inv
  OBVIOUS
<1>1. TypeOK
  BY TypeInit
<1>2. \A r \in Runs : RunOK(r)
  BY DEF Init, RunOK, Rewound, NothingYet, ClosesAreReal, SeenIsReal,
     LoopInOrder, Replacing, ClosesAreReplaced, AlertsAgree, Covered, Working
<1>3. ClosesDiffer /\ OneWriter
  BY DEF Init, ClosesDiffer, OneWriter, Active
<1>4. \A c \in Controls : CurrentRuns(c) = {} /\ Written(c) = {}
  BY DEF Init, CurrentRuns, Written, Current, Committed
<1>5. History
  BY <1>4 DEF History, OneCurrent, StillCurrent, OneBeginning
<1> QED
  BY <1>1, <1>2, <1>3, <1>5 DEF Inv, RunInv

LEMMA InvNext == Inv /\ [Next]_vars => Inv'
<1> SUFFICES ASSUME Inv, [Next]_vars PROVE Inv'
  OBVIOUS
<1>1. TypeOK'
  BY TypeNext DEF Inv, RunInv, RunOK
<1>2. ASSUME CreateTenant PROVE RunInv'
  BY <1>2, NobodyMoves DEF CreateTenant, localVars, writeVars
<1>3. ASSUME NEW s \in Submissions,
             OpenSubmission(s) \/ RejectSubmission(s) \/ RecordAnswers(s)
      PROVE  RunInv'
  BY <1>3, NobodyMoves DEF OpenSubmission, RejectSubmission, RecordAnswers,
     localVars, writeVars
<1>4. ASSUME NEW r \in Runs, Begin(r) \/ Work(r) \/ Fail(r)
      PROVE  RunInv'
  <2>1. ASSUME Abort(r), RangeViolation(r) \/ UniqueViolation(r) \/ Fail(r)
        PROVE  RunInv'
    <3>1. pc[r] \in Active
      BY <2>1 DEF RangeViolation, UniqueViolation, Fail, WantsToClose,
         WantsToInsert, InLoop, Active
    <3> QED
      BY <1>1, <2>1, <3>1, AbortKeeps
  <2> QED
    BY <1>1, <1>4, <2>1, BeginKeeps, ReadAnswersKeeps, ReadFindingsKeeps,
       UnchangedKeeps, CloseOldKeeps, InsertNewKeeps, CommitKeeps
    DEF Work, RangeViolation, UniqueViolation, Fail
<1>5. ASSUME UNCHANGED vars PROVE RunInv'
  BY <1>5, NobodyMoves DEF vars, localVars, writeVars
<1> QED
  BY <1>1, <1>2, <1>3, <1>4, <1>5 DEF Next, Inv

\* Inv holds in every reachable state: the basis of the theorems below.
THEOREM Invariance == Spec => []Inv
BY InvInit, InvNext, PTL DEF Spec

\* Types are kept; in particular a timestamp is never later than the clock.
THEOREM TypeCorrect == Spec => []TypeOK
<1>1. Inv => TypeOK
  BY DEF Inv
<1> QED
  BY <1>1, Invariance, PTL

\* The handoff of every finding, whatever runs overlap.
THEOREM HandoffIsClean == Spec => []CleanHandoff
<1>1. Inv => CleanHandoff
  <2> SUFFICES ASSUME Inv, NEW c \in Controls
               PROVE  /\ \A q \in Written(c) :
                           /\ \A s, t \in ClosersOf(q, c) : s = t
                           /\ \A s \in ClosersOf(q, c) :
                                s \in Written(c) /\ start[q] < start[s]
                      /\ Written(c) # {} => \E q \in Runs : CurrentRuns(c) = {q}
    BY DEF CleanHandoff
  <2>1. ASSUME NEW q \in Written(c), NEW s \in ClosersOf(q, c)
        PROVE  /\ s \in Written(c) /\ start[q] < start[s]
               /\ \A t \in ClosersOf(q, c) : s = t
    <3>1. /\ s \in Runs /\ Committed(s) /\ closed[s][c] = q
          /\ closed[s][c] # NoRun
      BY CheckAssumption DEF Written, ClosersOf
    <3>2. start[q] < start[s]
      BY <3>1 DEF Inv, RunInv, RunOK, ClosesAreReal
    <3>3. wrote[s][c] # Nothing
      BY <3>1 DEF Inv, RunInv, RunOK, ClosesAreReplaced, Committed
    <3>4. \A t \in ClosersOf(q, c) : s = t
      BY <3>1 DEF Inv, RunInv, ClosesDiffer, ClosersOf
    <3> QED
      BY <3>1, <3>2, <3>3, <3>4 DEF Written
  <2>2. ASSUME Written(c) # {} PROVE \E q \in Runs : CurrentRuns(c) = {q}
    <3>1. PICK q \in CurrentRuns(c) : TRUE
      BY <2>2 DEF Inv, RunInv, History, StillCurrent
    <3> QED
      BY <3>1 DEF Inv, RunInv, History, OneCurrent, CurrentRuns
  <2> QED
    BY <2>1, <2>2
<1> QED
  BY <1>1, Invariance, PTL

\* A control has one beginning: finding.created cannot happen twice.
THEOREM BeginsOnce == Spec => []OneBeginning
<1>1. Inv => OneBeginning
  BY DEF Inv, RunInv, History
<1> QED
  BY <1>1, Invariance, PTL

\* The committed alerts are the worsened transitions of the committed history,
\* although each run decides on a finding it read before it waited for locks.
THEOREM AlertsAreTrue == Spec => []AlertsTellHistory
<1>1. Inv => AlertsTellHistory
  <2> SUFFICES ASSUME Inv, NEW c \in Controls, NEW r \in Written(c),
                      closed[r][c] # NoRun
               PROVE  closed[r][c] \in Written(c)
    BY DEF AlertsTellHistory, Inv, RunInv, RunOK, AlertsAgree, Written
  <2> QED
    BY DEF Inv, RunInv, RunOK, ClosesAreReal, Written, Committed
<1> QED
  BY <1>1, Invariance, PTL

-----------------------------------------------------------------------------
(* Refinement                                                              *)

\* The finding a reader takes for a control's current one is the current one.
LEMMA SeenNowIs ==
  ASSUME NEW c \in Controls
  PROVE  /\ CurrentRuns(c) = {} => SeenNow(c) = NoRun
         /\ \A q \in Runs : CurrentRuns(c) = {q} => SeenNow(c) = q
BY DEF SeenNow

AnyOf(S) == IF S = {} THEN NoRun ELSE CHOOSE q \in S : TRUE

LEMMA SeenNowStays ==
  ASSUME NEW c \in Controls, CurrentRuns(c)' = CurrentRuns(c)
  PROVE  SeenNow(c)' = SeenNow(c)
<1>1. SeenNow(c) = AnyOf(CurrentRuns(c))
  BY DEF SeenNow, AnyOf
<1>2. SeenNow(c)' = AnyOf(CurrentRuns(c)')
  BY DEF SeenNow, AnyOf
<1> QED
  BY <1>1, <1>2

LEMMA LedgerSame ==
  ASSUME TypeOK, NEW r \in Runs, ~Committed(r), ~Committed(r)',
         \A q \in Runs \ {r} : SameRun(q)
  PROVE  UNCHANGED Ledger!vars
<1>1. \A c \in Controls : CurrentRuns(c)' = CurrentRuns(c)
  BY HistorySame
<1>2. \A q \in Runs : Committed(q) =>
        wrote'[q] = wrote[q] /\ enqueued'[q] = enqueued[q]
  BY DEF SameRun
<1>3. PublishedRuns' = PublishedRuns
  BY DEF PublishedRuns, Committed, SameRun
<1>4. RaisedAlerts' = RaisedAlerts
  BY <1>2, <1>3 DEF RaisedAlerts, PublishedRuns, Committed
<1>5. \A c \in Controls : SeenNow(c)' = SeenNow(c)
  BY <1>1, SeenNowStays
<1>6. \A c \in Controls : SeenNow(c) # NoRun =>
        wrote'[SeenNow(c)] = wrote[SeenNow(c)]
  BY <1>2, SeenNowIsCurrent DEF CurrentRuns, Current
<1>7. CurrentVerdicts' = CurrentVerdicts
  BY <1>5, <1>6 DEF CurrentVerdicts
<1> QED
  BY <1>3, <1>4, <1>7 DEF Ledger!vars

\* What a commit does to the verdicts in force, and which alerts it brings.
LEMMA CommitVerdicts ==
  ASSUME Inv, NEW r \in Runs, Commit(r)
  PROVE  \A c \in Controls :
           /\ CurrentVerdicts'[c] = IF wrote[r][c] = Nothing
                                      THEN CurrentVerdicts[c] ELSE wrote[r][c]
           /\ CurrentVerdicts'[c] \in Verdicts
           /\ c \in enqueued[r] <=> IsWorsening(CurrentVerdicts[c], CurrentVerdicts'[c])
<1>1. /\ pc[r] = "looping" /\ pos[r] > Size
      /\ pc' = [pc EXCEPT ![r] = "committed"]
      /\ UNCHANGED <<start, closed, wrote, enqueued>>
  BY DEF Commit, writeVars, Size
<1>3. RunOK(r)
  BY DEF Inv, RunInv
<1>4. \A c \in Controls : wrote[r][c] # Nothing =>
        CurrentVerdicts'[c] = wrote[r][c]
  <2> SUFFICES ASSUME NEW c \in Controls, wrote[r][c] # Nothing
               PROVE  CurrentVerdicts'[c] = wrote[r][c]
    OBVIOUS
  <2>1. SeenNow(c)' = r
    BY CommitReplaces DEF SeenNow
  <2> QED
    BY <1>1, <2>1, CheckAssumption DEF CurrentVerdicts
<1>5. \A c \in Controls : wrote[r][c] = Nothing =>
        CurrentVerdicts'[c] = CurrentVerdicts[c]
  <2> SUFFICES ASSUME NEW c \in Controls, wrote[r][c] = Nothing
               PROVE  CurrentVerdicts'[c] = CurrentVerdicts[c]
    OBVIOUS
  <2>1. SeenNow(c)' = SeenNow(c)
    BY CommitReplaces, SeenNowStays
  <2> QED
    BY <1>1, <2>1 DEF CurrentVerdicts
<1>6. \A c \in Controls : wrote[r][c] # Nothing =>
        CurrentVerdicts[c] = IF closed[r][c] = NoRun
                               THEN Nothing ELSE wrote[closed[r][c]][c]
  <2> SUFFICES ASSUME NEW c \in Controls, wrote[r][c] # Nothing
               PROVE  CurrentVerdicts[c] = IF closed[r][c] = NoRun
                               THEN Nothing ELSE wrote[closed[r][c]][c]
    OBVIOUS
  <2>1. \A q \in CurrentRuns(c) : q = closed[r][c]
    BY CommitReplaces
  <2>2. CASE closed[r][c] = NoRun
    <3>1. SeenNow(c) = NoRun
      BY <2>1, <2>2, SeenNowIsCurrent, CheckAssumption
    <3> QED
      BY <2>2, <3>1 DEF CurrentVerdicts
  <2>3. CASE closed[r][c] # NoRun
    <3>1. closed[r][c] \in Written(c)
      BY <1>3, <2>3 DEF RunOK, ClosesAreReal, Written, Committed
    <3>2. CurrentRuns(c) # {}
      BY <3>1 DEF Inv, RunInv, History, StillCurrent
    <3>3. SeenNow(c) = closed[r][c]
      BY <2>1, <3>2, SeenNowIsCurrent
    <3> QED
      BY <2>3, <3>3 DEF CurrentVerdicts
  <2> QED
    BY <2>2, <2>3
<1>7. \A c \in Controls : CurrentVerdicts'[c] \in Verdicts
  <2> SUFFICES ASSUME NEW c \in Controls PROVE CurrentVerdicts'[c] \in Verdicts
    OBVIOUS
  <2>1. CASE wrote[r][c] # Nothing
    BY <1>4, <2>1 DEF Inv, TypeOK
  <2>2. CASE wrote[r][c] = Nothing
    <3>1. PICK i \in 1..Size : ControlOrder[i] = c
      BY CheckAssumption DEF Size
    <3>2. pos[r] = Size + 1
      <4>1. pos[r] \in 1..(Size + 1)
        BY DEF Inv, TypeOK, Size
      <4> QED
        BY <1>1, <4>1, Order_
    <3>3. i \in 1..(pos[r] - 1)
      BY <3>1, <3>2, Order_
    <3>4. seen[r][c] # NoRun
      BY <1>1, <1>3, <2>2, <3>1, <3>3 DEF RunOK, Covered, Working
    <3>5. seen[r][c] \in Written(c)
      BY <1>3, <3>4 DEF RunOK, SeenIsReal, Written, Committed
    <3>6. CurrentRuns(c) # {}
      BY <3>5 DEF Inv, RunInv, History, StillCurrent
    <3>7. /\ SeenNow(c) \in Runs /\ SeenNow(c) # NoRun
          /\ wrote[SeenNow(c)][c] # Nothing
      BY <3>6, SeenNowIsCurrent DEF CurrentRuns, Current
    <3> QED
      BY <1>5, <2>2, <3>7 DEF CurrentVerdicts, Inv, TypeOK
  <2> QED
    BY <2>1, <2>2
<1>9. \A c \in Controls :
        c \in enqueued[r] <=> IsWorsening(CurrentVerdicts[c], CurrentVerdicts'[c])
  <2> SUFFICES ASSUME NEW c \in Controls
               PROVE  c \in enqueued[r] <=>
                        IsWorsening(CurrentVerdicts[c], CurrentVerdicts'[c])
    OBVIOUS
  <2>1. CASE wrote[r][c] = Nothing
    <3>1. ~IsWorsening(CurrentVerdicts[c], CurrentVerdicts[c])
      BY DEF IsWorsening, Severity, Ranked
    <3> QED
      BY <1>3, <1>5, <2>1, <3>1 DEF RunOK, AlertsAgree
  <2>2. CASE wrote[r][c] # Nothing /\ closed[r][c] = NoRun
    BY <1>3, <1>6, <2>2, NothingIsNoVerdict
    DEF RunOK, AlertsAgree, IsWorsening, Verdicts
  <2>3. CASE wrote[r][c] # Nothing /\ closed[r][c] # NoRun
    BY <1>3, <1>4, <1>6, <2>3 DEF RunOK, AlertsAgree
  <2> QED
    BY <2>1, <2>2, <2>3
<1> QED
  BY <1>4, <1>5, <1>7, <1>9

LEMMA CommitPublishes ==
  ASSUME Inv, Inv', NEW r \in Runs, Commit(r)
  PROVE  Ledger!Next
<1>1. /\ pc' = [pc EXCEPT ![r] = "committed"] /\ pc[r] = "looping"
      /\ enqueued' = enqueued
  BY DEF Commit, writeVars
<1>2. PublishedRuns' = PublishedRuns \cup {r} /\ r \notin PublishedRuns
  BY <1>1 DEF PublishedRuns, Inv, TypeOK
<1>3. CurrentVerdicts' \in [Controls -> Verdicts]
  BY CommitVerdicts DEF CurrentVerdicts
<1>4. \A c \in Controls :
        c \in enqueued[r] <=> IsWorsening(CurrentVerdicts[c], CurrentVerdicts'[c])
  BY CommitVerdicts
<1>5. RaisedAlerts' = RaisedAlerts \cup {<<r, c>> : c \in enqueued[r]}
  <2>1. RaisedAlerts' = UNION {{<<q, c>> : c \in enqueued[q]} :
                                 q \in PublishedRuns \cup {r}}
    BY <1>1, <1>2 DEF RaisedAlerts
  <2> QED
    BY <2>1 DEF RaisedAlerts
<1>6. enqueued[r] = {c \in Controls :
                        IsWorsening(CurrentVerdicts[c], CurrentVerdicts'[c])}
  BY <1>4 DEF Inv, TypeOK
<1>7. Ledger!Publish(r, CurrentVerdicts')
  BY <1>2, <1>5, <1>6 DEF Ledger!Publish, Ledger!IsWorsening, IsWorsening,
     Ledger!Ranked, Ranked, Ledger!Severity, Severity
<1> QED
  BY <1>3, <1>7 DEF Ledger!Next, Ledger!Verdicts, Ledger!Ranked, Verdicts, Ranked

LEMMA LedgerNext == Inv /\ Inv' /\ [Next]_vars => [Ledger!Next]_Ledger!vars
<1> SUFFICES ASSUME Inv, Inv', [Next]_vars PROVE [Ledger!Next]_Ledger!vars
  OBVIOUS
<1> USE DEF Inv
<1>1. ASSUME UNCHANGED <<pc, closed, wrote, enqueued>> PROVE UNCHANGED Ledger!vars
  <2>1. \A c \in Controls : CurrentRuns(c)' = CurrentRuns(c)
    BY <1>1 DEF CurrentRuns, Current, Committed
  <2>2. \A c \in Controls : SeenNow(c)' = SeenNow(c)
    BY <2>1, SeenNowStays
  <2> QED
    BY <1>1, <2>2 DEF Ledger!vars, CurrentVerdicts, PublishedRuns, RaisedAlerts
<1>2. ASSUME NEW r \in Runs, MovesAlone(r) PROVE UNCHANGED Ledger!vars
  BY <1>2, LedgerSame DEF MovesAlone
<1>3. CASE CreateTenant
  BY <1>1, <1>3 DEF CreateTenant, writeVars
<1>4. ASSUME NEW s \in Submissions,
             OpenSubmission(s) \/ RejectSubmission(s) \/ RecordAnswers(s)
      PROVE  UNCHANGED Ledger!vars
  BY <1>1, <1>4 DEF OpenSubmission, RejectSubmission, RecordAnswers, writeVars
<1>5. ASSUME NEW r \in Runs, Begin(r) \/ Work(r) \/ Fail(r)
      PROVE  [Ledger!Next]_Ledger!vars
  <2>1. CASE Commit(r)
    BY <2>1, CommitPublishes
  <2>2. ASSUME Abort(r), RangeViolation(r) \/ UniqueViolation(r) \/ Fail(r)
        PROVE  MovesAlone(r)
    <3>1. pc[r] \in Active
      BY <2>2 DEF RangeViolation, UniqueViolation, Fail, WantsToClose,
         WantsToInsert, InLoop, Active
    <3> QED
      BY <2>2, <3>1, AbortKeeps
  <2>3. ~Commit(r) => MovesAlone(r)
    BY <1>5, <2>2, BeginKeeps, ReadAnswersKeeps, ReadFindingsKeeps,
       UnchangedKeeps, CloseOldKeeps, InsertNewKeeps
    DEF Work, RangeViolation, UniqueViolation, Fail
  <2> QED
    BY <1>2, <2>1, <2>3
<1>6. CASE UNCHANGED vars
  BY <1>1, <1>6 DEF vars, writeVars
<1> QED
  BY <1>3, <1>4, <1>5, <1>6 DEF Next

\* Overlapping runs publish whole, one after the other, each with the alerts
\* its verdicts call for: only a commit is a step of ComplianceLedger.
THEOREM Refinement == Spec => ImplementsLedger
<1>1. Init => Ledger!Init
  <2> SUFFICES ASSUME Init PROVE Ledger!Init
    OBVIOUS
  <2>1. PublishedRuns = {}
    BY DEF Init, PublishedRuns
  <2>2. RaisedAlerts = {}
    BY <2>1 DEF RaisedAlerts
  <2>3. \A c \in Controls : CurrentRuns(c) = {}
    BY DEF Init, CurrentRuns, Current, Committed
  <2>4. \A c \in Controls : SeenNow(c) = NoRun
    BY <2>3 DEF SeenNow
  <2> QED
    BY <2>1, <2>2, <2>4 DEF Ledger!Init, CurrentVerdicts
<1> QED
  BY <1>1, LedgerNext, Invariance, PTL
     DEF Spec, ImplementsLedger, Ledger!Spec
=============================================================================
