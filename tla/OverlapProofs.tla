---------------------------- MODULE OverlapProofs ----------------------------
(***************************************************************************)
(* What overlapping check runs do to each other, for any number of them.   *)
(*                                                                         *)
(* They do not wait for each other in a circle: every run takes its locks  *)
(* control by control in one order, so a run waits only for one that is    *)
(* further on, and the one furthest on waits for nobody.                   *)
(*                                                                         *)
(* And what a check vouches for: a run that nothing overtook leaves        *)
(* findings that agree with the latest answers, whatever else ran          *)
(* meanwhile.  The strengthening says the same of a run in progress: its   *)
(* answers are still the latest, what it wrote follows from them, and a    *)
(* finding it did not see when it read the table comes from a run with the *)
(* latest answers.                                                         *)
(***************************************************************************)
EXTENDS CheckRunsProofs, FiniteSums

-----------------------------------------------------------------------------
(* How far a run is                                                        *)

\* How far a run is: by control, and within a control before the close, after
\* a close that closed nothing, after one that closed the row.
Step(r) ==
  IF pc[r] # "replacing" THEN 0
  ELSE IF closed[r][At(r)] = NoRun THEN 1 ELSE 2

Progress(r) == 3 * pos[r] + Step(r)
Top == 3 * Size + 5

LEMMA ProgressBounded ==
  ASSUME TypeOK, NEW r \in Runs
  PROVE  /\ pos[r] \in Nat /\ Progress(r) \in Nat /\ Top - Progress(r) \in Nat
         /\ Step(r) \in {0, 1, 2}
<1>1. Step(r) \in {0, 1, 2}
  BY DEF Step
<1>2. pos[r] \in 1..(Size + 1)
  BY DEF TypeOK, Size
<1>3. pos[r] \in Nat /\ pos[r] <= Size + 1 /\ Size \in Nat
  BY <1>2, Order_
<1> QED
  BY <1>1, <1>3 DEF Progress, Top

\* A finding that an open run has closed is still the control's current one.
LEMMA ClosedByOpenIsCurrent ==
  ASSUME Inv, NEW r \in Runs, pc[r] \in Active,
         NEW c \in Controls, closed[r][c] # NoRun
  PROVE  closed[r][c] \in CurrentRuns(c)
<1>1. /\ Committed(closed[r][c])
      /\ wrote[closed[r][c]][c] # Nothing
  BY DEF Inv, RunInv, RunOK, ClosesAreReal
<1>2. ~Committed(r)
  BY DEF Committed, Active
<1>3. \A s \in Runs : Committed(s) => closed[s][c] # closed[r][c]
  BY <1>2 DEF Inv, RunInv, ClosesDiffer
<1> QED
  BY <1>1, <1>3 DEF Current, CurrentRuns, Committed

\* So two open runs have not both closed a finding of the same control.
LEMMA OneCloser ==
  ASSUME Inv, NEW r \in Runs, NEW s \in Runs, NEW c \in Controls,
         pc[r] \in Active, pc[s] \in Active,
         closed[r][c] # NoRun, closed[s][c] # NoRun
  PROVE  r = s
<1>1. closed[r][c] = closed[s][c]
  BY ClosedByOpenIsCurrent DEF Inv, RunInv, History, OneCurrent
<1> QED
  BY <1>1 DEF Inv, RunInv, ClosesDiffer

\* A run that has written or closed at a control is past it, or is there and
\* has closed the old finding.
LEMMA PastOrThere ==
  ASSUME Inv, NEW s \in Runs, pc[s] \in Active, NEW i \in 1..Size,
         \/ wrote[s][ControlOrder[i]] # Nothing
         \/ closed[s][ControlOrder[i]] # NoRun
  PROVE  \/ i < pos[s]
         \/ /\ i = pos[s] /\ pc[s] = "replacing" /\ At(s) = ControlOrder[i]
            /\ closed[s][ControlOrder[i]] # NoRun
<1>1. pc[s] \in Working
  BY Order_ DEF Inv, RunInv, RunOK, NothingYet, Active
<1>2. pos[s] \in Nat
  BY ProgressBounded DEF Inv
<1>3. CASE ~(i < pos[s])
  <2>1. i \in pos[s]..Size
    BY <1>2, <1>3, Order_
  <2>2. /\ wrote[s][ControlOrder[i]] = Nothing
        /\ closed[s][ControlOrder[i]] # NoRun => pc[s] = "replacing" /\ i = pos[s]
    BY <1>1, <2>1 DEF Inv, RunInv, RunOK, LoopInOrder
  <2> QED
    BY <2>2 DEF At, Order
<1> QED
  BY <1>3

LEMMA WaitsForOneAhead ==
  ASSUME Inv, NEW r \in Runs, pc[r] \in Active, Waiting(r)
  PROVE  \E s \in Runs : pc[s] \in Active /\ Progress(r) < Progress(s)
<1>1. pos[r] <= Size
  BY DEF Waiting, WantsToClose, WantsToInsert, InLoop, Inv, RunInv, RunOK,
     Replacing, Size
<1>2. /\ At(r) \in Controls /\ pos[r] \in 1..Size
      /\ At(r) = ControlOrder[pos[r]]
  BY <1>1, AtControl DEF Inv
<1>3. /\ pos[r] \in Nat /\ Step(r) \in {0, 1, 2}
  BY ProgressBounded DEF Inv
<1>4. PICK s \in Runs \ {r} :
        /\ pc[s] \in Active
        /\ \/ wrote[s][At(r)] # Nothing
           \/ closed[s][At(r)] # NoRun
        /\ pc[r] = "looping" \/ pc[r] = "replacing"
  BY DEF Waiting, WantsToClose, RowLocked, WantsToInsert, IndexBusy, InLoop,
     IsFirst
<1>5. pos[s] \in Nat /\ Step(s) \in {0, 1, 2}
  BY ProgressBounded DEF Inv
<1>6. CASE pos[r] < pos[s]
  <2>1. Progress(r) < Progress(s)
    BY <1>3, <1>5, <1>6 DEF Progress
  <2> QED
    BY <1>4, <2>1
<1>7. CASE /\ pos[r] = pos[s] /\ pc[s] = "replacing" /\ At(s) = At(r)
           /\ closed[s][At(r)] # NoRun
  <2>1. Step(s) = 2
    BY <1>7 DEF Step
  <2>2. closed[r][At(r)] = NoRun
    BY <1>2, <1>4, <1>7, OneCloser
  <2>3. Step(r) \in {0, 1}
    BY <2>2 DEF Step
  <2>4. Progress(r) < Progress(s)
    BY <1>3, <1>7, <2>1, <2>3 DEF Progress
  <2> QED
    BY <1>4, <2>4
<1> QED
  BY <1>2, <1>4, <1>6, <1>7, PastOrThere

-----------------------------------------------------------------------------
(* The run furthest on                                                     *)

LEMMA FurthestOn ==
  ASSUME TypeOK, NEW r0 \in Runs, pc[r0] \in Active
  PROVE  \E r \in Runs : /\ pc[r] \in Active
                         /\ \A s \in Runs : pc[s] \in Active =>
                              ~(Progress(r) < Progress(s))
<1> DEFINE Open == {r \in Runs : pc[r] \in Active}
<1> DEFINE Left == {Top - Progress(r) : r \in Open}
<1>1. Left \in SUBSET Nat
  BY ProgressBounded
<1>2. Left # {}
  OBVIOUS
<1>3. PICK n \in Left : \A m \in Left : n <= m
  <2> HIDE DEF Left
  <2> QED
    BY <1>1, <1>2, Least
<1>4. PICK r \in Open : n = Top - Progress(r)
  BY <1>3
<1>5. ASSUME NEW s \in Runs, pc[s] \in Active, Progress(r) < Progress(s)
      PROVE  FALSE
  <2>1. n <= Top - Progress(s)
    BY <1>3, <1>5
  <2>2. Progress(r) \in Nat /\ Progress(s) \in Nat /\ Top \in Nat
    <3>1. Top \in Nat
      BY Order_ DEF Top
    <3> QED
      BY <3>1, ProgressBounded
  <2> HIDE DEF Left
  <2> QED
    BY <1>4, <1>5, <2>1, <2>2
<1> QED
  BY <1>4, <1>5

\* Runs never wait for each other's locks in a circle, whatever they found and
\* however many overlap: checks.py takes the controls in one order (ORDER BY
\* code), and row locks and waits for the unique index both follow it.
THEOREM NoDeadlock == Spec => []NoWaitingCircle
<1>1. Inv => NoWaitingCircle
  <2> SUFFICES ASSUME Inv, NEW r0 \in Runs, pc[r0] \in Active
               PROVE  \E r \in Runs : pc[r] \in Active /\ ~Waiting(r)
    BY DEF NoWaitingCircle
  <2>1. PICK r \in Runs : /\ pc[r] \in Active
                          /\ \A s \in Runs : pc[s] \in Active =>
                               ~(Progress(r) < Progress(s))
    BY FurthestOn DEF Inv
  <2> QED
    BY <2>1, WaitsForOneAhead
<1> QED
  BY <1>1, Invariance, PTL

-----------------------------------------------------------------------------
(* What a run in progress knows of the latest answers                      *)

\* The verdict of finding <<q, c>> is what the latest answers say.
Fresh(q, c) == wrote[q][c] \in {Decide(m, c) : m \in LatestAnswers}

AnswersAreLatest(r) ==
  pc[r] \in Active \ {"begun"} /\ ~overtaken[r] => answers[r] \in LatestAnswers

WritesAnswers(r) ==
  pc[r] \in Working =>
    \A c \in Controls :
      wrote[r][c] # Nothing => wrote[r][c] = Decide(answers[r], c)

UnseenAreFresh(r) ==
  pc[r] \in Working /\ ~overtaken[r] =>
    \A c \in Controls : \A q \in CurrentRuns(c) : q = seen[r][c] \/ Fresh(q, c)

\* A control the loop has passed without writing kept the verdict it had.
PassedAgrees(r) ==
  pc[r] \in Working =>
    \A i \in 1..(pos[r] - 1) :
      LET c == ControlOrder[i] IN
      wrote[r][c] = Nothing =>
        seen[r][c] # NoRun /\ wrote[seen[r][c]][c] = Decide(answers[r], c)

FreshRun(r) ==
  /\ AnswersAreLatest(r)
  /\ WritesAnswers(r)
  /\ UnseenAreFresh(r)
  /\ PassedAgrees(r)

FreshInv == (\A r \in Runs : FreshRun(r)) /\ AssessedMeansCurrent

-----------------------------------------------------------------------------
(* The latest answers change only when a submission is recorded            *)

LEMMA LatestSame ==
  ASSUME Recorded' = Recorded,
         \A s \in Recorded : given'[s] = given[s] /\ collected'[s] = collected[s]
  PROVE  LatestAnswers' = LatestAnswers
<1>1. {DOMAIN given'[s] : s \in Recorded'} = {DOMAIN given[s] : s \in Recorded}
  OBVIOUS
<1>2. UNION {DOMAIN given'[s] : s \in Recorded'}
        = UNION {DOMAIN given[s] : s \in Recorded}
  BY <1>1
<1>3. ASSUME NEW m \in AnswerMaps
      PROVE  (\A q \in DOMAIN m : \E s \in Recorded' :
                /\ q \in DOMAIN given'[s]
                /\ m[q] = given'[s][q]
                /\ \A t \in Recorded' :
                      q \in DOMAIN given'[t] => collected'[t] <= collected'[s])
             <=>
             (\A q \in DOMAIN m : \E s \in Recorded :
                /\ q \in DOMAIN given[s]
                /\ m[q] = given[s][q]
                /\ \A t \in Recorded :
                      q \in DOMAIN given[t] => collected[t] <= collected[s])
  OBVIOUS
<1> QED
  BY <1>2, <1>3 DEF LatestAnswers, AnswerMaps

LEMMA NothingRecorded ==
  ASSUME UNCHANGED subVars
  PROVE  LatestAnswers' = LatestAnswers
BY LatestSame DEF subVars, Recorded

LEMMA OpenedOrRejected ==
  ASSUME TypeOK, NEW s \in Submissions, OpenSubmission(s) \/ RejectSubmission(s)
  PROVE  LatestAnswers' = LatestAnswers
<1>1. /\ stage[s] # "recorded"
      /\ stage' \in {[stage EXCEPT ![s] = "open"], [stage EXCEPT ![s] = "rejected"]}
  BY DEF OpenSubmission, RejectSubmission
<1>2. Recorded' = Recorded /\ s \notin Recorded
  BY <1>1 DEF Recorded, TypeOK
<1>3. \A t \in Submissions \ {s} :
        given'[t] = given[t] /\ collected'[t] = collected[t]
  BY DEF OpenSubmission, RejectSubmission, TypeOK
<1> QED
  BY <1>2, <1>3, LatestSame DEF Recorded

-----------------------------------------------------------------------------
(* Steps that record nothing and commit nothing                            *)

SameCurrent == \A c \in Controls : CurrentRuns(c)' = CurrentRuns(c)

LEMMA FreshStays ==
  ASSUME CommittedStay, LatestAnswers' = LatestAnswers,
         NEW c \in Controls, NEW q \in CurrentRuns(c), Fresh(q, c)
  PROVE  Fresh(q, c)'
<1>1. wrote'[q] = wrote[q]
  BY DEF CommittedStay, SameWrites, CurrentRuns, Current
<1> QED
  BY <1>1 DEF Fresh

LEMMA PassedStays ==
  ASSUME Inv, CommittedStay, NEW q \in Runs, SameRun(q), PassedAgrees(q)
  PROVE  PassedAgrees(q)'
<1> SUFFICES ASSUME pc[q] \in Working, NEW i \in 1..(pos[q] - 1),
                    wrote[q][ControlOrder[i]] = Nothing
             PROVE  /\ seen[q][ControlOrder[i]] # NoRun
                    /\ wrote'[seen[q][ControlOrder[i]]][ControlOrder[i]]
                         = Decide(answers[q], ControlOrder[i])
  BY DEF PassedAgrees, SameRun
<1>1. /\ seen[q][ControlOrder[i]] # NoRun
      /\ wrote[seen[q][ControlOrder[i]]][ControlOrder[i]]
           = Decide(answers[q], ControlOrder[i])
  BY DEF PassedAgrees
<1>2. ControlOrder[i] \in Controls
  <2>1. pos[q] \in 1..(Size + 1)
    BY DEF Inv, TypeOK, Size
  <2> QED
    BY <2>1, Order_
<1>3. Committed(seen[q][ControlOrder[i]])
  BY <1>1, <1>2 DEF Inv, RunInv, RunOK, SeenIsReal
<1>4. wrote'[seen[q][ControlOrder[i]]] = wrote[seen[q][ControlOrder[i]]]
  BY <1>3 DEF CommittedStay, SameWrites, Committed
<1> QED
  BY <1>1, <1>4

LEMMA FreshRunStays ==
  ASSUME Inv, CommittedStay, SameCurrent, LatestAnswers' = LatestAnswers,
         NEW q \in Runs, SameRun(q), overtaken'[q] = overtaken[q], FreshRun(q)
  PROVE  FreshRun(q)'
<1>1. AnswersAreLatest(q)' /\ WritesAnswers(q)'
  BY DEF FreshRun, AnswersAreLatest, WritesAnswers, SameRun
<1>2. UnseenAreFresh(q)'
  BY FreshStays DEF FreshRun, UnseenAreFresh, SameRun, SameCurrent
<1>3. PassedAgrees(q)'
  BY PassedStays DEF FreshRun
<1> QED
  BY <1>1, <1>2, <1>3 DEF FreshRun

LEMMA AssessedStays ==
  ASSUME CommittedStay, SameCurrent, LatestAnswers' = LatestAnswers,
         assessed' = assessed, AssessedMeansCurrent
  PROVE  AssessedMeansCurrent'
<1> SUFFICES ASSUME assessed, NEW c \in Controls
             PROVE  /\ CurrentRuns(c) # {}
                    /\ \A q \in CurrentRuns(c) : Fresh(q, c)'
  BY DEF AssessedMeansCurrent, SameCurrent, Fresh
<1>1. CurrentRuns(c) # {} /\ \A q \in CurrentRuns(c) : Fresh(q, c)
  BY DEF AssessedMeansCurrent, Fresh
<1> QED
  BY <1>1, FreshStays

\* So of a step that moves one run, only that run is left to look at.
LEMMA OneMoves ==
  ASSUME Inv, FreshInv, NEW r \in Runs, MovesAlone(r),
         UNCHANGED subVars, assessed' = assessed,
         \A q \in Runs \ {r} : overtaken'[q] = overtaken[q],
         FreshRun(r)'
  PROVE  FreshInv'
<1>1. CommittedStay
  BY DEF CommittedStay, SameRun, SameWrites, Committed, MovesAlone
<1>2. SameCurrent
  BY HistorySame DEF MovesAlone, SameCurrent
<1>3. \A q \in Runs \ {r} : FreshRun(q)'
  BY <1>1, <1>2, NothingRecorded, FreshRunStays DEF MovesAlone, FreshInv
<1>4. AssessedMeansCurrent'
  BY <1>1, <1>2, NothingRecorded, AssessedStays DEF FreshInv
<1> QED
  BY <1>3, <1>4 DEF FreshInv

LEMMA NoRunMoves ==
  ASSUME Inv, FreshInv, LatestAnswers' = LatestAnswers,
         UNCHANGED <<pc, start, localVars, writeVars, historyVars>>
  PROVE  FreshInv'
<1>1. \A q \in Runs : SameRun(q) /\ overtaken'[q] = overtaken[q]
  BY DEF SameRun, localVars, writeVars, historyVars
<1>2. CommittedStay
  BY <1>1 DEF CommittedStay, SameRun, SameWrites, Committed
<1>3. SameCurrent
  BY DEF SameCurrent, CurrentRuns, Current, Committed, writeVars
<1>4. \A q \in Runs : FreshRun(q)'
  BY <1>1, <1>2, <1>3, FreshRunStays DEF FreshInv
<1>5. AssessedMeansCurrent'
  BY <1>2, <1>3, AssessedStays DEF FreshInv, historyVars
<1> QED
  BY <1>4, <1>5 DEF FreshInv

-----------------------------------------------------------------------------
(* One lemma per kind of step                                              *)

\* Recorded answers overtake every run that has read the older ones.
LEMMA RecordFresh ==
  ASSUME Inv, FreshInv, NEW s \in Submissions, RecordAnswers(s)
  PROVE  FreshInv'
<1>1. /\ UNCHANGED <<pc, start, localVars, writeVars>> /\ ~assessed'
      /\ \A r \in Runs : overtaken'[r] <=>
                           overtaken[r] \/ pc[r] \in Active \ {"begun"}
  BY DEF RecordAnswers
<1>2. \A q \in Runs : SameRun(q)
  BY <1>1 DEF SameRun, localVars, writeVars
<1>3. CommittedStay
  BY <1>2 DEF CommittedStay, SameRun, SameWrites, Committed
<1>4. ASSUME NEW r \in Runs PROVE FreshRun(r)'
  <2>1. AnswersAreLatest(r)' /\ UnseenAreFresh(r)'
    BY <1>1, <1>2 DEF AnswersAreLatest, UnseenAreFresh, SameRun, Working, Active
  <2>2. WritesAnswers(r)'
    BY <1>2 DEF FreshInv, FreshRun, WritesAnswers, SameRun
  <2>3. PassedAgrees(r)'
    BY <1>2, <1>3, PassedStays DEF FreshInv, FreshRun
  <2> QED
    BY <2>1, <2>2, <2>3 DEF FreshRun
<1>5. AssessedMeansCurrent'
  BY <1>1 DEF AssessedMeansCurrent
<1> QED
  BY <1>4, <1>5 DEF FreshInv

LEMMA ReadAnswersFresh ==
  ASSUME Inv, TypeOK', FreshInv, NEW r \in Runs, ReadAnswers(r)
  PROVE  FreshInv'
<1>1. pc'[r] = "answered" /\ answers'[r] \in LatestAnswers
  BY DEF ReadAnswers, Inv, TypeOK
<1>2. LatestAnswers' = LatestAnswers
  BY NothingRecorded DEF ReadAnswers
<1>3. FreshRun(r)'
  BY <1>1, <1>2 DEF FreshRun, AnswersAreLatest, WritesAnswers, UnseenAreFresh,
     PassedAgrees, Working
<1> QED
  BY <1>3, ReadAnswersKeeps, OneMoves DEF ReadAnswers, historyVars

LEMMA ReadFindingsFresh ==
  ASSUME Inv, TypeOK', FreshInv, NEW r \in Runs, ReadFindings(r)
  PROVE  FreshInv'
<1>1. /\ pc[r] = "answered" /\ pc'[r] = "looping"
      /\ \A c \in Controls : seen'[r][c] = SeenNow(c)
      /\ UNCHANGED <<subVars, answers, pos, closed, wrote, historyVars>>
  BY DEF ReadFindings, Inv, TypeOK, writeVars
<1>2. LatestAnswers' = LatestAnswers
  BY <1>1, NothingRecorded
<1>3. MovesAlone(r)
  BY ReadFindingsKeeps
<1>4. \A c \in Controls : wrote[r][c] = Nothing
  BY <1>1 DEF Inv, RunInv, RunOK, NothingYet, Working
<1>5. pos[r] = 1
  BY <1>1 DEF Inv, RunInv, RunOK, Rewound, Working
<1>6. AnswersAreLatest(r)'
  BY <1>1, <1>2 DEF FreshInv, FreshRun, AnswersAreLatest, Active, historyVars
<1>7. WritesAnswers(r)' /\ PassedAgrees(r)'
  BY <1>1, <1>4, <1>5 DEF WritesAnswers, PassedAgrees
<1>8. UnseenAreFresh(r)'
  <2> SUFFICES ASSUME NEW c \in Controls, NEW q \in CurrentRuns(c)'
               PROVE  q = seen'[r][c]
    BY DEF UnseenAreFresh
  <2>1. q \in CurrentRuns(c)
    BY <1>3, HistorySame DEF MovesAlone
  <2> QED
    BY <1>1, <2>1, SeenNowIsCurrent DEF Inv, RunInv, History, OneCurrent
<1> QED
  BY <1>1, <1>3, <1>6, <1>7, <1>8, OneMoves DEF FreshRun, historyVars

\* The steps of the loop: only an insert writes, and it writes what the run's
\* answers say.
LEMMA LoopFresh ==
  ASSUME Inv, TypeOK', FreshInv, NEW r \in Runs,
         Unchanged(r) \/ CloseOld(r) \/ InsertNew(r)
  PROVE  FreshInv'
<1> DEFINE c0 == At(r)
<1>1. /\ UNCHANGED <<subVars, answers, seen, historyVars>>
      /\ MovesAlone(r)
  BY UnchangedKeeps, CloseOldKeeps, InsertNewKeeps
  DEF Unchanged, CloseOld, InsertNew, Advance, localVars
<1>2. pc[r] \in Working /\ pc'[r] \in Working /\ pos[r] <= Size
  <2>1. CASE Unchanged(r) \/ CloseOld(r)
    BY <2>1 DEF Unchanged, CloseOld, WantsToClose, InLoop, Working, Inv, TypeOK,
       Size
  <2>2. CASE InsertNew(r)
    BY <2>2, InsertReplacesSeen DEF InsertNew, Working, Inv, TypeOK
  <2> QED
    BY <2>1, <2>2
<1>3. /\ c0 \in Controls /\ pos[r] \in 1..Size /\ c0 = ControlOrder[pos[r]]
      /\ \A i \in 1..Size : ControlOrder[i] = c0 => i = pos[r]
  BY <1>2, AtControl DEF Inv
<1>4. /\ CommittedStay /\ SameCurrent /\ LatestAnswers' = LatestAnswers
  BY <1>1, HistorySame, NothingRecorded
  DEF MovesAlone, CommittedStay, SameCurrent, SameRun, SameWrites, Committed
<1>5. FreshRun(r)
  BY DEF FreshInv
<1>6. \/ wrote'[r] = wrote[r]
      \/ /\ InsertNew(r)
         /\ wrote'[r][c0] = Decide(answers[r], c0)
         /\ \A c \in Controls \ {c0} : wrote'[r][c] = wrote[r][c]
  BY <1>3 DEF Unchanged, CloseOld, InsertNew, writeVars, NewStatus, Inv, TypeOK
<1>7. AnswersAreLatest(r)'
  BY <1>1, <1>2, <1>4, <1>5
  DEF FreshRun, AnswersAreLatest, Working, Active, historyVars
<1>8. WritesAnswers(r)'
  BY <1>1, <1>2, <1>5, <1>6 DEF FreshRun, WritesAnswers
<1>9. UnseenAreFresh(r)'
  BY <1>1, <1>2, <1>4, <1>5, FreshStays
  DEF FreshRun, UnseenAreFresh, SameCurrent, historyVars
<1>10. PassedAgrees(r)'
  <2> SUFFICES ASSUME NEW i \in 1..(pos'[r] - 1), NEW c, c = ControlOrder[i],
                      wrote'[r][c] = Nothing
               PROVE  seen[r][c] # NoRun /\ wrote'[seen[r][c]][c] = Decide(answers[r], c)
    BY <1>1 DEF PassedAgrees
  <2>1. pos'[r] = pos[r] \/ (pos'[r] = pos[r] + 1 /\ ~CloseOld(r))
    BY DEF Unchanged, CloseOld, InsertNew, Advance, localVars, Inv, TypeOK,
       WantsToClose, WantsToInsert, InLoop
  <2>2. i \in 1..Size /\ (i = pos[r] \/ i \in 1..(pos[r] - 1))
    BY <1>3, <2>1, Order_
  <2>3. c \in Controls
    BY <2>2, Order_
  <2>4. wrote[r][c] = Nothing
    <3>1. Decide(answers[r], c0) # Nothing
      BY VerdictType, NothingIsNoVerdict
    <3> QED
      BY <1>6, <2>3, <3>1
  <2>5. seen[r][c] # NoRun => wrote'[seen[r][c]] = wrote[seen[r][c]]
    BY <1>4, <2>3
    DEF Inv, RunInv, RunOK, SeenIsReal, CommittedStay, SameWrites, Committed
  <2>6. CASE i \in 1..(pos[r] - 1)
    BY <1>2, <1>5, <2>4, <2>5, <2>6 DEF FreshRun, PassedAgrees
  <2>7. CASE i = pos[r]
    <3>1. c = c0
      BY <1>3, <2>7
    <3>2. ~InsertNew(r)
      <4>1. Decide(answers[r], c0) # Nothing
        BY VerdictType, NothingIsNoVerdict
      <4> QED
        BY <1>3, <3>1, <4>1 DEF InsertNew, NewStatus, Inv, TypeOK
    <3>3. ~CloseOld(r)
      <4>1. ASSUME CloseOld(r) PROVE pos' = pos
        BY <4>1 DEF CloseOld, localVars
      <4> QED
        BY <1>3, <2>7, <4>1
    <3>4. seen[r][c] # NoRun /\ wrote[seen[r][c]][c] = Decide(answers[r], c)
      BY <3>1, <3>2, <3>3
      DEF Unchanged, IsFirst, Same, OldStatus, NewStatus
    <3> QED
      BY <2>5, <3>4
  <2> QED
    BY <2>2, <2>6, <2>7
<1>11. FreshRun(r)'
  BY <1>7, <1>8, <1>9, <1>10 DEF FreshRun
<1> QED
  BY <1>1, <1>11, OneMoves DEF historyVars

\* A run that is not in progress claims nothing.
LEMMA StartOrEndFresh ==
  ASSUME Inv, TypeOK', FreshInv, NEW r \in Runs,
         Begin(r) \/ (pc[r] \in Active /\ Abort(r))
  PROVE  FreshInv'
<1>1. MovesAlone(r) /\ UNCHANGED subVars /\ assessed' = assessed
  BY BeginKeeps, AbortKeeps DEF Begin, Abort, Forget, historyVars
<1>2. /\ pc'[r] \in {"begun", "failed"}
      /\ \A q \in Runs \ {r} : overtaken'[q] = overtaken[q]
  BY DEF Begin, Abort, historyVars, Inv, TypeOK
<1>3. FreshRun(r)'
  BY <1>2 DEF FreshRun, AnswersAreLatest, WritesAnswers, UnseenAreFresh,
     PassedAgrees, Working, Active
<1> QED
  BY <1>1, <1>2, <1>3, OneMoves

\* A commit replaces findings: by fresh ones if nothing overtook the run, and
\* otherwise it overtakes every run that has read the findings it replaces.
LEMMA CommitFresh ==
  ASSUME Inv, TypeOK', FreshInv, NEW r \in Runs, Commit(r)
  PROVE  FreshInv'
<1>1. /\ pc[r] = "looping" /\ pos[r] > Size
      /\ pc'[r] = "committed"
      /\ \A q \in Runs \ {r} : SameRun(q)
      /\ UNCHANGED <<subVars, start, closed, wrote>>
      /\ assessed' <=> ~overtaken[r]
      /\ \A q \in Runs \ {r} :
            overtaken'[q] <=> overtaken[q] \/ (overtaken[r] /\ pc[q] \in Working)
  BY DEF Commit, Forget, SameRun, writeVars, Working, Size, Inv, TypeOK
<1>2. LatestAnswers' = LatestAnswers
  BY <1>1, NothingRecorded
<1>3. CommittedStay
  BY <1>1 DEF CommittedStay, SameWrites, SameRun, Committed
<1>4. RunOK(r) /\ FreshRun(r)
  BY DEF Inv, RunInv, FreshInv
<1>5. ASSUME ~overtaken[r], NEW c \in Controls, wrote[r][c] # Nothing
      PROVE  Fresh(r, c)'
  <2>1. answers[r] \in LatestAnswers
    BY <1>1, <1>4, <1>5 DEF FreshRun, AnswersAreLatest, Active
  <2>2. wrote[r][c] = Decide(answers[r], c)
    BY <1>1, <1>4, <1>5 DEF FreshRun, WritesAnswers, Working
  <2> QED
    BY <1>1, <1>2, <2>1, <2>2 DEF Fresh
<1>6. ASSUME NEW q \in Runs \ {r} PROVE FreshRun(q)'
  <2>1. FreshRun(q) /\ SameRun(q)
    BY <1>1 DEF FreshInv
  <2>2. AnswersAreLatest(q)' /\ WritesAnswers(q)'
    BY <1>1, <1>2, <2>1 DEF FreshRun, AnswersAreLatest, WritesAnswers, SameRun
  <2>3. UnseenAreFresh(q)'
    <3> SUFFICES ASSUME pc[q] \in Working, ~overtaken[q], ~overtaken[r],
                        NEW c \in Controls, NEW s \in CurrentRuns(c)'
                 PROVE  s = seen[q][c] \/ Fresh(s, c)'
      BY <1>1, <2>1 DEF UnseenAreFresh, SameRun
    <3>1. CASE wrote[r][c] # Nothing
      BY <1>5, <3>1, CommitReplaces
    <3>2. CASE wrote[r][c] = Nothing
      <4>1. s \in CurrentRuns(c)
        BY <3>2, CommitReplaces
      <4> QED
        BY <1>2, <1>3, <2>1, <4>1, FreshStays DEF FreshRun, UnseenAreFresh
    <3> QED
      BY <3>1, <3>2
  <2>4. PassedAgrees(q)'
    BY <1>3, <2>1, PassedStays DEF FreshRun
  <2> QED
    BY <2>2, <2>3, <2>4 DEF FreshRun
<1>7. FreshRun(r)'
  BY <1>1 DEF FreshRun, AnswersAreLatest, WritesAnswers, UnseenAreFresh,
     PassedAgrees, Working, Active
<1>8. AssessedMeansCurrent'
  <2> SUFFICES ASSUME ~overtaken[r], NEW c \in Controls
               PROVE  /\ CurrentRuns(c)' # {}
                      /\ \A q \in CurrentRuns(c)' : Fresh(q, c)'
    BY <1>1 DEF AssessedMeansCurrent, Fresh
  <2>1. CASE wrote[r][c] # Nothing
    BY <1>5, <2>1, CommitReplaces
  <2>2. CASE wrote[r][c] = Nothing
    <3>1. CurrentRuns(c)' = CurrentRuns(c)
      BY <2>2, CommitReplaces
    <3>2. PICK i \in 1..Size : ControlOrder[i] = c
      BY CheckAssumption DEF Size
    <3>3. i \in 1..(pos[r] - 1)
      <4>1. pos[r] \in 1..(Size + 1)
        BY DEF Inv, TypeOK, Size
      <4> QED
        BY <1>1, <4>1, Order_
    <3>4. seen[r][c] # NoRun /\ wrote[seen[r][c]][c] = Decide(answers[r], c)
      BY <1>1, <1>4, <2>2, <3>2, <3>3 DEF FreshRun, PassedAgrees, Working
    <3>5. seen[r][c] \in Written(c)
      BY <1>4, <3>4 DEF RunOK, SeenIsReal, Written, Committed
    <3>6. CurrentRuns(c) # {}
      BY <3>5 DEF Inv, RunInv, History, StillCurrent
    <3>7. answers[r] \in LatestAnswers
      BY <1>1, <1>4 DEF FreshRun, AnswersAreLatest, Active
    <3>8. ASSUME NEW q \in CurrentRuns(c) PROVE Fresh(q, c)
      BY <1>1, <1>4, <3>4, <3>7 DEF FreshRun, UnseenAreFresh, Working, Fresh
    <3> QED
      BY <1>2, <1>3, <3>1, <3>6, <3>8, FreshStays
  <2> QED
    BY <2>1, <2>2
<1> QED
  BY <1>6, <1>7, <1>8 DEF FreshInv

-----------------------------------------------------------------------------
LEMMA FreshInit == Init => FreshInv
BY DEF Init, FreshInv, FreshRun, AnswersAreLatest, WritesAnswers,
   UnseenAreFresh, PassedAgrees, Working, Active, AssessedMeansCurrent

LEMMA FreshNext == Inv /\ Inv' /\ FreshInv /\ [Next]_vars => FreshInv'
<1> SUFFICES ASSUME Inv, Inv', FreshInv, [Next]_vars PROVE FreshInv'
  OBVIOUS
<1>1. TypeOK /\ TypeOK'
  BY DEF Inv
<1>2. ASSUME CreateTenant PROVE FreshInv'
  BY <1>2, NothingRecorded, NoRunMoves DEF CreateTenant
<1>3. ASSUME NEW s \in Submissions, OpenSubmission(s) \/ RejectSubmission(s)
      PROVE  FreshInv'
  <2>1. LatestAnswers' = LatestAnswers
    BY <1>1, <1>3, OpenedOrRejected
  <2> QED
    BY <1>3, <2>1, NoRunMoves DEF OpenSubmission, RejectSubmission
<1>4. ASSUME NEW r \in Runs, Begin(r) \/ Work(r) \/ Fail(r) PROVE FreshInv'
  <2>1. ASSUME Abort(r), RangeViolation(r) \/ UniqueViolation(r) \/ Fail(r)
        PROVE  pc[r] \in Active
    BY <2>1 DEF RangeViolation, UniqueViolation, Fail, WantsToClose,
       WantsToInsert, InLoop, Active
  <2> QED
    BY <1>1, <1>4, <2>1, ReadAnswersFresh, ReadFindingsFresh, LoopFresh,
       StartOrEndFresh, CommitFresh
    DEF Work, RangeViolation, UniqueViolation, Fail
<1>5. ASSUME UNCHANGED vars PROVE FreshInv'
  BY <1>5, NothingRecorded, NoRunMoves DEF vars
<1> QED
  BY <1>2, <1>3, <1>4, <1>5, RecordFresh DEF Next

LEMMA FreshInvariance == Spec => []FreshInv
BY FreshInit, FreshNext, Invariance, PTL DEF Spec

\* A run that neither a submission nor a run with older answers overtook
\* leaves the findings in agreement with the latest answers, and they stay so:
\* the runs it overlapped cannot have spoilt what it vouches for.
THEOREM AssessmentHolds == Spec => []AssessedMeansCurrent
<1>1. FreshInv => AssessedMeansCurrent
  BY DEF FreshInv
<1> QED
  BY <1>1, FreshInvariance, PTL

-----------------------------------------------------------------------------
(* Why checks end: RunsEnd but for the fairness                            *)

\* Of the recorded submissions that answer a question, one was collected last.
LEMMA OneWasLast ==
  ASSUME TypeOK, NEW q, NEW s0 \in Recorded, q \in DOMAIN given[s0]
  PROVE  \E s \in Recorded :
           /\ q \in DOMAIN given[s]
           /\ \A t \in Recorded : q \in DOMAIN given[t] => collected[t] <= collected[s]
<1> DEFINE asked == {s \in Recorded : q \in DOMAIN given[s]}
           ages == {clock - collected[s] : s \in asked}
<1>1. clock \in Nat /\ \A s \in asked : collected[s] \in 0..clock
  BY DEF TypeOK, Recorded
<1>2. ages \in SUBSET Nat /\ ages # {}
  BY <1>1
<1>3. PICK n \in ages : \A m \in ages : n <= m
  <2> HIDE DEF ages
  <2> QED
    BY <1>2, Least
<1>4. PICK s \in asked : n = clock - collected[s]
  BY <1>3
<1>5. ASSUME NEW t \in asked PROVE collected[t] <= collected[s]
  <2>1. n <= clock - collected[t]
    BY <1>3
  <2> QED
    BY <1>1, <1>4, <2>1
<1> QED
  BY <1>4, <1>5

\* So the query for the latest answers always has a result.
LEMMA AnswersExist ==
  ASSUME TypeOK
  PROVE  LatestAnswers # {}
<1> DEFINE asked == UNION {DOMAIN given[s] : s \in Recorded}
           IsLast(s, q) ==
             /\ q \in DOMAIN given[s]
             /\ \A t \in Recorded :
                   q \in DOMAIN given[t] => collected[t] <= collected[s]
           last == [q \in asked |-> CHOOSE s \in Recorded : IsLast(s, q)]
           m == [q \in asked |-> given[last[q]][q]]
<1>1. \A s \in Recorded : given[s] \in AnswerMaps
  BY DEF TypeOK, Recorded
<1>2. \A s \in Recorded : /\ DOMAIN given[s] \subseteq Questions
                          /\ \A q \in DOMAIN given[s] : given[s][q] \in {"yes", "no"}
  BY <1>1 DEF AnswerMaps
<1>3. \A q \in asked : last[q] \in Recorded /\ IsLast(last[q], q)
  <2> SUFFICES ASSUME NEW q \in asked
               PROVE  last[q] \in Recorded /\ IsLast(last[q], q)
    OBVIOUS
  <2>1. PICK s0 \in Recorded : q \in DOMAIN given[s0]
    OBVIOUS
  <2>2. \E s \in Recorded : IsLast(s, q)
    BY <2>1, OneWasLast
  <2>3. last[q] = CHOOSE s \in Recorded : IsLast(s, q)
    OBVIOUS
  <2> HIDE DEF last, IsLast
  <2> QED
    BY <2>2, <2>3
<1>4. m \in AnswerMaps
  <2>1. m \in [asked -> {"yes", "no"}]
    BY <1>2, <1>3
  <2>2. asked \in SUBSET Questions
    BY <1>2
  <2> HIDE DEF m, asked
  <2> QED
    BY <2>1, <2>2 DEF AnswerMaps
<1>5. \A q \in DOMAIN m :
        /\ last[q] \in Recorded /\ IsLast(last[q], q)
        /\ m[q] = given[last[q]][q]
  BY <1>3
<1>6. DOMAIN m = asked
  OBVIOUS
<1>7. m \in LatestAnswers
  <2> HIDE DEF m, last
  <2> QED
    BY <1>4, <1>5, <1>6 DEF LatestAnswers
<1> QED
  BY <1>7

\* The conditions under which run r can take a step of its own.
Ready(r) ==
  \/ pc[r] = "begun" /\ LatestAnswers # {}
  \/ pc[r] = "answered"
  \/ InLoop(r) /\ ~IsFirst(r) /\ Same(r)
  \/ WantsToClose(r) /\ ~RowLocked(r)
  \/ WantsToInsert(r) /\ ~IndexBusy(r)
  \/ pc[r] = "looping" /\ pos[r] > Len(ControlOrder)

\* As long as a check is in progress, one of those in progress can go on, and
\* what holds it up is never anything but a lock: every state a statement of
\* run_check can meet is handled by it.
THEOREM SomeRunIsReady ==
  Spec => []((\E r \in Runs : pc[r] \in Active)
               => \E r \in Runs : pc[r] \in Active /\ Ready(r))
<1>1. ASSUME Inv, NEW r \in Runs, pc[r] \in Active, ~Waiting(r) PROVE Ready(r)
  <2>1. LatestAnswers # {}
    BY <1>1, AnswersExist DEF Inv
  <2>2. pos[r] \in Nat /\ Len(ControlOrder) \in Nat
    BY <1>1, ProgressBounded, Order_ DEF Inv, Size
  <2>3. pc[r] \in {"begun", "answered", "looping", "replacing"}
    BY <1>1 DEF Active
  <2> QED
    BY <1>1, <2>1, <2>2, <2>3
       DEF Ready, Waiting, InLoop, WantsToClose, WantsToInsert
<1>2. Inv /\ NoWaitingCircle =>
        ((\E r \in Runs : pc[r] \in Active)
           => \E r \in Runs : pc[r] \in Active /\ Ready(r))
  BY <1>1 DEF NoWaitingCircle
<1> QED
  BY <1>2, Invariance, NoDeadlock, PTL

\* How much of its program a run has behind it.
Mark(r) ==
  IF pc[r] = "idle" THEN 0
  ELSE IF pc[r] = "begun" THEN 1
  ELSE IF pc[r] = "answered" THEN 2
  ELSE IF pc[r] = "looping" THEN 2 * pos[r] + 1
  ELSE IF pc[r] = "replacing" THEN 2 * pos[r] + 2
  ELSE 2 * Size + 4

LEMMA MarkBounded ==
  ASSUME TypeOK, NEW r \in Runs
  PROVE  Mark(r) \in 0..(2 * Size + 4)
<1>1. pos[r] \in 1..(Size + 1) /\ Size \in Nat
  BY Order_ DEF TypeOK, Size
<1> QED
  BY <1>1 DEF Mark

Forward(r) == Mark(r) < Mark(r)'

\* A run's own steps take it forward.
LEMMA WorkAdvances ==
  ASSUME Inv, NEW r \in Runs, Work(r) \/ Fail(r)
  PROVE  Forward(r)
<1>1. /\ pos[r] \in Nat /\ Size \in Nat /\ pos[r] <= Size + 1
      /\ pos \in [Runs -> 1..(Size + 1)] /\ pc \in [Runs -> Phases]
  BY Order_ DEF Inv, TypeOK, Size
<1>2. pc[r] = "replacing" => pos[r] <= Size
  BY DEF Inv, RunInv, RunOK, Replacing
<1>3. Size' = Size
  BY DEF Size
<1>4. CASE ReadAnswers(r) \/ ReadFindings(r)
  <2>1. \/ pc[r] = "begun" /\ pc'[r] = "answered"
        \/ pc[r] = "answered" /\ pc'[r] = "looping" /\ pos'[r] = pos[r]
    BY <1>1, <1>4 DEF ReadAnswers, ReadFindings
  <2>2. pos[r] >= 1
    BY <1>1
  <2> QED
    BY <1>1, <2>1, <2>2 DEF Forward, Mark
<1>5. CASE Unchanged(r)
  <2>1. pc[r] = "looping" /\ pc'[r] = "looping" /\ pos'[r] = pos[r] + 1
    BY <1>1, <1>5 DEF Unchanged, InLoop, Advance
  <2> QED
    BY <1>1, <2>1 DEF Forward, Mark
<1>6. CASE CloseOld(r)
  <2>1. pc[r] = "looping" /\ pc'[r] = "replacing" /\ pos'[r] = pos[r]
    BY <1>1, <1>6 DEF CloseOld, WantsToClose, InLoop, localVars
  <2> QED
    BY <1>1, <2>1 DEF Forward, Mark
<1>7. CASE InsertNew(r)
  <2>1. /\ pc[r] \in {"looping", "replacing"}
        /\ pc'[r] = "looping" /\ pos'[r] = pos[r] + 1
    BY <1>1, <1>7 DEF InsertNew, WantsToInsert, InLoop, Advance
  <2> QED
    BY <1>1, <2>1 DEF Forward, Mark
<1>8. CASE Commit(r) \/ (Abort(r) /\ pc[r] \in Active)
  <2>1. pc[r] \in Active /\ pc'[r] \in {"committed", "failed"}
    BY <1>1, <1>8 DEF Commit, Abort, Active
  <2> QED
    BY <1>1, <1>2, <1>3, <2>1 DEF Forward, Mark, Active
<1>9. RangeViolation(r) \/ UniqueViolation(r) \/ Fail(r)
        => Abort(r) /\ pc[r] \in Active
  BY DEF RangeViolation, UniqueViolation, Fail, WantsToClose, WantsToInsert,
     InLoop, Active
<1> QED
  BY <1>4, <1>5, <1>6, <1>7, <1>8, <1>9 DEF Work

\* Nobody else takes it back.
LEMMA OthersStay ==
  ASSUME TypeOK, NEW r \in Runs, NEW s \in Runs, s # r,
         Begin(r) \/ Work(r) \/ Fail(r)
  PROVE  pc'[s] = pc[s] /\ pos'[s] = pos[s]
BY DEF TypeOK, Begin, Work, Fail, RangeViolation, UniqueViolation, Abort,
       ReadAnswers, ReadFindings, Unchanged, CloseOld, InsertNew, Commit,
       Advance, Forget, localVars

\* A check never goes round again: every statement takes its run forward, and
\* there is a last one (MarkBounded), so with SomeRunIsReady only a scheduler
\* that ignores a run that could go on can keep checks from ending.
THEOREM RunsAdvance ==
  Spec => [][\A r \in Runs :
               /\ Work(r) \/ Fail(r) => Forward(r)
               /\ Mark(r) <= Mark(r)']_vars
<1> DEFINE OnlyForward == \A r \in Runs :
                            /\ Work(r) \/ Fail(r) => Forward(r)
                            /\ Mark(r) <= Mark(r)'
<1>1. Inv /\ Inv' /\ [Next]_vars => [OnlyForward]_vars
  <2> SUFFICES ASSUME Inv, Inv', Next, NEW r \in Runs
               PROVE  /\ Work(r) \/ Fail(r) => Forward(r)
                      /\ Mark(r) <= Mark(r)'
    OBVIOUS
  <2>1. Mark(r) \in Int /\ Mark(r)' \in Int
    <3>1. Mark(r) \in 0..(2 * Size + 4) /\ Size \in Nat
      BY MarkBounded, Order_ DEF Inv
    <3>2. Mark(r)' \in Int
      BY Order_ DEF Mark, Inv, TypeOK, Size
    <3> QED
      BY <3>1, <3>2
  <2>2. CASE Work(r) \/ Fail(r)
    BY <2>1, <2>2, WorkAdvances DEF Forward
  <2>3. CASE Begin(r)
    <3>1. pc[r] = "idle" /\ pc'[r] \in {"begun", "failed"}
      BY <2>3 DEF Begin, Inv, TypeOK
    <3> QED
      BY <2>2, <3>1, Order_ DEF Mark
  <2>4. CASE ~(Begin(r) \/ Work(r) \/ Fail(r))
    <3>1. pc'[r] = pc[r] /\ pos'[r] = pos[r]
      <4>1. CASE \E s \in Runs \ {r} : Begin(s) \/ Work(s) \/ Fail(s)
        BY <4>1, OthersStay DEF Inv
      <4>2. CASE \/ CreateTenant
                 \/ \E s \in Submissions : \/ OpenSubmission(s)
                                          \/ RejectSubmission(s)
                                          \/ RecordAnswers(s)
        BY <4>2 DEF CreateTenant, OpenSubmission, RejectSubmission,
                    RecordAnswers, localVars
      <4> QED
        BY <2>4, <4>1, <4>2 DEF Next
    <3> QED
      BY <2>1, <2>4, <3>1 DEF Mark, Size
  <2> QED
    BY <2>2, <2>3, <2>4
<1> QED
  BY <1>1, Invariance, PTL DEF Spec
=============================================================================
