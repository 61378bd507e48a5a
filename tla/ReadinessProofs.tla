--------------------------- MODULE ReadinessProofs ---------------------------
(***************************************************************************)
(* What a reader of reports may rely on, for any number of controls, runs  *)
(* and submissions.  A reader's invariant: unless the control lapsed, its  *)
(* status is ranked as the one shown was, and no worse without an alert.   *)
(* A commit keeps it because its alert is about the very step the commit   *)
(* makes visible (CheckRunsProofs!CommitVerdicts).  And what has a verdict *)
(* has all its answers, for good: only a run that missed some of them can  *)
(* take the verdict away.                                                  *)
(***************************************************************************)
EXTENDS OverlapProofs, Readiness

StatusNow(c) ==
  IF CurrentVerdicts[c] = Nothing THEN "not_assessed" ELSE CurrentVerdicts[c]

OneRow(c) == \E s \in Verdicts : {t \in Verdicts : <<c, t>> \in shown} = {s}

Kept(c) ==
  \A s \in Ranked :
    <<c, s>> \in shown /\ c \notin lapsed =>
      /\ StatusNow(c) \in Ranked
      /\ c \notin alerted => ~IsWorsening(s, StatusNow(c))

ReaderInv == reported => \A c \in Controls : OneRow(c) /\ Kept(c)

\* Not getting worse is transitive on ranked statuses.
LEMMA NoWorseTwice ==
  ASSUME NEW a \in Ranked, NEW b \in Ranked, NEW d \in Ranked,
         ~IsWorsening(a, b), ~IsWorsening(b, d)
  PROVE  ~IsWorsening(a, d)
  BY DEF IsWorsening, Severity, Ranked

\* A control's rows are its own.
LEMMA RowsOfOne ==
  ASSUME NEW c \in Controls, NEW t
  PROVE  <<c, t>> \in StatusRows <=> <<c, t>> \in RowsOf(c, CurrentRuns(c))
<1>1. ASSUME NEW d \in Controls, <<c, t>> \in RowsOf(d, CurrentRuns(d))
      PROVE  d = c
  BY <1>1 DEF RowsOf
<1>2. QED
  BY <1>1 DEF StatusRows

\* The report shows each control's status, whatever run wrote it.
LEMMA RowsShowStatus ==
  ASSUME Inv, NEW c \in Controls
  PROVE  /\ StatusNow(c) \in Verdicts
         /\ \A t \in Verdicts : <<c, t>> \in StatusRows <=> t = StatusNow(c)
<1>1. CASE CurrentRuns(c) = {}
  <2>1. CurrentVerdicts[c] = Nothing
    BY <1>1, SeenNowIs DEF CurrentVerdicts
  <2>2. StatusNow(c) = "not_assessed"
    BY <2>1 DEF StatusNow
  <2>3. "not_assessed" \in Verdicts
    BY DEF Verdicts
  <2>4. QED
    BY <1>1, <2>2, <2>3, RowsOfOne DEF RowsOf
<1>2. CASE CurrentRuns(c) # {}
  <2>1. PICK q \in CurrentRuns(c) : TRUE
    BY <1>2
  <2>2. CurrentRuns(c) = {q} /\ q \in Runs /\ q # NoRun
    BY <2>1, CheckAssumption
       DEF Inv, RunInv, History, OneCurrent, CurrentRuns
  <2>3. wrote[q][c] \in Verdicts
    BY <2>1 DEF Inv, TypeOK, CurrentRuns, Current
  <2>4. CurrentVerdicts[c] = wrote[q][c]
    BY <2>2, SeenNowIs DEF CurrentVerdicts
  <2>5. StatusNow(c) = wrote[q][c]
    BY <2>3, <2>4, NothingIsNoVerdict DEF StatusNow
  <2>6. QED
    BY <2>2, <2>3, <2>5, RowsOfOne DEF RowsOf
<1>3. QED
  BY <1>1, <1>2

LEMMA ReportKeeps ==
  ASSUME Inv, Report
  PROVE  ReaderInv'
<1>1. /\ shown' = StatusRows /\ alerted' = {} /\ lapsed' = {}
      /\ UNCHANGED vars
  BY DEF Report
<1>2. SUFFICES ASSUME NEW c \in Controls PROVE OneRow(c)' /\ Kept(c)'
  BY DEF ReaderInv
<1>3. StatusNow(c)' = StatusNow(c)
  BY <1>1 DEF vars, writeVars, StatusNow, CurrentVerdicts, SeenNow, CurrentRuns,
              Current, Committed
<1>4. /\ StatusNow(c) \in Verdicts
      /\ \A t \in Verdicts : <<c, t>> \in shown' <=> t = StatusNow(c)
  BY <1>1, RowsShowStatus
<1>5. OneRow(c)'
  BY <1>4 DEF OneRow
<1>6. Kept(c)'
  <2>1. SUFFICES ASSUME NEW s \in Ranked, <<c, s>> \in shown'
                 PROVE  StatusNow(c) \in Ranked /\ ~IsWorsening(s, StatusNow(c))
    BY <1>3 DEF Kept
  <2>2. s = StatusNow(c)
    BY <1>4, <2>1 DEF Verdicts
  <2>3. QED
    BY <2>2 DEF IsWorsening, Severity, Ranked
<1>7. QED
  BY <1>5, <1>6

LEMMA UnseenKeeps ==
  ASSUME Inv, Inv', ReaderInv, UNCHANGED readerVars,
         UNCHANGED vars \/ StepUnseen
  PROVE  ReaderInv'
<1>1. PublishedRuns' = PublishedRuns
  BY DEF StepUnseen, PublishedRuns, Committed, vars
<1>2. [Ledger!Next]_Ledger!vars
  BY LedgerNext DEF StepUnseen
<1>3. ~Ledger!Next
  BY <1>1 DEF Ledger!Next, Ledger!Publish
<1>4. CurrentVerdicts' = CurrentVerdicts
  BY <1>2, <1>3 DEF Ledger!vars
<1>5. \A c \in Controls : StatusNow(c)' = StatusNow(c)
  BY <1>4 DEF StatusNow
<1>6. QED
  BY <1>5 DEF readerVars, ReaderInv, OneRow, Kept

LEMMA CommitSeenKeeps ==
  ASSUME Inv, Inv', ReaderInv, NEW r \in Runs, CommitSeen(r)
  PROVE  ReaderInv'
<1>1. /\ shown' = shown /\ reported' = reported
      /\ alerted' = alerted \cup enqueued[r]
      /\ lapsed' = lapsed \cup {c \in Controls : wrote[r][c] = "not_assessed"}
      /\ Commit(r)
  BY DEF CommitSeen
<1>2. SUFFICES ASSUME reported, NEW c \in Controls PROVE OneRow(c)' /\ Kept(c)'
  BY <1>1 DEF ReaderInv
<1>3. OneRow(c) /\ Kept(c)
  BY <1>2 DEF ReaderInv
<1>4. OneRow(c)'
  BY <1>1, <1>3 DEF OneRow
<1>5. SUFFICES ASSUME NEW s \in Ranked, <<c, s>> \in shown, c \notin lapsed'
               PROVE  /\ StatusNow(c)' \in Ranked
                      /\ c \notin alerted' => ~IsWorsening(s, StatusNow(c)')
  BY <1>1, <1>4 DEF Kept
<1>6. /\ StatusNow(c) \in Ranked
      /\ c \notin alerted => ~IsWorsening(s, StatusNow(c))
  BY <1>1, <1>3, <1>5 DEF Kept
<1>7. /\ CurrentVerdicts'[c] = IF wrote[r][c] = Nothing
                                 THEN CurrentVerdicts[c] ELSE wrote[r][c]
      /\ CurrentVerdicts'[c] \in Verdicts
      /\ c \in enqueued[r] <=> IsWorsening(CurrentVerdicts[c], CurrentVerdicts'[c])
  BY <1>1, CommitVerdicts
<1>8. CurrentVerdicts[c] = StatusNow(c)
  BY <1>6 DEF StatusNow, Ranked
<1>9. StatusNow(c)' = CurrentVerdicts'[c]
  BY <1>7, NothingIsNoVerdict DEF StatusNow
<1>10. wrote[r][c] # "not_assessed"
  BY <1>1, <1>5
<1>11. StatusNow(c)' \in Ranked
  BY <1>6, <1>7, <1>8, <1>9, <1>10 DEF Verdicts
<1>12. ASSUME c \notin alerted' PROVE ~IsWorsening(s, StatusNow(c)')
  <2>1. c \notin alerted /\ c \notin enqueued[r]
    BY <1>1, <1>12
  <2>2. ~IsWorsening(StatusNow(c), StatusNow(c)')
    BY <1>7, <1>8, <1>9, <2>1
  <2>3. QED
    BY <1>6, <1>11, <2>1, <2>2, NoWorseTwice
<1>13. QED
  BY <1>11, <1>12

\* The checks do not notice the reader.
THEOREM ReaderIsPassive == RSpec => Spec
<1>1. RInit => Init
  BY DEF RInit
<1>2. [RNext]_<<vars, readerVars>> => [Next]_vars
  BY DEF RNext, Report, StepUnseen, CommitSeen, Next, Work
<1>3. QED
  BY <1>1, <1>2, PTL DEF RSpec, Spec

\* No control gets worse between two reports without an alert, unless it was
\* not assessed in between: for any number of overlapping runs, submissions
\* and failures, whatever statements interleave.
THEOREM NothingWorseInSilence == RSpec => []DeteriorationIsAlerted
<1>1. RInit => ReaderInv
  BY DEF RInit, ReaderInv
<1>2. Inv /\ Inv' /\ ReaderInv /\ [RNext]_<<vars, readerVars>> => ReaderInv'
  <2> SUFFICES ASSUME Inv, Inv', ReaderInv, [RNext]_<<vars, readerVars>>
               PROVE  ReaderInv'
    OBVIOUS
  <2>1. CASE Report
    BY <2>1, ReportKeeps
  <2>2. CASE StepUnseen
    BY <2>2, UnseenKeeps DEF StepUnseen
  <2>3. ASSUME NEW r \in Runs, CommitSeen(r) PROVE ReaderInv'
    BY <2>3, CommitSeenKeeps
  <2>4. CASE UNCHANGED <<vars, readerVars>>
    BY <2>4, UnseenKeeps
  <2>5. QED
    BY <2>1, <2>2, <2>3, <2>4 DEF RNext
<1>3. Inv /\ ReaderInv => DeteriorationIsAlerted
  <2> SUFFICES ASSUME Inv, ReaderInv, reported, NEW c \in Controls
               PROVE  /\ OneRow(c)
                      /\ \A s, t \in Verdicts :
                           <<c, s>> \in shown /\ <<c, t>> \in StatusRows
                             /\ IsWorsening(s, t) => c \in alerted \cup lapsed
    BY DEF DeteriorationIsAlerted, OneRow
  <2>1. OneRow(c) /\ Kept(c)
    BY DEF ReaderInv
  <2>2. SUFFICES ASSUME NEW s \in Verdicts, NEW t \in Verdicts,
                        <<c, s>> \in shown, <<c, t>> \in StatusRows,
                        IsWorsening(s, t)
                 PROVE  c \in alerted \cup lapsed
    BY <2>1
  <2>3. t = StatusNow(c) /\ s \in Ranked
    BY <2>2, RowsShowStatus DEF IsWorsening
  <2>4. QED
    BY <2>1, <2>2, <2>3 DEF Kept
<1>4. QED
  BY <1>1, <1>2, <1>3, ReaderIsPassive, Invariance, PTL DEF RSpec

-----------------------------------------------------------------------------
(* Lapses                                                                  *)

\* The questions answered so far, and the controls whose rule they satisfy.
Asked == UNION {DOMAIN given[s] : s \in Recorded}
Settled(c) == c \in DOMAIN RuleQuestions /\ RuleQuestions[c] \subseteq Asked

AnsweredRun(r) ==
  /\ pc[r] \in Active \ {"begun"} => DOMAIN answers[r] \subseteq Asked
  /\ \A c \in Controls : wrote[r][c] \in Ranked => Settled(c)

AnsweredInv == \A r \in Runs : AnsweredRun(r)

LapseInv ==
  /\ \A c \in Controls, s \in Ranked : <<c, s>> \in shown => Settled(c)
  /\ LapsesAreStale

\* A control has a verdict exactly if its rule's questions are answered.
LEMMA RankedIfAnswered ==
  ASSUME NEW m, NEW c
  PROVE  Decide(m, c) \in Ranked <=>
           c \in DOMAIN RuleQuestions /\ RuleQuestions[c] \subseteq DOMAIN m
<1>1. CASE c \notin DOMAIN RuleQuestions
  BY <1>1 DEF Decide, ControlDecision, Ranked
<1>2. CASE c \in DOMAIN RuleQuestions
  <2>1. Missing(m, RuleQuestions[c]) = {} <=> RuleQuestions[c] \subseteq DOMAIN m
    BY DEF Missing
  <2>2. Decide(m, c) \in Ranked <=> Missing(m, RuleQuestions[c]) = {}
    BY <1>2 DEF Decide, ControlDecision, EvaluateYesNo, Ranked
  <2> QED
    BY <1>2, <2>1, <2>2
<1> QED
  BY <1>1, <1>2

LEMMA LatestAreAsked ==
  ASSUME NEW m \in LatestAnswers
  PROVE  DOMAIN m = Asked
BY DEF LatestAnswers, Asked

\* Answers are never taken back.
LEMMA AskedGrows == TypeOK /\ [Next]_vars => Asked \subseteq Asked'
<1> SUFFICES ASSUME TypeOK, [Next]_vars PROVE Asked \subseteq Asked'
  OBVIOUS
<1>1. \A s \in Recorded : s \in Recorded' /\ given'[s] = given[s]
  <2>1. ASSUME UNCHANGED subVars
        PROVE  \A s \in Recorded : s \in Recorded' /\ given'[s] = given[s]
    BY <2>1 DEF subVars, Recorded
  <2>2. ASSUME NEW s \in Submissions,
               OpenSubmission(s) \/ RejectSubmission(s) \/ RecordAnswers(s)
        PROVE  \A t \in Recorded : t \in Recorded' /\ given'[t] = given[t]
    <3>1. \A t \in Submissions \ {s} : stage'[t] = stage[t] /\ given'[t] = given[t]
      BY <2>2 DEF OpenSubmission, RejectSubmission, RecordAnswers, TypeOK
    <3>2. s \notin Recorded
      BY <2>2 DEF OpenSubmission, RejectSubmission, RecordAnswers, Recorded
    <3> QED
      BY <3>1, <3>2 DEF Recorded
  <2>3. ASSUME NEW r \in Runs, Begin(r) \/ Work(r) \/ Fail(r)
        PROVE  UNCHANGED subVars
    <3>1. Begin(r) \/ ReadAnswers(r) \/ ReadFindings(r) \/ CloseOld(r)
            => UNCHANGED subVars
      BY DEF Begin, ReadAnswers, ReadFindings, CloseOld
    <3>2. Unchanged(r) \/ InsertNew(r) => UNCHANGED subVars
      BY DEF Unchanged, InsertNew, Advance
    <3>3. Commit(r) \/ Abort(r) => UNCHANGED subVars
      BY DEF Commit, Abort, Forget
    <3> QED
      BY <2>3, <3>1, <3>2, <3>3
      DEF Work, Fail, RangeViolation, UniqueViolation
  <2>4. CreateTenant \/ UNCHANGED vars => UNCHANGED subVars
    BY DEF CreateTenant, vars
  <2> QED
    BY <2>1, <2>2, <2>3, <2>4 DEF Next
<1>2. ASSUME NEW q \in Asked PROVE q \in Asked'
  <2>1. PICK s \in Recorded : q \in DOMAIN given[s]
    BY DEF Asked
  <2> QED
    BY <1>1, <2>1 DEF Asked
<1> QED
  BY <1>2

LEMMA AnsweredKept ==
  ASSUME Asked \subseteq Asked', NEW q \in Runs, AnsweredRun(q),
         wrote'[q] = wrote[q],
         pc'[q] \in Active \ {"begun"} =>
           pc[q] \in Active \ {"begun"} /\ answers'[q] = answers[q]
  PROVE  AnsweredRun(q)'
BY DEF AnsweredRun, Settled

LEMMA AnsweredNext ==
  ASSUME Inv, Inv', AnsweredInv, [Next]_vars
  PROVE  AnsweredInv'
<1> USE DEF Inv, TypeOK
<1>1. Asked \subseteq Asked'
  BY AskedGrows
<1>2. ASSUME UNCHANGED <<pc, answers, wrote>> PROVE AnsweredInv'
  BY <1>1, <1>2, AnsweredKept DEF AnsweredInv
<1>3. ASSUME NEW r \in Runs, Begin(r) \/ Work(r) \/ Fail(r)
      PROVE  AnsweredInv'
  <2>1. \A q \in Runs \ {r} : SameRun(q)
    <3>1. CASE Begin(r) \/ ReadAnswers(r) \/ ReadFindings(r)
      BY <3>1 DEF Begin, ReadAnswers, ReadFindings, SameRun, localVars, writeVars
    <3>2. CASE Unchanged(r) \/ CloseOld(r) \/ InsertNew(r)
      BY <3>2 DEF Unchanged, CloseOld, InsertNew, Advance, SameRun, localVars,
         writeVars
    <3>3. CASE Commit(r) \/ Abort(r)
      BY <3>3 DEF Commit, Abort, Forget, SameRun, writeVars
    <3> QED
      BY <1>3, <3>1, <3>2, <3>3
      DEF Work, Fail, RangeViolation, UniqueViolation
  <2>2. \A q \in Runs \ {r} : AnsweredRun(q)'
    BY <1>1, <2>1, AnsweredKept DEF AnsweredInv, SameRun
  <2>3. CASE ReadAnswers(r)
    <3>1. answers'[r] \in LatestAnswers /\ wrote'[r] = wrote[r]
      BY <2>3 DEF ReadAnswers, writeVars
    <3> QED
      BY <1>1, <2>2, <3>1, LatestAreAsked DEF AnsweredInv, AnsweredRun, Settled
  <2>4. CASE InsertNew(r)
    <3>1. /\ pc[r] \in Working /\ At(r) \in Controls
          /\ wrote' = [wrote EXCEPT ![r][At(r)] = Decide(answers[r], At(r))]
          /\ answers' = answers
      BY <2>4, InsertReplacesSeen DEF InsertNew, Advance, NewStatus
    <3>2. DOMAIN answers[r] \subseteq Asked
      BY <3>1 DEF AnsweredInv, AnsweredRun, Working, Active
    <3>3. ASSUME NEW c \in Controls, wrote'[r][c] \in Ranked PROVE Settled(c)'
      <4>1. CASE c = At(r)
        <5>1. Decide(answers[r], c) \in Ranked
          BY <3>1, <3>3, <4>1
        <5> QED
          BY <1>1, <3>2, <5>1, RankedIfAnswered DEF Settled
      <4>2. CASE c # At(r)
        BY <1>1, <3>1, <3>3, <4>2 DEF AnsweredInv, AnsweredRun, Settled
      <4> QED
        BY <4>1, <4>2
    <3> QED
      BY <1>1, <2>2, <3>1, <3>2, <3>3 DEF AnsweredInv, AnsweredRun
  <2>5. CASE Abort(r)
    <3>1. pc'[r] = "failed" /\ \A c \in Controls : wrote'[r][c] = Nothing
      BY <2>5 DEF Abort
    <3> QED
      BY <2>2, <3>1 DEF AnsweredInv, AnsweredRun, Active, Nothing, Ranked
  <2>6. CASE \/ Begin(r) \/ ReadFindings(r) \/ Unchanged(r) \/ CloseOld(r)
             \/ Commit(r)
    <3>1. /\ wrote' = wrote
          /\ pc'[r] \in Active \ {"begun"} =>
               pc[r] \in Active \ {"begun"} /\ answers'[r] = answers[r]
      BY <2>6 DEF Begin, ReadFindings, Unchanged, CloseOld, Commit, WantsToClose,
         InLoop, Advance, Active, localVars, writeVars
    <3> QED
      BY <1>1, <2>2, <3>1, AnsweredKept DEF AnsweredInv
  <2> QED
    BY <1>3, <2>3, <2>4, <2>5, <2>6
    DEF Work, Fail, RangeViolation, UniqueViolation
<1>4. ASSUME NEW s \in Submissions,
             OpenSubmission(s) \/ RejectSubmission(s) \/ RecordAnswers(s)
      PROVE  UNCHANGED <<pc, answers, wrote>>
  BY <1>4 DEF OpenSubmission, RejectSubmission, RecordAnswers, localVars, writeVars
<1>5. CreateTenant \/ UNCHANGED vars => UNCHANGED <<pc, answers, wrote>>
  BY DEF CreateTenant, vars, localVars, writeVars
<1> QED
  BY <1>2, <1>3, <1>4, <1>5 DEF Next

LEMMA LapseNext ==
  ASSUME Inv, FreshInv, AnsweredInv, LapseInv, [RNext]_<<vars, readerVars>>
  PROVE  LapseInv'
<1>1. [Next]_vars
  BY DEF RNext, Report, StepUnseen, CommitSeen, Next, Work
<1>2. Asked \subseteq Asked'
  BY <1>1, AskedGrows DEF Inv
<1>3. CASE Report
  <2>1. /\ shown' = StatusRows /\ lapsed' = {} /\ UNCHANGED vars
    BY <1>3 DEF Report
  <2>2. ASSUME NEW c \in Controls, NEW s \in Ranked, <<c, s>> \in StatusRows
        PROVE  Settled(c)'
    <3>1. <<c, s>> \in RowsOf(c, CurrentRuns(c))
      BY <2>2, RowsOfOne
    <3>2. PICK q \in CurrentRuns(c) : s = wrote[q][c]
      BY <3>1 DEF RowsOf, Ranked
    <3>3. Settled(c)
      BY <3>2 DEF AnsweredInv, AnsweredRun, CurrentRuns
    <3> QED
      BY <1>2, <3>3 DEF Settled
  <2> QED
    BY <2>1, <2>2 DEF LapseInv, LapsesAreStale
<1>4. CASE UNCHANGED readerVars
  BY <1>2, <1>4 DEF LapseInv, LapsesAreStale, Settled, readerVars
<1>5. ASSUME NEW r \in Runs, CommitSeen(r) PROVE LapseInv'
  <2>1. /\ shown' = shown /\ stale' = (stale \/ overtaken[r])
        /\ lapsed' = lapsed \cup {c \in Controls : wrote[r][c] = "not_assessed"}
        /\ pc[r] = "looping"
    BY <1>5 DEF CommitSeen, Commit
  <2>2. ASSUME ~overtaken[r], NEW c \in Controls, wrote[r][c] = "not_assessed"
        PROVE  ~Settled(c)
    <3>1. FreshRun(r)
      BY DEF FreshInv
    <3>2. answers[r] \in LatestAnswers
      BY <2>1, <2>2, <3>1 DEF FreshRun, AnswersAreLatest, Active
    <3>3. wrote[r][c] = Decide(answers[r], c)
      BY <2>1, <2>2, <3>1 DEF FreshRun, WritesAnswers, Working, Nothing
    <3>4. Decide(answers[r], c) \notin Ranked
      BY <2>2, <3>3 DEF Ranked
    <3> QED
      BY <3>2, <3>4, LatestAreAsked, RankedIfAnswered DEF Settled
  <2>3. LapsesAreStale'
    <3> SUFFICES ASSUME ~stale', NEW c \in lapsed', NEW s \in Ranked,
                        <<c, s>> \in shown
                 PROVE  FALSE
      BY <2>1 DEF LapsesAreStale
    <3>1. ~stale /\ ~overtaken[r]
      BY <2>1
    <3>2. c \notin lapsed
      BY <3>1 DEF LapseInv, LapsesAreStale
    <3>3. c \in Controls /\ wrote[r][c] = "not_assessed"
      BY <2>1, <3>2
    <3> QED
      BY <2>2, <3>1, <3>3 DEF LapseInv
  <2> QED
    BY <1>2, <2>1, <2>3 DEF LapseInv, Settled
<1> QED
  BY <1>3, <1>4, <1>5 DEF RNext, StepUnseen

\* A verdict lapses only through a run whose answers were overtaken while it
\* ran: record_answers only ever adds, and every run that reads the latest
\* answers finds all that any earlier run had.
THEOREM LapsesComeFromOvertaking == RSpec => []LapsesAreStale
<1>1. RInit => LapseInv
  BY DEF RInit, LapseInv, LapsesAreStale
<1>2. Init => AnsweredInv
  BY DEF Init, AnsweredInv, AnsweredRun, Active, Nothing, Ranked
<1>3. Inv /\ FreshInv /\ AnsweredInv /\ LapseInv /\ [RNext]_<<vars, readerVars>>
        => LapseInv'
  BY LapseNext
<1>4. Inv /\ Inv' /\ AnsweredInv /\ [Next]_vars => AnsweredInv'
  BY AnsweredNext
<1>5. Spec => []AnsweredInv
  BY <1>2, <1>4, Invariance, PTL DEF Spec
<1>6. LapseInv => LapsesAreStale
  BY DEF LapseInv
<1> QED
  BY <1>1, <1>3, <1>5, <1>6, ReaderIsPassive, Invariance, FreshInvariance, PTL
     DEF RSpec
=============================================================================
