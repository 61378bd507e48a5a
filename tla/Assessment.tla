----------------------------- MODULE Assessment -----------------------------
(***************************************************************************)
(* A tenant on its own, from answers to report: it answers questions one   *)
(* at a time (record_answers), has the controls checked after each         *)
(* (run_check, without interference), and reads the readiness report.      *)
(***************************************************************************)
EXTENDS Scoring, FiniteSets, Functions

CONSTANTS Questions, RuleQuestions  \* see Decision

Engine == INSTANCE Decision

ASSUME AssessmentAssumption == Engine!RuleAssumption

VARIABLE answers  \* the latest answer to each question answered so far

avars == <<vars, answers>>

AInit == Init /\ answers = Engine!NoAnswers

Verdict(m) == [c \in Controls |-> Engine!Decide(m, c)]

\* Before the first check there are no findings.
FirstReport ==
  /\ row = 0
  /\ Load([c \in Controls |-> "not_assessed"])
  /\ UNCHANGED answers

\* A new answer, or a changed one; the findings then show the new verdicts.
Answer(q, a) ==
  /\ q \in DOMAIN answers => answers[q] # a
  /\ done
  /\ answers' = [p \in DOMAIN answers \cup {q} |-> IF p = q THEN a ELSE answers[p]]
  /\ Load(Verdict(answers'))

ANext ==
  \/ FirstReport
  \/ \E q \in Questions, a \in {"yes", "no"} : Answer(q, a)
  \/ (CountRow \/ Conclude) /\ UNCHANGED answers

ASpec == AInit /\ [][ANext]_avars

-----------------------------------------------------------------------------
(* The score by its formula, ADR-0007 section 2                            *)

ScoredIn(st) == {c \in Controls : st[c] \in Scored}
Points(st) == [c \in Controls |-> Weight[c] * Credit(st[c])]
ScoreOf(st) ==
  IF ScoredIn(st) = {} THEN {NoScore}
  ELSE Percent(SumFunctionOnSet(Points(st), ScoredIn(st)),
               2 * SumFunctionOnSet(Weight, ScoredIn(st)))

CoverageOf(st) ==
  LET scope == {c \in Controls : st[c] \notin Excluded} IN
  IF scope = {} THEN {0} ELSE Percent(Cardinality(ScoredIn(st)), Cardinality(scope))

(* Properties                                                              *)

\* Every number of a report can be recomputed from the verdicts by the formula
\* (ADR-0007, decision drivers and section 6): the loop loses no control and
\* lets none count twice, and the counts add up to the controls.
ReportIsReconstructable ==
  done =>
    /\ score \in ScoreOf(status)
    /\ coverage \in CoverageOf(status)
    /\ \A s \in Statuses : counts[s] = Cardinality({c \in Controls : status[c] = s})

\* A percentage is no higher than another: the same fraction, which at a tie
\* has two roundings, or none of its roundings is higher.
NoHigher(X, Y) == X = Y \/ \A x \in X, y \in Y : x <= y

\* What a new answer may do to the report, through rules, verdicts and
\* weights: coverage never falls; and unless a control is assessed for the
\* first time, a yes in place of a no never lowers the score, nor does a no in
\* place of a yes raise it.
AnswersMoveTheScore ==
  [][LET old == Verdict(answers)
         new == Verdict(answers')
         Turned(a) == \E q \in DOMAIN answers : answers'[q] = a /\ answers[q] # a
     IN /\ NoHigher(CoverageOf(old), CoverageOf(new))
        /\ ScoredIn(old) = ScoredIn(new) /\ ScoredIn(old) # {} =>
             /\ Turned("yes") => NoHigher(ScoreOf(old), ScoreOf(new))
             /\ Turned("no") => NoHigher(ScoreOf(new), ScoreOf(old))
    ]_answers

\* The questions a gap is explained by are the ones that stand in its way:
\* answering all of them yes makes the control compliant, or, if it was not
\* assessed, gives it a verdict; answering only some of them does neither.
GapsNameTheWayOut ==
  done =>
    \A c \in gaps \cap DOMAIN RuleQuestions :
      LET open == Engine!ControlDecision(answers, c).unsatisfied
          After(Q) == Engine!Decide([q \in DOMAIN answers \cup Q |->
                                IF q \in Q THEN "yes" ELSE answers[q]], c)
      IN \A Q \in SUBSET open :
           IF status[c] = "not_assessed"
             THEN After(Q) # "not_assessed" <=> Q = open
             ELSE After(Q) = "compliant" <=> Q = open
=============================================================================
