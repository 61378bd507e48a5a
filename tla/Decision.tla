------------------------------ MODULE Decision ------------------------------
(***************************************************************************)
(* The deterministic decision engine (services/decision.py) and the        *)
(* worsening rule (services/alerts.py), as operators on data.  Answers are *)
(* a function from the questions answered so far to "yes" or "no".         *)
(***************************************************************************)
EXTENDS Naturals

CONSTANTS
  Controls,     \* the control codes of the catalogue
  Questions,    \* the question codes of the catalogue
  RuleQuestions \* _RULES: control with a rule -> the questions its rule reads

ASSUME RuleAssumption ==
  /\ DOMAIN RuleQuestions \subseteq Controls
  /\ \A c \in DOMAIN RuleQuestions :
        RuleQuestions[c] \subseteq Questions /\ RuleQuestions[c] # {}

Ranked == {"compliant", "partial", "non_compliant"}
Verdicts == Ranked \cup {"not_assessed"}

\* Latest answers a tenant may have: some questions may be unanswered.
AnswerMaps == UNION {[Q -> {"yes", "no"}] : Q \in SUBSET Questions}
NoAnswers == [q \in {} |-> "no"]

Missing_Falsy(answers, codes) ==
  {q \in codes : q \in DOMAIN answers => answers[q] # "yes"}
Missing(answers, codes) == {q \in codes : q \notin DOMAIN answers}
Gaps(answers, codes) == {q \in codes : answers[q] # "yes"}

EvaluateYesNo_Unknown(answers, codes) ==
  [status |-> IF Missing(answers, codes) # {} THEN "unknown" ELSE "compliant",
   unsatisfied |-> {}]

\* _evaluate_yes_no: the verdict and the questions behind it.
EvaluateYesNo(answers, codes) ==
  LET missing == Missing(answers, codes)
      gaps == Gaps(answers, codes) IN
  IF missing # {} THEN [status |-> "not_assessed", unsatisfied |-> missing]
  ELSE IF gaps = {} THEN [status |-> "compliant", unsatisfied |-> {}]
  ELSE IF gaps = codes THEN [status |-> "non_compliant", unsatisfied |-> gaps]
  ELSE [status |-> "partial", unsatisfied |-> gaps]

\* build_control_decider: a control without a rule is not assessed.
ControlDecision(answers, c) ==
  IF c \in DOMAIN RuleQuestions
    THEN EvaluateYesNo(answers, RuleQuestions[c])
    ELSE [status |-> "not_assessed", unsatisfied |-> {}]

\* build_deterministic_decider: the projection that run_check uses.
Decide(answers, c) == ControlDecision(answers, c).status

Severity == [compliant |-> 3, partial |-> 2, non_compliant |-> 1]

\* is_worsening_transition: both ends ranked, and the later one lower.
IsWorsening(from, to) ==
  /\ from \in Ranked
  /\ to \in Ranked
  /\ Severity[to] < Severity[from]
=============================================================================
