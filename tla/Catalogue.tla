------------------------------ MODULE Catalogue ------------------------------
(***************************************************************************)
(* The seeded catalogue, three times over: the rows migrations 0003 and    *)
(* 0004 put into the database (read by checks.py, answers.py and           *)
(* scoring.py), the copy the running application keeps in catalog.py (read *)
(* by the explanation endpoint), and the question lists of decision.py.    *)
(* Every code stands without its prefix, PDPL- or Q-.                      *)
(***************************************************************************)
EXTENDS Naturals, SequencesExt

\* The rows of controls: code -> severity_weight, in hundredths.
SeedControls ==
  "ART4-DSR-ACCESS"         :> 700 @@ "ART4-DSR-CORRECT"        :> 600 @@
  "ART4-DSR-DELETE"         :> 700 @@ "ART5-LAWFUL-BASIS"       :> 900 @@
  "ART12-PRIVACY-NOTICE"    :> 700 @@ "ART19-SECURITY-MEASURES" :> 900 @@
  "ART20-BREACH-NOTIFY-72H" :> 1000 @@ "ART25-RETENTION-LIMITS" :> 600 @@
  "ART29-CROSS-BORDER"      :> 800 @@ "ART31-ROPA"              :> 500

\* The rows of questions: code -> control and display_order.
Row(control, order) == [control |-> control, order |-> order]

SeedQuestions ==
  "ART12-NOTICE-EXISTS"     :> Row("ART12-PRIVACY-NOTICE", 1) @@
  "ART12-NOTICE-PURPOSES"   :> Row("ART12-PRIVACY-NOTICE", 2) @@
  "ART12-NOTICE-RECIPIENTS" :> Row("ART12-PRIVACY-NOTICE", 3) @@
  "ART12-NOTICE-RIGHTS"     :> Row("ART12-PRIVACY-NOTICE", 4) @@
  "ART4-ACCESS-PROCESS"     :> Row("ART4-DSR-ACCESS", 1) @@
  "ART4-ACCESS-TIMEFRAME"   :> Row("ART4-DSR-ACCESS", 2) @@
  "ART20-BREACH-PROCEDURE"  :> Row("ART20-BREACH-NOTIFY-72H", 1) @@
  "ART20-BREACH-72H"        :> Row("ART20-BREACH-NOTIFY-72H", 2) @@
  "ART31-ROPA-MAINTAINED"   :> Row("ART31-ROPA", 1)

\* SEEDED_CONTROLS of catalog.py, in its order.
CatalogueControls == <<
  <<"ART4-DSR-ACCESS", 700>>, <<"ART4-DSR-CORRECT", 600>>,
  <<"ART4-DSR-DELETE", 700>>, <<"ART5-LAWFUL-BASIS", 900>>,
  <<"ART12-PRIVACY-NOTICE", 700>>, <<"ART19-SECURITY-MEASURES", 900>>,
  <<"ART20-BREACH-NOTIFY-72H", 1000>>, <<"ART25-RETENTION-LIMITS", 600>>,
  <<"ART29-CROSS-BORDER", 800>>, <<"ART31-ROPA", 500>> >>

\* SEEDED_QUESTIONS of catalog.py, in its order.
CatalogueQuestions == <<
  <<"ART12-NOTICE-EXISTS", Row("ART12-PRIVACY-NOTICE", 1)>>,
  <<"ART12-NOTICE-PURPOSES", Row("ART12-PRIVACY-NOTICE", 2)>>,
  <<"ART12-NOTICE-RECIPIENTS", Row("ART12-PRIVACY-NOTICE", 3)>>,
  <<"ART12-NOTICE-RIGHTS", Row("ART12-PRIVACY-NOTICE", 4)>>,
  <<"ART4-ACCESS-PROCESS", Row("ART4-DSR-ACCESS", 1)>>,
  <<"ART4-ACCESS-TIMEFRAME", Row("ART4-DSR-ACCESS", 2)>>,
  <<"ART20-BREACH-PROCEDURE", Row("ART20-BREACH-NOTIFY-72H", 1)>>,
  <<"ART20-BREACH-72H", Row("ART20-BREACH-NOTIFY-72H", 2)>>,
  <<"ART31-ROPA-MAINTAINED", Row("ART31-ROPA", 1)>> >>

\* _RULES of decision.py: control -> the questions its rule reads, in order.
Rules ==
  "ART12-PRIVACY-NOTICE" :> <<"ART12-NOTICE-EXISTS", "ART12-NOTICE-PURPOSES",
                              "ART12-NOTICE-RECIPIENTS", "ART12-NOTICE-RIGHTS">> @@
  "ART4-DSR-ACCESS" :> <<"ART4-ACCESS-PROCESS", "ART4-ACCESS-TIMEFRAME">> @@
  "ART20-BREACH-NOTIFY-72H" :> <<"ART20-BREACH-PROCEDURE", "ART20-BREACH-72H">> @@
  "ART31-ROPA" :> <<"ART31-ROPA-MAINTAINED">>

-----------------------------------------------------------------------------
(* The lookups of catalog.py                                               *)

\* _CONTROLS_BY_CODE and _BY_CODE: of two rows with one code the last wins.
ByCode(rows) ==
  [code \in {rows[i][1] : i \in DOMAIN rows} |->
     LET i == CHOOSE i \in DOMAIN rows :
                /\ rows[i][1] = code
                /\ \A j \in DOMAIN rows : rows[j][1] = code => j <= i
     IN rows[i][2]]

ControlByCode == ByCode(CatalogueControls)
QuestionByCode == ByCode(CatalogueQuestions)

\* question_codes_for_control: the control's questions in display order.
QuestionCodesFor(c) ==
  SetToSortSeq({q \in DOMAIN QuestionByCode : QuestionByCode[q].control = c},
               LAMBDA p, q : QuestionByCode[p].order < QuestionByCode[q].order)

\* The order of the controls' codes, ORDER BY code.
CodeOrder ==
  <<"ART12-PRIVACY-NOTICE", "ART19-SECURITY-MEASURES", "ART20-BREACH-NOTIFY-72H",
    "ART25-RETENTION-LIMITS", "ART29-CROSS-BORDER", "ART31-ROPA",
    "ART4-DSR-ACCESS", "ART4-DSR-CORRECT", "ART4-DSR-DELETE", "ART5-LAWFUL-BASIS">>
CodePlace(c) == CHOOSE i \in DOMAIN CodeOrder : CodeOrder[i] = c

\* prompts_ar_for: every code once, by control code and display order,
\* whatever order the caller had.
PromptsFor(codes) ==
  LET Precedes(p, q) ==
        LET a == QuestionByCode[p] b == QuestionByCode[q] IN
        \/ CodePlace(a.control) < CodePlace(b.control)
        \/ a.control = b.control /\ a.order < b.order
  IN SetToSortSeq(codes, Precedes)

-----------------------------------------------------------------------------
\* The copies agree: the application's catalogue with the database's rows,
\* and the rules with the questions of their control, in display order.
ASSUME CatalogueMatchesSeed ==
  /\ ControlByCode = SeedControls
  /\ QuestionByCode = SeedQuestions
  /\ DOMAIN Rules = {SeedQuestions[q].control : q \in DOMAIN SeedQuestions}
  /\ \A c \in DOMAIN Rules : QuestionCodesFor(c) = Rules[c]

\* Whatever questions of a rule are unsatisfied, each has its prompt, and they
\* come in the order the rule asks them.
ASSUME PromptsFollowTheRule ==
  \A c \in DOMAIN Rules : \A Q \in SUBSET ToSet(Rules[c]) :
    PromptsFor(Q) = SelectSeq(Rules[c], LAMBDA q : q \in Q)
=============================================================================
