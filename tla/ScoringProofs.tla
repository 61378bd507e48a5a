---------------------------- MODULE ScoringProofs ----------------------------
(***************************************************************************)
(* The readiness report, for any catalogue of at most ten controls and any *)
(* weights the schema allows.  The invariant of compute_score's loop says  *)
(* what each row already counted has contributed, and that whatever has    *)
(* been contributed comes from some row already counted.                   *)
(***************************************************************************)
EXTENDS Assessment, FiniteSums

N == Len(ControlOrder)

-----------------------------------------------------------------------------
(* Rounded percentages                                                     *)

\* A product keeps the order of its factors.
LEMMA TimesMonotone ==
  ASSUME NEW a \in Int, NEW b \in Int, NEW d \in Nat, a <= b
  PROVE  a * d <= b * d
  BY SMT

\* A rounded percentage is at most half a hundredth off.
LEMMA PercentNear ==
  ASSUME NEW num \in Nat, NEW den \in Nat, den > 0,
         NEW k \in Percent(num, den)
  PROVE  /\ k \in Nat
         /\ 2 * k * den <= 20000 * num + den
         /\ 20000 * num <= 2 * k * den + den
<1> DEFINE floor == (10000 * num) \div den
<1>1. floor \in Nat
  BY SMT
<1>2. k \in {floor, floor + 1}
  BY DEF Percent
<1>3. k \in Nat
  BY <1>1, <1>2
<1>4. 2 * k * den - 20000 * num \in (0 - den)..den
  BY DEF Percent
<1>5. 2 * k * den \in Int
  BY <1>3
<1>6. QED
  BY <1>3, <1>4, <1>5

\* A rounded percentage of a part of a whole is between 0 and 100.
LEMMA PercentRange ==
  ASSUME NEW num \in Nat, NEW den \in Nat, den > 0, num <= den,
         NEW k \in Percent(num, den)
  PROVE  /\ k \in 0..10000
         /\ 2 * k * den <= 20000 * num + den
         /\ 20000 * num <= 2 * k * den + den
<1>1. /\ k \in Nat
      /\ 2 * k * den <= 20000 * num + den
      /\ 20000 * num <= 2 * k * den + den
  BY PercentNear
<1>2. k <= 10000
  <2>1. SUFFICES ASSUME k >= 10001 PROVE FALSE
    BY <1>1
  <2>2. 20002 * den <= 2 * k * den
    BY <1>1, <2>1, TimesMonotone, 20002 <= 2 * k, 2 * k \in Int
  <2>3. QED
    BY <1>1, <2>2
<1>3. QED
  BY <1>1, <1>2

LEMMA Division ==
  ASSUME NEW a \in Nat, NEW b \in Nat, b > 0
  PROVE  b * (a \div b) <= a /\ a < b * ((a \div b) + 1)
BY SMT

\* Every fraction has a rounding.
LEMMA PercentExists ==
  ASSUME NEW num \in Nat, NEW den \in Nat, den > 0
  PROVE  Percent(num, den) # {}
<1> DEFINE floor == (10000 * num) \div den
<1>1. floor \in Nat
  BY SMT
<1>2. den * floor <= 10000 * num /\ 10000 * num < den * (floor + 1)
  <2>1. 10000 * num \in Nat
    OBVIOUS
  <2>2. QED
    BY <2>1, Division
<1>3. den * (floor + 1) = den * floor + den /\ den * floor \in Int
  BY <1>1
<1>4. 2 * floor * den = 2 * (den * floor)
  BY <1>1
<1>5. 2 * (floor + 1) * den = 2 * (den * floor) + 2 * den
  BY <1>1
<1> DEFINE Near(k) == 2 * k * den - 20000 * num \in (0 - den)..den
<1>6. Percent(num, den) = {k \in {floor, floor + 1} : Near(k)}
  BY DEF Percent
<1>7. CASE 20000 * num - 2 * (den * floor) <= den
  <2>1. Near(floor)
    BY <1>2, <1>3, <1>4, <1>7
  <2> HIDE DEF floor, Near
  <2>2. QED
    BY <1>6, <2>1
<1>8. CASE ~(20000 * num - 2 * (den * floor) <= den)
  <2>1. Near(floor + 1)
    BY <1>2, <1>3, <1>5, <1>8
  <2> HIDE DEF floor, Near
  <2>2. QED
    BY <1>6, <2>1
<1>9. QED
  BY <1>7, <1>8

\* Rounding keeps the order of the parts of one whole.
LEMMA PercentMonotone ==
  ASSUME NEW num1 \in Nat, NEW num2 \in Nat, num1 <= num2,
         NEW den \in Nat, den > 0
  PROVE  NoHigher(Percent(num1, den), Percent(num2, den))
<1>1. CASE num1 = num2
  BY <1>1 DEF NoHigher
<1>2. CASE num1 # num2
  <2>1. SUFFICES ASSUME NEW x \in Percent(num1, den), NEW y \in Percent(num2, den)
                 PROVE  x <= y
    BY DEF NoHigher
  <2>2. x \in Nat /\ 2 * x * den <= 20000 * num1 + den
    BY PercentNear
  <2>3. y \in Nat /\ 20000 * num2 <= 2 * y * den + den
    BY PercentNear
  <2>4. SUFFICES ASSUME 2 * y + 2 <= 2 * x PROVE FALSE
    BY <2>2, <2>3
  <2>5. (2 * y + 2) * den <= 2 * x * den
    BY <2>2, <2>3, <2>4, TimesMonotone, 2 * y + 2 \in Int, 2 * x \in Int
  <2>6. (2 * y + 2) * den = 2 * y * den + 2 * den
    BY <2>3
  <2>7. 2 * y * den \in Int /\ 2 * x * den \in Int
    BY <2>2, <2>3
  <2>8. QED
    BY <1>2, <2>2, <2>3, <2>5, <2>6, <2>7
<1>3. QED
  BY <1>1, <1>2

Percentages == 0..10000

LEMMA PercentIsOne ==
  ASSUME NEW num \in Nat, NEW den \in Nat, den > 0, num <= den
  PROVE  Percent(num, den) \subseteq Percentages
<1>1. SUFFICES ASSUME NEW k \in Percent(num, den) PROVE k \in 0..10000
  BY DEF Percentages
<1>2. /\ k \in 0..10000
      /\ 2 * k * den <= 20000 * num + den
      /\ 20000 * num <= 2 * k * den + den
  BY PercentRange
<1>3. QED
  BY <1>2

\* 100 is shown for the whole, and only for it if the missing part is large
\* enough to be seen; 0 is shown for nothing, and only for it if the part is
\* large enough to be seen.
LEMMA PercentEnds ==
  ASSUME NEW num \in Nat, NEW den \in Nat, den > 0, num <= den,
         NEW k \in Percent(num, den)
  PROVE  /\ num = den => k = 10000
         /\ den < 20000 * (den - num) => k # 10000
         /\ num = 0 => k = 0
         /\ den < 20000 * num => k # 0
<1>1. /\ k \in 0..10000
      /\ 2 * k * den <= 20000 * num + den
      /\ 20000 * num <= 2 * k * den + den
  BY PercentRange
<1>2. ASSUME num = den, k # 10000 PROVE FALSE
  <2>1. 2 * k * den <= 19998 * den
    BY <1>1, <1>2, TimesMonotone, 2 * k <= 19998, 2 * k \in Int
  <2>2. QED
    BY <1>1, <1>2, <2>1
<1>3. ASSUME num = 0, k # 0 PROVE FALSE
  <2>1. 2 * den <= 2 * k * den
    BY <1>1, <1>3, TimesMonotone, 2 <= 2 * k, 2 * k \in Int
  <2>2. QED
    BY <1>1, <1>3, <2>1
<1>4. QED
  BY <1>1, <1>2, <1>3

\* The order of the gap report is a strict total order, so the list is
\* determined by the set of gaps (ADR-0007 section 5).
THEOREM GapOrder ==
  ASSUME NEW c \in Controls, NEW d \in Controls, NEW e \in Controls
  PROVE  /\ ~Before(c, c)
         /\ c # d => Before(c, d) \/ Before(d, c)
         /\ Before(c, d) /\ Before(d, e) => Before(c, e)
<1>1. \A x \in Controls : Place(x) \in 1..N /\ ControlOrder[Place(x)] = x
  BY ReadinessAssumption DEF Place, N
<1>2. N \in Nat
  BY ReadinessAssumption DEF N
<1>3. \A x \in Controls : Weight[x] \in Int
  <2>1. Weight \in [Controls -> 1..1000]
    BY ReadinessAssumption
  <2>2. QED
    BY <2>1
<1>4. \A x \in Controls : Place(x) \in Int
  <2>1. SUFFICES ASSUME NEW x \in Controls PROVE Place(x) \in Int
    OBVIOUS
  <2>2. Place(x) \in 1..N
    BY <1>1
  <2>3. QED
    BY <1>2, <2>2
<1>5. c # d => Place(c) # Place(d)
  BY <1>1
<1>6. QED
  BY <1>3, <1>4, <1>5 DEF Before

-----------------------------------------------------------------------------
(* The loop                                                                *)

Handled == {j \in 1..N : j < row}
StatusAt(j) == status[ControlOrder[j]]
WeightAt(j) == Weight[ControlOrder[j]]

\* The sums, each bounded by the others.
SumsInv ==
  /\ counts \in [Statuses -> Nat]
  /\ \A s \in Statuses : counts[s] <= (IF row = 0 THEN 0 ELSE row - 1)
  /\ applicable \in Nat /\ applicable <= (IF row = 0 THEN 0 ELSE row - 1)
  /\ assessed \in Nat /\ assessed <= applicable
  /\ weighed \in Nat /\ assessed <= weighed /\ weighed <= 1000 * assessed
  /\ achieved \in Nat /\ achieved <= 2 * weighed

\* What each counted row has contributed.
Contributed ==
  \A j \in Handled :
    /\ StatusAt(j) \in Scored =>
         /\ assessed >= 1
         /\ weighed <= 1000 * (assessed - 1) + WeightAt(j)
         /\ StatusAt(j) # "compliant" => achieved + WeightAt(j) <= 2 * weighed
         /\ StatusAt(j) \in {"compliant", "partial"} => WeightAt(j) <= achieved
    /\ StatusAt(j) = "not_assessed" => assessed < applicable

\* Where each contribution comes from.
Explained ==
  /\ assessed > 0 => \E j \in Handled : StatusAt(j) \in Scored
  /\ achieved < 2 * weighed =>
       \E j \in Handled : StatusAt(j) \in Scored \ {"compliant"}
  /\ achieved > 0 =>
       \E j \in Handled : StatusAt(j) \in {"compliant", "partial"}
  /\ assessed < applicable =>
       \E j \in Handled : StatusAt(j) = "not_assessed"

ReportInv ==
  IF done
    THEN /\ row = N + 1
         /\ score \in IF assessed = 0 \/ weighed = 0 THEN {NoScore}
                      ELSE Percent(achieved, 2 * weighed)
         /\ coverage \in IF applicable = 0 THEN {0} ELSE Percent(assessed, applicable)
         /\ gaps = GapsIn(status)
    ELSE score = NoScore /\ coverage = 0 /\ gaps = {}

IInv ==
  /\ status \in [Controls -> Statuses]
  /\ row \in 0..(N + 1)
  /\ done \in BOOLEAN
  /\ SumsInv
  /\ Contributed
  /\ Explained
  /\ ReportInv

LEMMA LengthOfOrder ==
  /\ N \in Nat
  /\ N <= 10
  /\ \A j \in 1..N : /\ ControlOrder[j] \in Controls
                     /\ WeightAt(j) \in Nat
                     /\ 1 <= WeightAt(j) /\ WeightAt(j) <= 1000
<1>1. ControlOrder \in Seq(Controls) /\ Weight \in [Controls -> 1..1000]
  BY ReadinessAssumption
<1>2. N \in Nat /\ N <= 10
  BY <1>1, ResolutionAssumption DEF N
<1>3. ASSUME NEW j \in 1..N
      PROVE  /\ ControlOrder[j] \in Controls
             /\ WeightAt(j) \in Nat
             /\ 1 <= WeightAt(j) /\ WeightAt(j) <= 1000
  <2>1. ControlOrder[j] \in Controls
    BY <1>1, <1>3 DEF N
  <2>2. WeightAt(j) \in 1..1000
    BY <1>1, <2>1 DEF WeightAt
  <2>3. QED
    BY <2>1, <2>2
<1>4. QED
  BY <1>2, <1>3

LEMMA InitInv == Init => IInv
<1>1. SUFFICES ASSUME Init PROVE IInv
  OBVIOUS
<1>2. Handled = {}
  BY <1>1 DEF Init, Handled
<1>3. SumsInv
  BY <1>1 DEF Init, SumsInv, NoCounts
<1>4. Contributed /\ Explained
  BY <1>1, <1>2 DEF Init, Contributed, Explained
<1>5. status \in [Controls -> Statuses] /\ row \in 0..(N + 1) /\ ReportInv
  BY <1>1, LengthOfOrder DEF Init, ReportInv, Statuses, NotScored
<1>6. QED
  BY <1>1, <1>3, <1>4, <1>5 DEF Init, IInv

LEMMA LoadInv ==
  ASSUME IInv, NEW rows \in [Controls -> Statuses], Load(rows)
  PROVE  IInv'
<1>1. Handled' = {}
  BY LengthOfOrder DEF Load, Handled
<1>2. SumsInv'
  BY DEF Load, SumsInv, NoCounts
<1>3. Contributed' /\ Explained'
  BY <1>1 DEF Load, Contributed, Explained
<1>4. row' \in 0..(N + 1)
  BY LengthOfOrder DEF Load
<1>5. ReportInv'
  BY DEF Load, ReportInv
<1>6. QED
  BY <1>2, <1>3, <1>4, <1>5 DEF Load, IInv, N

LEMMA CountInv == IInv /\ CountRow => IInv'
<1> SUFFICES ASSUME IInv, CountRow PROVE IInv'
  OBVIOUS
<1> USE LengthOfOrder
<1> DEFINE s == StatusAt(row) w == WeightAt(row)
<1>1. row \in 1..N /\ row' = row + 1 /\ ~done
  BY DEF CountRow, Counting, N
<1>2. s \in Statuses /\ w \in Nat /\ 1 <= w /\ w <= 1000
  BY <1>1 DEF IInv, StatusAt
<1>3. UNCHANGED <<status, report>>
  BY DEF CountRow
<1>4. Handled' = Handled \cup {row} /\ row \notin Handled
  BY <1>1 DEF Handled, IInv
<1>5. \A j \in 1..N : StatusAt(j)' = StatusAt(j) /\ WeightAt(j)' = WeightAt(j)
  BY <1>3 DEF StatusAt, WeightAt
<1>6. counts' = [counts EXCEPT ![s] = @ + 1]
  BY DEF CountRow, StatusAt, At
<1>7. applicable' = IF s \in Excluded THEN applicable ELSE applicable + 1
  BY DEF CountRow, StatusAt, At
<1>8. s \in Scored =>
        /\ assessed' = assessed + 1
        /\ weighed' = weighed + w
        /\ achieved' = achieved + (IF s = "compliant" THEN 2 * w
                                   ELSE IF s = "partial" THEN w ELSE 0)
  <2>1. s \in Scored => /\ assessed' = assessed + 1
                        /\ weighed' = weighed + w
                        /\ achieved' = achieved + w * Credit(s)
    BY DEF CountRow, StatusAt, WeightAt, At
  <2>2. w * Credit(s) = IF s = "compliant" THEN 2 * w
                        ELSE IF s = "partial" THEN w ELSE 0
    BY <1>2 DEF Credit
  <2>3. QED
    BY <2>1, <2>2
<1>9. s \notin Scored => UNCHANGED <<assessed, weighed, achieved>>
  BY DEF CountRow, StatusAt, At
<1>10. SumsInv'
  <2>1. counts' \in [Statuses -> Nat] /\ \A x \in Statuses : counts'[x] <= row
    BY <1>1, <1>2, <1>6 DEF IInv, SumsInv
  <2>2. QED
    BY <2>1, <1>1, <1>2, <1>7, <1>8, <1>9
       DEF IInv, SumsInv, Scored, Excluded
<1>11. Contributed'
  <2>1. SUFFICES ASSUME NEW j \in Handled'
                 PROVE  /\ StatusAt(j) \in Scored =>
                             /\ assessed' >= 1
                             /\ weighed' <= 1000 * (assessed' - 1) + WeightAt(j)
                             /\ StatusAt(j) # "compliant" =>
                                  achieved' + WeightAt(j) <= 2 * weighed'
                             /\ StatusAt(j) \in {"compliant", "partial"} =>
                                  WeightAt(j) <= achieved'
                        /\ StatusAt(j) = "not_assessed" => assessed' < applicable'
    BY <1>5, Handled' \subseteq 1..N DEF Contributed, Handled
  <2>2. CASE j = row
    BY <2>2, <1>2, <1>7, <1>8, <1>9 DEF IInv, SumsInv, Scored, Excluded
  <2>3. CASE j \in Handled
    <3>1. WeightAt(j) \in Nat /\ 1 <= WeightAt(j) /\ WeightAt(j) <= 1000
      BY <2>3 DEF Handled
    <3>2. CASE s \in Scored
      BY <2>3, <3>1, <3>2, <1>2, <1>7, <1>8
         DEF IInv, SumsInv, Contributed, Scored, Excluded
    <3>3. CASE s \notin Scored
      BY <2>3, <3>1, <3>3, <1>2, <1>7, <1>9 DEF IInv, SumsInv, Contributed
    <3>4. QED
      BY <3>2, <3>3
  <2>4. QED
    BY <2>2, <2>3, <1>4
<1>12. Explained'
  <2>1. row \in Handled' /\ Handled \subseteq Handled' /\ Handled' \subseteq 1..N
    BY <1>4 DEF Handled
  <2>2. assessed' > 0 => \E j \in Handled' : StatusAt(j) \in Scored
    BY <2>1, <1>8, <1>9 DEF IInv, Explained
  <2>3. achieved' < 2 * weighed' =>
          \E j \in Handled' : StatusAt(j) \in Scored \ {"compliant"}
    BY <2>1, <1>2, <1>8, <1>9 DEF IInv, Explained, SumsInv
  <2>4. achieved' > 0 =>
          \E j \in Handled' : StatusAt(j) \in {"compliant", "partial"}
    BY <2>1, <1>2, <1>8, <1>9 DEF IInv, Explained, SumsInv
  <2>5. assessed' < applicable' =>
          \E j \in Handled' : StatusAt(j) = "not_assessed"
    BY <2>1, <1>2, <1>7, <1>8, <1>9
       DEF IInv, Explained, SumsInv, Statuses, Scored, NotScored, Excluded
  <2>6. QED
    BY <2>1, <2>2, <2>3, <2>4, <2>5, <1>5 DEF Explained
<1>13. ReportInv'
  BY <1>1, <1>3 DEF IInv, ReportInv, report
<1>14. QED
  BY <1>1, <1>3, <1>10, <1>11, <1>12, <1>13 DEF IInv, report

LEMMA ConcludeInv == IInv /\ Conclude => IInv'
<1> SUFFICES ASSUME IInv, Conclude PROVE IInv'
  OBVIOUS
<1>1. UNCHANGED <<status, row, counts, achieved, weighed, applicable, assessed>>
  BY DEF Conclude, sums
<1>2. Handled' = Handled /\ \A j \in 1..N : StatusAt(j)' = StatusAt(j)
  BY <1>1 DEF Handled, StatusAt
<1>3. SumsInv'
  BY <1>1 DEF IInv, SumsInv
<1>4. Contributed' /\ Explained'
  BY <1>1, <1>2 DEF IInv, Contributed, Explained, StatusAt, WeightAt, Handled
<1>5. ReportInv'
  BY <1>1 DEF Conclude, ReportInv, GapsIn, N
<1>6. QED
  BY <1>1, <1>3, <1>4, <1>5, LengthOfOrder DEF IInv, Conclude

\* The invariant of the loop holds throughout.
THEOREM Invariance == Spec => []IInv
<1>1. IInv /\ [Next]_vars => IInv'
  <2> SUFFICES ASSUME IInv, [Next]_vars PROVE IInv'
    OBVIOUS
  <2>1. CASE \E rows \in [Controls -> Statuses] : Load(rows)
    BY <2>1, LoadInv
  <2>2. CASE CountRow
    BY <2>2, CountInv
  <2>3. CASE Conclude
    BY <2>3, ConcludeInv
  <2>4. CASE UNCHANGED vars
    BY <2>4 DEF vars, sums, report, IInv, SumsInv, Contributed, Explained,
                ReportInv, Handled, StatusAt, WeightAt
  <2>5. QED
    BY <2>1, <2>2, <2>3, <2>4 DEF Next
<1>2. QED
  BY InitInv, <1>1, PTL DEF Spec

-----------------------------------------------------------------------------
(* What follows from the invariant                                         *)

LEMMA ScoreBounds ==
  ASSUME IInv, done, assessed # 0
  PROVE  /\ weighed > 0 /\ score \in Percent(achieved, 2 * weighed)
         /\ score \in Percentages
<1>1. weighed > 0
  BY DEF IInv, SumsInv
<1>2. score \in Percent(achieved, 2 * weighed)
  BY <1>1 DEF IInv, ReportInv, SumsInv
<1>3. 2 * weighed \in Nat /\ 2 * weighed > 0
  BY <1>1 DEF IInv, SumsInv
<1>4. achieved \in Nat /\ achieved <= 2 * weighed
  BY DEF IInv, SumsInv
<1>5. Percent(achieved, 2 * weighed) \subseteq Percentages
  BY <1>3, <1>4, PercentIsOne
<1>6. QED
  BY <1>1, <1>2, <1>5

LEMMA CoverageBounds ==
  ASSUME IInv, done
  PROVE  /\ applicable > 0 => coverage \in Percent(assessed, applicable)
         /\ coverage \in Percentages
<1>1. applicable > 0 => coverage \in Percent(assessed, applicable)
  BY DEF IInv, ReportInv, SumsInv
<1>2. applicable = 0 => coverage = 0
  BY DEF IInv, ReportInv
<1>3. applicable \in Nat /\ assessed \in Nat /\ assessed <= applicable
  BY DEF IInv, SumsInv
<1>4. applicable > 0 => Percent(assessed, applicable) \subseteq Percentages
  BY <1>3, PercentIsOne
<1>5. 0 \in Percentages
  BY DEF Percentages
<1>6. QED
  BY <1>1, <1>2, <1>3, <1>4, <1>5

LEMMA TypeFollows == IInv => TypeOK
<1> SUFFICES ASSUME IInv PROVE TypeOK
  OBVIOUS
<1>1. row \in 0..(N + 1) /\ N \in Nat
  BY LengthOfOrder DEF IInv
<1>2. counts \in [Statuses -> 0..N]
  BY <1>1 DEF IInv, SumsInv
<1>3. applicable \in 0..N /\ assessed \in 0..applicable
  BY <1>1 DEF IInv, SumsInv
<1>4. achieved \in 0..(2 * weighed)
  BY DEF IInv, SumsInv
<1>5. score \in 0..10000 \cup {NoScore}
  <2>1. score = NoScore \/ score \in Percentages
    BY ScoreBounds DEF IInv, ReportInv
  <2>2. QED
    BY <2>1 DEF Percentages
<1>6. coverage \in 0..10000
  <2>1. coverage = 0 \/ coverage \in Percentages
    BY CoverageBounds DEF IInv, ReportInv
  <2>2. QED
    BY <2>1 DEF Percentages
<1>7. gaps \in SUBSET Controls
  BY DEF IInv, ReportInv, GapsIn
<1>8. QED
  BY <1>1, <1>2, <1>3, <1>4, <1>5, <1>6, <1>7 DEF TypeOK, IInv, SumsInv, N

\* Every variable keeps its type: in particular score and coverage are
\* percentages, and no quotient is formed with a zero denominator.
THEOREM TypeCorrect == Spec => []TypeOK
  BY Invariance, TypeFollows, PTL

\* What compute_score divides by, and that the fractions have roundings.
NumbersExist ==
  /\ assessed = 0 <=> weighed = 0
  /\ weighed # 0 => Percent(achieved, 2 * weighed) # {}
  /\ applicable # 0 => Percent(assessed, applicable) # {}

\* A report can always be concluded: of the two guards of compute_score against
\* a zero denominator, assessed = 0 and weighed = 0 hold together, whatever
\* the weights, and with them out of the way both percentages exist.
THEOREM ReportsCanBeConcluded == Spec => []NumbersExist
<1>1. IInv => NumbersExist
  BY PercentExists DEF IInv, SumsInv, NumbersExist
<1>2. QED
  BY <1>1, Invariance, PTL

LEMMA AgreementFollows == IInv => ScoreAndGapsAgree
<1> SUFFICES ASSUME IInv, done
             PROVE  ScoreAndGapsAgree
  BY DEF ScoreAndGapsAgree
<1> USE LengthOfOrder
<1> DEFINE judged == {c \in Controls : status[c] \in Scored}
           unseen == {c \in gaps : status[c] = "not_assessed"}
<1>1. Handled = 1..N /\ gaps = GapsIn(status)
  BY DEF IInv, ReportInv, Handled
<1>2. \A c \in Controls : \E j \in Handled : c = ControlOrder[j]
  BY <1>1, ReadinessAssumption DEF N
<1>3. \A j \in Handled : /\ ControlOrder[j] \in Controls
                          /\ WeightAt(j) \in Nat
                          /\ 1 <= WeightAt(j) /\ WeightAt(j) <= 1000
  BY <1>1
<1>4. /\ assessed \in Nat /\ applicable \in Nat /\ assessed <= applicable
      /\ applicable <= 10
      /\ weighed \in Nat /\ achieved \in Nat /\ achieved <= 2 * weighed
  BY DEF IInv, SumsInv
<1>5. assessed = 0 <=> judged = {}
  <2>1. assessed > 0 => judged # {}
    BY <1>3 DEF IInv, Explained, StatusAt
  <2>2. judged # {} => assessed >= 1
    BY <1>2 DEF IInv, Contributed, StatusAt
  <2>3. QED
    BY <2>1, <2>2, <1>4
<1>6. score = NoScore <=> judged = {}
  <2>1. assessed = 0 => score = NoScore
    BY DEF IInv, ReportInv
  <2>2. assessed # 0 => score # NoScore
    <3>1. NoScore \notin Int
      BY ReadinessAssumption
    <3>2. Percentages \subseteq Int
      BY DEF Percentages
    <3>3. QED
      BY <3>1, <3>2, ScoreBounds, Zenon
  <2>3. QED
    BY <2>1, <2>2, <1>5
<1>7. assessed # 0 =>
        /\ score = 10000 <=> achieved = 2 * weighed
        /\ score = 0 <=> achieved = 0
  <2>1. SUFFICES ASSUME assessed # 0
                 PROVE  /\ score = 10000 <=> achieved = 2 * weighed
                        /\ score = 0 <=> achieved = 0
    OBVIOUS
  <2>2. weighed > 0 /\ score \in Percent(achieved, 2 * weighed)
    BY <2>1, ScoreBounds
  <2>3. /\ achieved = 2 * weighed => score = 10000
        /\ 2 * weighed < 20000 * (2 * weighed - achieved) => score # 10000
        /\ achieved = 0 => score = 0
        /\ 2 * weighed < 20000 * achieved => score # 0
    BY <2>2, <1>4, PercentEnds, 2 * weighed \in Nat, 2 * weighed > 0
  <2>4. achieved < 2 * weighed => 2 * weighed < 20000 * (2 * weighed - achieved)
    <3>1. SUFFICES ASSUME achieved < 2 * weighed
                   PROVE  2 * weighed < 20000 * (2 * weighed - achieved)
      OBVIOUS
    <3>2. PICK j \in Handled : StatusAt(j) \in Scored \ {"compliant"}
      BY <3>1 DEF IInv, Explained
    <3>3. /\ weighed <= 1000 * (assessed - 1) + WeightAt(j)
          /\ achieved + WeightAt(j) <= 2 * weighed
      BY <3>2 DEF IInv, Contributed
    <3>4. WeightAt(j) \in Nat /\ 1 <= WeightAt(j) /\ WeightAt(j) <= 1000
      BY <1>3
    <3>5. QED
      BY <3>3, <3>4, <1>4
  <2>5. achieved > 0 => 2 * weighed < 20000 * achieved
    <3>1. SUFFICES ASSUME achieved > 0 PROVE 2 * weighed < 20000 * achieved
      OBVIOUS
    <3>2. PICK j \in Handled : StatusAt(j) \in {"compliant", "partial"}
      BY <3>1 DEF IInv, Explained
    <3>3. /\ weighed <= 1000 * (assessed - 1) + WeightAt(j)
          /\ WeightAt(j) <= achieved
      BY <3>2 DEF IInv, Contributed, Scored
    <3>4. WeightAt(j) \in Nat /\ 1 <= WeightAt(j) /\ WeightAt(j) <= 1000
      BY <1>3
    <3>5. QED
      BY <3>3, <3>4, <1>4
  <2>6. QED
    BY <2>3, <2>4, <2>5, <1>4
<1>8. achieved = 2 * weighed <=> \A c \in judged : status[c] = "compliant"
  <2>1. achieved < 2 * weighed => \E c \in judged : status[c] # "compliant"
    BY <1>3 DEF IInv, Explained, StatusAt
  <2>2. ASSUME NEW c \in judged, status[c] # "compliant", achieved = 2 * weighed
        PROVE  FALSE
    <3>1. PICK j \in Handled : c = ControlOrder[j]
      BY <1>2
    <3>2. achieved + WeightAt(j) <= 2 * weighed
      BY <2>2, <3>1 DEF IInv, Contributed, StatusAt
    <3>3. QED
      BY <2>2, <3>2, <1>3, <1>4
  <2>3. QED
    BY <2>1, <2>2, <1>4
<1>9. achieved = 0 <=> \A c \in judged : status[c] \in {"non_compliant", "unknown"}
  <2>1. achieved > 0 => \E c \in judged : status[c] \in {"compliant", "partial"}
    BY <1>3 DEF IInv, Explained, StatusAt, Scored
  <2>2. ASSUME NEW c \in judged, status[c] \in {"compliant", "partial"}, achieved = 0
        PROVE  FALSE
    <3>1. PICK j \in Handled : c = ControlOrder[j]
      BY <1>2
    <3>2. WeightAt(j) <= achieved
      BY <2>2, <3>1 DEF IInv, Contributed, StatusAt
    <3>3. QED
      BY <2>2, <3>2, <1>3, <1>4
  <2>3. QED
    BY <2>1, <2>2, <1>4 DEF Scored
<1>10. gaps = unseen <=> \A c \in judged : status[c] = "compliant"
  BY <1>1 DEF GapsIn, GapStatuses, Scored, IInv, Statuses, NotScored, Excluded
<1>11. assessed = applicable <=> unseen = {}
  <2>1. assessed < applicable => unseen # {}
    <3>1. SUFFICES ASSUME assessed < applicable PROVE unseen # {}
      OBVIOUS
    <3>2. PICK j \in Handled : StatusAt(j) = "not_assessed"
      BY <3>1 DEF IInv, Explained
    <3>3. ControlOrder[j] \in unseen
      BY <3>2, <1>1, <1>3 DEF GapsIn, GapStatuses, StatusAt
    <3>4. QED
      BY <3>3
  <2>2. unseen # {} => assessed < applicable
    <3>1. SUFFICES ASSUME NEW c \in unseen PROVE assessed < applicable
      OBVIOUS
    <3>2. PICK j \in Handled : c = ControlOrder[j]
      BY <1>1, <1>2 DEF GapsIn
    <3>3. QED
      BY <3>1, <3>2 DEF IInv, Contributed, StatusAt
  <2>3. QED
    BY <2>1, <2>2, <1>4
<1>12. applicable > 0 => /\ coverage = 10000 <=> assessed = applicable
                         /\ coverage = 0 <=> assessed = 0
  BY <1>4, CoverageBounds, PercentEnds
<1>13. applicable = 0 => coverage = 0
  BY DEF IInv, ReportInv
<1>14. judged \cup unseen # {} => applicable > 0
  BY <1>4, <1>5, <1>11
<1>15. score = 10000 <=> judged # {} /\ gaps = unseen
  BY <1>5, <1>6, <1>7, <1>8, <1>10, ReadinessAssumption
<1>16. score = 0 <=> judged # {} /\ \A c \in judged :
                                       status[c] \in {"non_compliant", "unknown"}
  BY <1>5, <1>6, <1>7, <1>9, ReadinessAssumption
<1>17. judged \cup unseen # {} => (coverage = 10000 <=> unseen = {})
  BY <1>11, <1>12, <1>14
<1>18. coverage = 0 <=> judged = {}
  BY <1>4, <1>5, <1>12, <1>13
<1>19. QED
  BY <1>6, <1>15, <1>16, <1>17, <1>18 DEF ScoreAndGapsAgree

\* Score, coverage and gap list of a report never contradict each other, for
\* any catalogue of at most ten controls: rounding hides no gap.
THEOREM ReportIsConsistent == Spec => []ScoreAndGapsAgree
  BY Invariance, AgreementFollows, PTL

-----------------------------------------------------------------------------
(* A tenant from answers to report                                         *)

LEMMA DecideIsVerdict ==
  /\ \A m, c : Engine!Decide(m, c) \in
        {"compliant", "partial", "non_compliant", "not_assessed"}
  /\ \A m : Verdict(m) \in [Controls -> Statuses]
<1>1. \A m, c : Engine!Decide(m, c) \in
        {"compliant", "partial", "non_compliant", "not_assessed"}
  BY DEF Engine!Decide, Engine!ControlDecision, Engine!EvaluateYesNo
<1>2. {"compliant", "partial", "non_compliant", "not_assessed"} \subseteq Statuses
  BY DEF Statuses, Scored, NotScored
<1> QED
  BY <1>1, <1>2 DEF Verdict

\* A tenant's reports are reports: what holds of every report that
\* readiness_report can make of some statuses holds of these.
THEOREM AssessmentsAreReports == ASpec => Spec
<1>1. AInit => Init
  BY DEF AInit
<1>2. [ANext]_avars => [Next]_vars
  <2>1. "not_assessed" \in Statuses
    BY DEF Statuses, NotScored
  <2>2. FirstReport => Next
    BY <2>1 DEF FirstReport, Next
  <2>3. \A q \in Questions, a \in {"yes", "no"} : Answer(q, a) => Next
    BY DecideIsVerdict DEF Answer, Next
  <2> QED
    BY <2>2, <2>3 DEF ANext, Next, avars
<1> QED
  BY <1>1, <1>2, PTL DEF ASpec, Spec

\* A report is about the verdicts of the answers given so far.
AnswersInv ==
  /\ row = 0 => answers = Engine!NoAnswers
  /\ row # 0 => status = Verdict(answers)
  /\ done => row # 0 /\ gaps = GapsIn(status)

LEMMA NothingAnswered ==
  Verdict(Engine!NoAnswers) = [c \in Controls |-> "not_assessed"]
<1>1. ASSUME NEW c \in Controls
      PROVE  Engine!Decide(Engine!NoAnswers, c) = "not_assessed"
  <2>1. CASE c \notin DOMAIN RuleQuestions
    BY <2>1 DEF Engine!Decide, Engine!ControlDecision
  <2>2. CASE c \in DOMAIN RuleQuestions
    <3>1. RuleQuestions[c] # {}
      BY <2>2, AssessmentAssumption DEF Engine!RuleAssumption
    <3>2. DOMAIN Engine!NoAnswers = {}
      BY DEF Engine!NoAnswers
    <3>3. Engine!Missing(Engine!NoAnswers, RuleQuestions[c]) # {}
      BY <3>1, <3>2 DEF Engine!Missing
    <3> QED
      BY <2>2, <3>3 DEF Engine!Decide, Engine!ControlDecision, Engine!EvaluateYesNo
  <2> QED
    BY <2>1, <2>2
<1> QED
  BY <1>1 DEF Verdict

LEMMA AnswersNext == AnswersInv /\ [ANext]_avars => AnswersInv'
<1> SUFFICES ASSUME AnswersInv, [ANext]_avars PROVE AnswersInv'
  OBVIOUS
<1> USE DEF AnswersInv
<1>1. CASE FirstReport
  BY <1>1, NothingAnswered DEF FirstReport, Load
<1>2. ASSUME NEW q \in Questions, NEW a \in {"yes", "no"}, Answer(q, a)
      PROVE  AnswersInv'
  <2>1. row' = 1 /\ status' = Verdict(answers') /\ ~done'
    BY <1>2 DEF Answer, Load
  <2>2. Verdict(answers') = Verdict(answers)'
    BY DEF Verdict
  <2> QED
    BY <2>1, <2>2
<1>3. CASE CountRow /\ UNCHANGED answers
  <2>1. row # 0 /\ row' # 0
    BY <1>3 DEF CountRow, Counting
  <2> QED
    BY <1>3, <2>1 DEF CountRow, Counting, report, Verdict
<1>4. CASE Conclude /\ UNCHANGED answers
  <2>1. row # 0 /\ row' = row /\ gaps' = GapsIn(status) /\ status' = status
    BY <1>4, ReadinessAssumption DEF Conclude
  <2> QED
    BY <1>4, <2>1 DEF Verdict, GapsIn
<1>5. CASE UNCHANGED avars
  BY <1>5 DEF avars, vars, report, Verdict, GapsIn
<1> QED
  BY <1>1, <1>2, <1>3, <1>4, <1>5 DEF ANext

\* What answering Q with yes makes of the answers, and of a rule's questions.
With(m, Q) ==
  [q \in DOMAIN m \cup Q |-> IF q \in Q THEN "yes" ELSE m[q]]

LEMMA WithAnswers ==
  ASSUME NEW m, NEW codes, NEW Q \in SUBSET codes
  PROVE  /\ Engine!Missing(With(m, Q), codes) = Engine!Missing(m, codes) \ Q
         /\ Engine!Gaps(With(m, Q), codes) \subseteq codes \ Q
         /\ codes \subseteq DOMAIN m =>
              Engine!Gaps(With(m, Q), codes) = Engine!Gaps(m, codes) \ Q
  BY DEF With, Engine!Missing, Engine!Gaps

LEMMA WayOut ==
  ASSUME NEW c \in DOMAIN RuleQuestions, Engine!Decide(answers, c) # "compliant",
         NEW Q \in SUBSET Engine!ControlDecision(answers, c).unsatisfied
  PROVE  LET open == Engine!ControlDecision(answers, c).unsatisfied
             after == Engine!Decide(With(answers, Q), c)
         IN IF Engine!Decide(answers, c) = "not_assessed"
              THEN after # "not_assessed" <=> Q = open
              ELSE after = "compliant" <=> Q = open
<1> DEFINE codes == RuleQuestions[c]
           open == Engine!ControlDecision(answers, c).unsatisfied
           after == Engine!Decide(With(answers, Q), c)
<1>1. /\ Engine!ControlDecision(answers, c) = Engine!EvaluateYesNo(answers, codes)
      /\ Engine!ControlDecision(With(answers, Q), c)
           = Engine!EvaluateYesNo(With(answers, Q), codes)
  BY DEF Engine!ControlDecision
<1>2. CASE Engine!Missing(answers, codes) # {}
  <2>1. open = Engine!Missing(answers, codes)
    BY <1>1, <1>2 DEF Engine!EvaluateYesNo
  <2>2. Engine!Decide(answers, c) = "not_assessed"
    BY <1>1, <1>2 DEF Engine!EvaluateYesNo, Engine!Decide
  <2>3. Q \in SUBSET codes
    BY <2>1 DEF Engine!Missing
  <2>4. Engine!Missing(With(answers, Q), codes) = open \ Q
    BY <2>1, <2>3, WithAnswers
  <2>5. after # "not_assessed" <=> open \ Q = {}
    BY <1>1, <2>4 DEF Engine!EvaluateYesNo, Engine!Decide
  <2> QED
    BY <2>2, <2>5
<1>3. CASE Engine!Missing(answers, codes) = {}
  <2>1. codes \subseteq DOMAIN answers
    BY <1>3 DEF Engine!Missing
  <2>2. /\ Engine!Decide(answers, c) # "not_assessed"
        /\ open = Engine!Gaps(answers, codes)
    BY <1>1, <1>3 DEF Engine!EvaluateYesNo, Engine!Decide
  <2>3. Q \in SUBSET codes
    BY <2>2 DEF Engine!Gaps
  <2>4. /\ Engine!Missing(With(answers, Q), codes) = {}
        /\ Engine!Gaps(With(answers, Q), codes) = open \ Q
    BY <1>3, <2>1, <2>2, <2>3, WithAnswers
  <2>5. after = "compliant" <=> open \ Q = {}
    BY <1>1, <2>4 DEF Engine!EvaluateYesNo, Engine!Decide
  <2> QED
    BY <2>2, <2>5
<1> QED
  BY <1>2, <1>3

\* The questions a gap is explained by are exactly those that stand in its
\* way, for any catalogue and any rules.
THEOREM GapsAreExplained == ASpec => []GapsNameTheWayOut
<1>1. AInit => AnswersInv
  BY DEF AInit, Init, AnswersInv
<1>2. AnswersInv => GapsNameTheWayOut
  <2> SUFFICES ASSUME AnswersInv, done, NEW c \in gaps \cap DOMAIN RuleQuestions,
                      NEW Q \in SUBSET Engine!ControlDecision(answers, c).unsatisfied
               PROVE  LET open == Engine!ControlDecision(answers, c).unsatisfied
                          after == Engine!Decide(With(answers, Q), c)
                      IN IF status[c] = "not_assessed"
                           THEN after # "not_assessed" <=> Q = open
                           ELSE after = "compliant" <=> Q = open
    BY DEF GapsNameTheWayOut, With
  <2>1. c \in Controls /\ status[c] \in GapStatuses
    BY DEF AnswersInv, GapsIn
  <2>2. status[c] = Engine!Decide(answers, c)
    BY <2>1 DEF AnswersInv, Verdict
  <2>3. status[c] # "compliant"
    BY <2>1 DEF GapStatuses
  <2> QED
    BY <2>2, <2>3, WayOut
<1> QED
  BY <1>1, <1>2, AnswersNext, PTL DEF ASpec

-----------------------------------------------------------------------------
(* The numbers of a report by their formula                                *)

\* The controls already counted, and what the loop's sums have to be.
Seen == {ControlOrder[j] : j \in Handled}

SumsExact ==
  /\ assessed = Cardinality(Seen \cap ScoredIn(status))
  /\ weighed = SumFunctionOnSet(Weight, Seen \cap ScoredIn(status))
  /\ achieved = SumFunctionOnSet(Points(status), Seen \cap ScoredIn(status))
  /\ applicable = Cardinality({c \in Seen : status[c] \notin Excluded})
  /\ \A s \in Statuses : counts[s] = Cardinality({c \in Seen : status[c] = s})

LEMMA ControlsFinite ==
  /\ IsFiniteSet(Controls)
  /\ \A S \in SUBSET Controls : IsFiniteSet(S) /\ Cardinality(S) \in Nat
<1>1. ControlOrder \in Surjection(1..N, Controls)
  <2>1. ControlOrder \in [1..N -> Controls]
    BY ReadinessAssumption DEF N
  <2>2. \A c \in Controls : \E j \in 1..N : ControlOrder[j] = c
    BY ReadinessAssumption DEF N
  <2>3. QED
    BY <2>1, <2>2 DEF Surjection
<1>2. IsFiniteSet(1..N)
  BY LengthOfOrder, FS_Interval
<1>3. IsFiniteSet(Controls)
  BY <1>1, <1>2, FS_Surjection
<1>4. QED
  BY <1>3, FS_Subset, FS_CardinalityType

LEMMA WeightsAndPoints ==
  ASSUME NEW st \in [Controls -> Statuses], NEW c \in Controls
  PROVE  /\ Weight[c] \in Nat /\ Weight[c] >= 1
         /\ Points(st)[c] = Weight[c] * Credit(st[c])
         /\ Points(st)[c] \in Nat
<1>1. Weight[c] \in 1..1000
  BY ReadinessAssumption
<1>2. Credit(st[c]) \in Nat
  BY DEF Credit
<1>3. Points(st)[c] = Weight[c] * Credit(st[c])
  BY DEF Points
<1>4. QED
  BY <1>1, <1>2, <1>3

LEMMA ExactAtStart ==
  ASSUME Seen' = {}, counts' = NoCounts, achieved' = 0, weighed' = 0,
         applicable' = 0, assessed' = 0
  PROVE  SumsExact'
<1>1. Cardinality({}) = 0
  BY FS_EmptySet
<1>2. \A s \in Statuses : counts'[s] = 0
  BY DEF NoCounts
<1>3. weighed' = SumFunctionOnSet(Weight, {}) /\ achieved' = SumFunctionOnSet(Points(status'), {})
  BY SumOfNothing
<1>4. Seen' \cap ScoredIn(status)' = {} /\ \A S : {c \in Seen' : c \in S} = {}
  OBVIOUS
<1>5. QED
  BY <1>1, <1>2, <1>3, <1>4 DEF SumsExact

\* A row adds the control it is about to the sets behind the sums.
LEMMA ExactNext == IInv /\ SumsExact /\ CountRow => SumsExact'
<1> SUFFICES ASSUME IInv, SumsExact, CountRow PROVE SumsExact'
  OBVIOUS
<1> DEFINE c == ControlOrder[row]
           s == status[c]
           scored == Seen \cap ScoredIn(status)
<1>1. row \in 1..N /\ row' = row + 1 /\ status' = status
  BY DEF CountRow, Counting, N
<1>2. c \in Controls
  BY <1>1, LengthOfOrder
<1>3. Seen \subseteq Controls /\ c \notin Seen /\ Seen' = Seen \cup {c}
  <2>1. Handled' = Handled \cup {row} /\ row \notin Handled /\ Handled \subseteq 1..N
    BY <1>1, LengthOfOrder DEF Handled
  <2>2. \A j \in Handled : ControlOrder[j] # c
    BY <1>1, <2>1, ReadinessAssumption DEF N
  <2>3. QED
    BY <2>1, <2>2, LengthOfOrder DEF Seen
<1>4. s \in Statuses /\ (s \in Scored <=> c \in ScoredIn(status))
  BY <1>2 DEF IInv, ScoredIn
<1>5. /\ counts' = [counts EXCEPT ![s] = @ + 1]
      /\ applicable' = IF s \in Excluded THEN applicable ELSE applicable + 1
      /\ s \in Scored => /\ assessed' = assessed + 1
                         /\ weighed' = weighed + Weight[c]
                         /\ achieved' = achieved + Weight[c] * Credit(s)
      /\ s \notin Scored => UNCHANGED <<assessed, weighed, achieved>>
  BY DEF CountRow, At
<1>6. \A S \in SUBSET Controls : /\ IsFiniteSet(S)
                                 /\ c \notin S => Cardinality(S \cup {c}) = Cardinality(S) + 1
  BY <1>2, ControlsFinite, FS_AddElement
<1>7. (Seen \cap ScoredIn(status))' = IF s \in Scored THEN scored \cup {c} ELSE scored
  <2>1. ScoredIn(status)' = ScoredIn(status)
    BY <1>1
  <2>2. QED
    BY <1>3, <1>4, <2>1
<1>8. assessed' = Cardinality(Seen \cap ScoredIn(status))'
  BY <1>3, <1>5, <1>6, <1>7 DEF SumsExact
<1>9. /\ s \in Scored =>
           /\ SumFunctionOnSet(Weight, scored \cup {c})
                = SumFunctionOnSet(Weight, scored) + Weight[c]
           /\ SumFunctionOnSet(Points(status), scored \cup {c})
                = SumFunctionOnSet(Points(status), scored) + Points(status)[c]
  <2>1. scored \subseteq Controls /\ c \notin scored /\ IsFiniteSet(scored)
    BY <1>3, <1>6
  <2>2. \A d \in scored \cup {c} : Weight[d] \in Int /\ Points(status)[d] \in Int
    BY <1>2, <2>1, WeightsAndPoints DEF IInv
  <2> HIDE DEF scored, c
  <2>3. QED
    BY <2>1, <2>2, SumAdds
<1>10. weighed' = SumFunctionOnSet(Weight, Seen \cap ScoredIn(status))'
  BY <1>5, <1>7, <1>9 DEF SumsExact
<1>11. achieved' = SumFunctionOnSet(Points(status), Seen \cap ScoredIn(status))'
  <2>1. Points(status)' = Points(status)
    BY <1>1 DEF Points
  <2>2. Points(status)[c] = Weight[c] * Credit(s)
    BY <1>2, WeightsAndPoints DEF IInv
  <2>3. QED
    BY <2>1, <2>2, <1>5, <1>7, <1>9 DEF SumsExact
<1>12. applicable' = Cardinality({d \in Seen : status[d] \notin Excluded})'
  <2> DEFINE counted == {d \in Seen : status[d] \notin Excluded}
  <2>1. {d \in Seen' : status'[d] \notin Excluded}
          = IF s \in Excluded THEN counted ELSE counted \cup {c}
    BY <1>1, <1>3
  <2>2. counted \in SUBSET Controls /\ c \notin counted
    BY <1>3
  <2>3. QED
    BY <2>1, <2>2, <1>5, <1>6 DEF SumsExact
<1>13. \A t \in Statuses : counts'[t] = Cardinality({d \in Seen : status[d] = t})'
  <2> SUFFICES ASSUME NEW t \in Statuses
               PROVE  counts'[t] = Cardinality({d \in Seen' : status'[d] = t})
    OBVIOUS
  <2> DEFINE with == {d \in Seen : status[d] = t}
  <2>1. {d \in Seen' : status'[d] = t} = IF t = s THEN with \cup {c} ELSE with
    BY <1>1, <1>3
  <2>2. with \in SUBSET Controls /\ c \notin with
    BY <1>3
  <2>3. counts[t] = Cardinality(with)
    BY DEF SumsExact
  <2>4. counts'[t] = IF t = s THEN counts[t] + 1 ELSE counts[t]
    BY <1>4, <1>5 DEF IInv, SumsInv
  <2>5. QED
    BY <2>1, <2>2, <2>3, <2>4, <1>6
<1>14. QED
  BY <1>8, <1>10, <1>11, <1>12, <1>13 DEF SumsExact

LEMMA ExactInvariance == Spec => []SumsExact
<1>1. Init => SumsExact
  <2> SUFFICES ASSUME Init PROVE SumsExact
    OBVIOUS
  <2>1. Seen = {} /\ \A S : Seen \cap S = {}
    BY LengthOfOrder DEF Init, Seen, Handled
  <2>2. Cardinality({}) = 0 /\ \A w : SumFunctionOnSet(w, {}) = 0
    BY FS_EmptySet, SumOfNothing
  <2>3. \A s \in Statuses : /\ counts[s] = 0
                            /\ {c \in Seen : status[c] = s} = {}
    BY <2>1 DEF Init, NoCounts
  <2>4. {c \in Seen : status[c] \notin Excluded} = {}
    BY <2>1
  <2> QED
    BY <2>1, <2>2, <2>3, <2>4 DEF Init, SumsExact
<1>2. IInv /\ SumsExact /\ [Next]_vars => SumsExact'
  <2> SUFFICES ASSUME IInv, SumsExact, [Next]_vars PROVE SumsExact'
    OBVIOUS
  <2>1. ASSUME NEW rows \in [Controls -> Statuses], Load(rows) PROVE SumsExact'
    <3>1. Seen' = {}
      BY <2>1, LengthOfOrder DEF Load, Seen, Handled
    <3> QED
      BY <2>1, <3>1, ExactAtStart DEF Load
  <2>2. CASE CountRow
    BY <2>2, ExactNext
  <2>3. CASE Conclude \/ UNCHANGED vars
    <3>1. UNCHANGED <<status, row, counts, achieved, weighed, applicable, assessed>>
      BY <2>3 DEF Conclude, vars, sums
    <3>2. /\ Seen' = Seen /\ ScoredIn(status)' = ScoredIn(status)
          /\ Points(status)' = Points(status)
      BY <3>1 DEF Seen, Handled, ScoredIn, Points
    <3> QED
      BY <3>1, <3>2 DEF SumsExact
  <2> QED
    BY <2>1, <2>2, <2>3 DEF Next
<1> QED
  BY <1>1, <1>2, Invariance, PTL DEF Spec

LEMMA FormulaFollows == IInv /\ SumsExact => ReportIsReconstructable
<1> SUFFICES ASSUME IInv, SumsExact, done
             PROVE  /\ score \in ScoreOf(status)
                    /\ coverage \in CoverageOf(status)
                    /\ \A s \in Statuses :
                         counts[s] = Cardinality({c \in Controls : status[c] = s})
  BY DEF ReportIsReconstructable
<1>1. Seen = Controls
  <2>1. Handled = 1..N
    BY LengthOfOrder DEF IInv, ReportInv, Handled
  <2>2. \A j \in Handled : ControlOrder[j] \in Controls
    BY <2>1, LengthOfOrder
  <2>3. \A c \in Controls : \E j \in Handled : c = ControlOrder[j]
    BY <2>1, ReadinessAssumption DEF N
  <2> QED
    BY <2>2, <2>3 DEF Seen
<1>2. Seen \cap ScoredIn(status) = ScoredIn(status)
  BY <1>1 DEF ScoredIn
<1>3. ScoredIn(status) \in SUBSET Controls
  BY DEF ScoredIn
<1>4. assessed = 0 <=> ScoredIn(status) = {}
  BY <1>2, <1>3, ControlsFinite, FS_EmptySet DEF SumsExact
<1>5. assessed # 0 => weighed # 0
  BY DEF IInv, SumsInv
<1>6. score \in ScoreOf(status)
  BY <1>2, <1>4, <1>5 DEF IInv, ReportInv, ScoreOf, SumsExact
<1>7. coverage \in CoverageOf(status)
  <2> DEFINE scope == {c \in Controls : status[c] \notin Excluded}
  <2>1. applicable = Cardinality(scope) /\ assessed = Cardinality(ScoredIn(status))
    BY <1>1, <1>2 DEF SumsExact
  <2>2. applicable = 0 <=> scope = {}
    BY <2>1, ControlsFinite, FS_EmptySet
  <2>3. CoverageOf(status) = IF scope = {} THEN {0}
                             ELSE Percent(Cardinality(ScoredIn(status)), Cardinality(scope))
    BY DEF CoverageOf
  <2>4. coverage \in IF applicable = 0 THEN {0} ELSE Percent(assessed, applicable)
    BY DEF IInv, ReportInv
  <2> HIDE DEF scope
  <2> QED
    BY <2>1, <2>2, <2>3, <2>4
<1> QED
  BY <1>1, <1>6, <1>7 DEF SumsExact

\* Every number of a report is what the formula makes of the verdicts: the
\* loop of compute_score counts every control once, whatever the catalogue,
\* the weights and the rules.
THEOREM ReportsByTheFormula == ASpec => []ReportIsReconstructable
  BY AssessmentsAreReports, Invariance, ExactInvariance, FormulaFollows, PTL

-----------------------------------------------------------------------------
(* How answers move the numbers                                            *)

\* n knows every answer of m, and no question got further from a yes.
NoWorse(m, n) ==
  /\ DOMAIN m \subseteq DOMAIN n
  /\ \A q \in DOMAIN m : n[q] # "yes" => m[q] # "yes"

LEMMA VerdictAt ==
  ASSUME NEW m, NEW c \in Controls
  PROVE  /\ c \in ScoredIn(Verdict(m)) <=>
              c \in DOMAIN RuleQuestions /\ Engine!Missing(m, RuleQuestions[c]) = {}
         /\ c \in ScoredIn(Verdict(m)) =>
              Verdict(m)[c] =
                IF Engine!Gaps(m, RuleQuestions[c]) = {} THEN "compliant"
                ELSE IF Engine!Gaps(m, RuleQuestions[c]) = RuleQuestions[c]
                THEN "non_compliant" ELSE "partial"
<1>1. Verdict(m)[c] = Engine!Decide(m, c)
  BY DEF Verdict
<1>2. c \in ScoredIn(Verdict(m)) <=> Engine!Decide(m, c) \in Scored
  BY <1>1 DEF ScoredIn
<1>3. CASE c \notin DOMAIN RuleQuestions
  BY <1>2, <1>3 DEF Engine!Decide, Engine!ControlDecision, Scored
<1>4. CASE c \in DOMAIN RuleQuestions
  <2>1. Engine!Decide(m, c) = Engine!EvaluateYesNo(m, RuleQuestions[c]).status
    BY <1>4 DEF Engine!Decide, Engine!ControlDecision
  <2>2. Engine!Missing(m, RuleQuestions[c]) # {} => Engine!Decide(m, c) = "not_assessed"
    BY <2>1 DEF Engine!EvaluateYesNo
  <2>3. Engine!Missing(m, RuleQuestions[c]) = {} =>
          Engine!Decide(m, c) =
            IF Engine!Gaps(m, RuleQuestions[c]) = {} THEN "compliant"
            ELSE IF Engine!Gaps(m, RuleQuestions[c]) = RuleQuestions[c]
            THEN "non_compliant" ELSE "partial"
    BY <2>1 DEF Engine!EvaluateYesNo
  <2> QED
    BY <1>1, <1>2, <1>4, <2>2, <2>3 DEF Scored
<1> QED
  BY <1>3, <1>4

\* What was assessed stays assessed, and earns no less.
LEMMA NoWorseEarnsNoLess ==
  ASSUME NEW m, NEW n, NoWorse(m, n), NEW c \in ScoredIn(Verdict(m))
  PROVE  /\ c \in ScoredIn(Verdict(n))
         /\ Points(Verdict(m))[c] <= Points(Verdict(n))[c]
<1> DEFINE codes == RuleQuestions[c]
           before == Engine!Gaps(m, codes)
           after == Engine!Gaps(n, codes)
<1>1. c \in Controls
  BY DEF ScoredIn
<1>2. c \in DOMAIN RuleQuestions /\ Engine!Missing(m, codes) = {}
  BY <1>1, VerdictAt
<1>3. codes \subseteq DOMAIN m
  BY <1>2 DEF Engine!Missing
<1>4. Engine!Missing(n, codes) = {} /\ after \subseteq before
  BY <1>3 DEF NoWorse, Engine!Missing, Engine!Gaps
<1>5. c \in ScoredIn(Verdict(n))
  BY <1>1, <1>2, <1>4, VerdictAt
<1>6. codes # {} /\ before \subseteq codes
  BY <1>2, AssessmentAssumption DEF Engine!RuleAssumption, Engine!Gaps
<1>7. Credit(Verdict(m)[c]) <= Credit(Verdict(n)[c])
  <2>1. /\ Verdict(m)[c] = IF before = {} THEN "compliant"
                           ELSE IF before = codes THEN "non_compliant" ELSE "partial"
        /\ Verdict(n)[c] = IF after = {} THEN "compliant"
                           ELSE IF after = codes THEN "non_compliant" ELSE "partial"
    BY <1>1, <1>5, VerdictAt
  <2> QED
    BY <1>4, <1>6, <2>1 DEF Credit
<1>8. /\ Weight[c] \in Nat
      /\ Points(Verdict(m))[c] = Weight[c] * Credit(Verdict(m)[c])
      /\ Points(Verdict(n))[c] = Weight[c] * Credit(Verdict(n)[c])
  BY <1>1, DecideIsVerdict, WeightsAndPoints
<1>9. \A st : Credit(st) \in {0, 1, 2}
  BY DEF Credit
<1> QED
  BY <1>5, <1>7, <1>8, <1>9

LEMMA CoverageGrows ==
  ASSUME NEW m, NEW n, ScoredIn(Verdict(m)) \subseteq ScoredIn(Verdict(n))
  PROVE  NoHigher(CoverageOf(Verdict(m)), CoverageOf(Verdict(n)))
<1> DEFINE Scope(x) == {c \in Controls : Verdict(x)[c] \notin Excluded}
<1>1. \A x : Scope(x) = Controls
  BY DecideIsVerdict DEF Verdict, Excluded
<1>2. \A x : CoverageOf(Verdict(x)) =
               IF Controls = {} THEN {0}
               ELSE Percent(Cardinality(ScoredIn(Verdict(x))), Cardinality(Controls))
  BY <1>1 DEF CoverageOf
<1>3. CASE Controls = {}
  BY <1>2, <1>3 DEF NoHigher
<1>4. CASE Controls # {}
  <2>1. \A x : ScoredIn(Verdict(x)) \in SUBSET Controls
    BY DEF ScoredIn
  <2>2. Cardinality(Controls) \in Nat /\ Cardinality(Controls) > 0
    BY <1>4, ControlsFinite, FS_EmptySet
  <2>3. /\ Cardinality(ScoredIn(Verdict(m))) \in Nat
        /\ Cardinality(ScoredIn(Verdict(n))) \in Nat
        /\ Cardinality(ScoredIn(Verdict(m))) <= Cardinality(ScoredIn(Verdict(n)))
    BY <2>1, ControlsFinite, FS_Subset
  <2> QED
    BY <1>2, <1>4, <2>2, <2>3, PercentMonotone
<1> QED
  BY <1>3, <1>4

LEMMA ScoreGrows ==
  ASSUME NEW m, NEW n, NoWorse(m, n),
         ScoredIn(Verdict(m)) = ScoredIn(Verdict(n)), ScoredIn(Verdict(m)) # {}
  PROVE  NoHigher(ScoreOf(Verdict(m)), ScoreOf(Verdict(n)))
<1> DEFINE scored == ScoredIn(Verdict(m))
           den == 2 * SumFunctionOnSet(Weight, scored)
           before == SumFunctionOnSet(Points(Verdict(m)), scored)
           after == SumFunctionOnSet(Points(Verdict(n)), scored)
<1>1. scored \subseteq Controls /\ IsFiniteSet(scored)
  BY ControlsFinite DEF ScoredIn
<1>2. \A c \in scored : /\ Weight[c] \in Nat /\ Weight[c] >= 1
                        /\ Points(Verdict(m))[c] \in Nat
                        /\ Points(Verdict(n))[c] \in Nat
                        /\ Points(Verdict(m))[c] <= Points(Verdict(n))[c]
  BY <1>1, DecideIsVerdict, WeightsAndPoints, NoWorseEarnsNoLess
<1>3. den \in Nat /\ den > 0
  BY <1>1, <1>2, SumIsPositive
<1>4. before \in Nat /\ after \in Nat /\ before <= after
  BY <1>1, <1>2, SumIsNat, SumMonotone
<1>5. /\ ScoreOf(Verdict(m)) = Percent(before, den)
      /\ ScoreOf(Verdict(n)) = Percent(after, den)
  BY DEF ScoreOf
<1> HIDE DEF scored, den, before, after
<1> QED
  BY <1>3, <1>4, <1>5, PercentMonotone

\* The answers after one more.
Answered(m, q, a) == [p \in DOMAIN m \cup {q} |-> IF p = q THEN a ELSE m[p]]

\* A yes in place of a no never lowers the score, a no in place of a yes never
\* raises it, and no answer lowers the coverage: for any catalogue, weights
\* and rules.
THEOREM AnswersMoveScore == ASpec => AnswersMoveTheScore
<1> DEFINE Turned(a) == \E q \in DOMAIN answers : answers'[q] = a /\ answers[q] # a
           Moves ==
             /\ NoHigher(CoverageOf(Verdict(answers)), CoverageOf(Verdict(answers')))
             /\ ScoredIn(Verdict(answers)) = ScoredIn(Verdict(answers')) /\ ScoredIn(Verdict(answers)) # {} =>
                  /\ Turned("yes") =>
                       NoHigher(ScoreOf(Verdict(answers)), ScoreOf(Verdict(answers')))
                  /\ Turned("no") =>
                       NoHigher(ScoreOf(Verdict(answers')), ScoreOf(Verdict(answers)))
<1>1. ASSUME NEW q \in Questions, NEW a \in {"yes", "no"}, Answer(q, a)
      PROVE  Moves
  <2>1. answers' = Answered(answers, q, a)
    BY <1>1 DEF Answer, Answered
  <2>2. ScoredIn(Verdict(answers)) \subseteq ScoredIn(Verdict(answers'))
    <3>1. \A codes : Engine!Missing(answers', codes) \subseteq Engine!Missing(answers, codes)
      BY <2>1 DEF Answered, Engine!Missing
    <3>2. \A c \in Controls : c \in ScoredIn(Verdict(answers)) =>
                                c \in ScoredIn(Verdict(answers'))
      BY <3>1, VerdictAt
    <3> QED
      BY <3>2 DEF ScoredIn
  <2>3. Turned("yes") => NoWorse(answers, answers')
    BY <2>1 DEF Answered, NoWorse
  <2>4. Turned("no") => NoWorse(answers', answers)
    BY <2>1 DEF Answered, NoWorse
  <2> QED
    BY <2>2, <2>3, <2>4, CoverageGrows, ScoreGrows
<1>2. [ANext]_avars => [Moves]_answers
  BY <1>1 DEF ANext, FirstReport, avars
<1> QED
  BY <1>2, PTL DEF ASpec, AnswersMoveTheScore
=============================================================================
