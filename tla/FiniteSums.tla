----------------------------- MODULE FiniteSums -----------------------------
(***************************************************************************)
(* Sums over finite sets, as SumFunctionOnSet of Functions defines them: a *)
(* recursive function on the subsets, which takes out one chosen element   *)
(* at a time.  None of the facts is an instance of the library's induction *)
(* theorems, which quantify over operators; each is proved by taking a     *)
(* smallest counterexample (Least, Smallest).                              *)
(***************************************************************************)
EXTENDS Integers, FiniteSets, Functions, FiniteSetTheorems,
        WellFoundedInduction, TLAPS

-----------------------------------------------------------------------------
(* Smallest counterexamples                                                *)

NatLess == OpToRel(<, Nat)

LEMMA Least ==
  ASSUME NEW T \in SUBSET Nat, T # {}
  PROVE  \E x \in T : \A y \in T : x <= y
<1>1. \A x, y \in Nat : x < y => <<x, y>> \in NatLess
  BY Zenon DEF NatLess, OpToRel
<1>2. IsWellFoundedOn(NatLess, Nat)
  BY NatLessThanWellFounded, Zenon DEF NatLess
<1>3. PICK x \in T : \A y \in T : ~(<<y, x>> \in NatLess)
  BY <1>2, WFMin
<1>4. ASSUME NEW y \in T PROVE x <= y
  <2>1. x \in Nat /\ y \in Nat
    BY <1>3
  <2>2. ~(y < x)
    BY <1>1, <1>3, <2>1
  <2> QED
    BY <2>1, <2>2
<1> QED
  BY <1>3, <1>4

\* Among some subsets of a finite set, one has none of the others inside it.
LEMMA Smallest ==
  ASSUME NEW S, IsFiniteSet(S), NEW B \in SUBSET (SUBSET S), B # {}
  PROVE  \E s \in B : \A t \in SUBSET s : t # s => t \notin B
<1> DEFINE sizes == {n \in Nat : \E s \in B : Cardinality(s) = n}
<1>1. \A s \in SUBSET S : IsFiniteSet(s) /\ Cardinality(s) \in Nat
  BY FS_Subset, FS_CardinalityType
<1>2. sizes # {}
  BY <1>1
<1>3. PICK n \in sizes : \A m \in sizes : n <= m
  BY <1>2, Least, sizes \in SUBSET Nat
<1>4. PICK s \in B : Cardinality(s) = n
  BY <1>3
<1>5. ASSUME NEW t \in SUBSET s, t # s, t \in B PROVE FALSE
  <2>1. Cardinality(t) <= Cardinality(s) /\ Cardinality(t) # Cardinality(s)
    BY <1>1, <1>5, FS_Subset
  <2>2. Cardinality(t) \in sizes
    BY <1>1, <1>5
  <2>3. n <= Cardinality(t)
    BY <1>3, <2>2
  <2> QED
    BY <1>1, <1>4, <1>5, <2>1, <2>3
<1> QED
  BY <1>4, <1>5

-----------------------------------------------------------------------------
(* The recursion has a solution, and only one                              *)

Pick(s) == CHOOSE x \in s : TRUE

\* The equation of the recursion at one set.
Holds(w, f, s) == f[s] = IF s = {} THEN 0 ELSE w[Pick(s)] + f[s \ {Pick(s)}]

\* f sums w over the subsets of S.
Sums(w, S, f) ==
  f = [s \in SUBSET S |-> IF s = {} THEN 0 ELSE w[Pick(s)] + f[s \ {Pick(s)}]]

LEMMA SumUnfolded ==
  ASSUME NEW w, NEW S
  PROVE  SumFunctionOnSet(w, S) = (CHOOSE f : Sums(w, S, f))[S]
  BY Zenon DEF SumFunctionOnSet, FoldFunctionOnSet, MapThenFoldSet, Sums, Pick

LEMMA PickIn ==
  ASSUME NEW s, s # {}
  PROVE  Pick(s) \in s
  BY DEF Pick

LEMMA SumsAt ==
  ASSUME NEW w, NEW S, NEW f, Sums(w, S, f), NEW s \in SUBSET S
  PROVE  Holds(w, f, s)
<1> DEFINE g == [t \in SUBSET S |-> IF t = {} THEN 0 ELSE w[Pick(t)] + f[t \ {Pick(t)}]]
<1>1. f = g
  BY Zenon DEF Sums
<1>2. g[s] = IF s = {} THEN 0 ELSE w[Pick(s)] + f[s \ {Pick(s)}]
  OBVIOUS
<1> HIDE DEF g
<1> QED
  BY <1>1, <1>2 DEF Holds

\* Solutions agree wherever both are defined.
LEMMA SumsAgree ==
  ASSUME NEW S, IsFiniteSet(S), NEW T \in SUBSET S, NEW w, NEW f, NEW g,
         Sums(w, S, f), Sums(w, T, g)
  PROVE  \A s \in SUBSET T : f[s] = g[s]
<1> DEFINE bad == {s \in SUBSET T : f[s] # g[s]}
<1>1. SUFFICES ASSUME bad # {} PROVE FALSE
  OBVIOUS
<1>2. IsFiniteSet(T)
  BY FS_Subset
<1>3. PICK s \in bad : \A t \in SUBSET s : t # s => t \notin bad
  <2>1. bad \in SUBSET (SUBSET T)
    OBVIOUS
  <2> HIDE DEF bad
  <2> QED
    BY <1>1, <1>2, <2>1, Smallest
<1>4. s \in SUBSET T /\ s \in SUBSET S
  OBVIOUS
<1>5. Holds(w, f, s) /\ Holds(w, g, s)
  BY <1>4, SumsAt
<1>6. s # {}
  BY <1>3, <1>5 DEF Holds
<1>7. f[s \ {Pick(s)}] = g[s \ {Pick(s)}]
  <2>1. Pick(s) \in s
    BY <1>6, PickIn
  <2> QED
    BY <1>3, <1>4, <2>1
<1> QED
  BY <1>3, <1>5, <1>6, <1>7 DEF Holds

\* A solution for the subsets of at most n elements.
Partial(w, S, n, f) ==
  f = [s \in {t \in SUBSET S : Cardinality(t) <= n} |->
         IF s = {} THEN 0 ELSE w[Pick(s)] + f[s \ {Pick(s)}]]

LEMMA PartialAt ==
  ASSUME NEW w, NEW S, NEW n, NEW f, Partial(w, S, n, f),
         NEW s \in SUBSET S, Cardinality(s) <= n
  PROVE  Holds(w, f, s)
<1> DEFINE dom == {t \in SUBSET S : Cardinality(t) <= n}
           g == [t \in dom |-> IF t = {} THEN 0 ELSE w[Pick(t)] + f[t \ {Pick(t)}]]
<1>1. f = g
  BY Zenon DEF Partial
<1>2. s \in dom
  OBVIOUS
<1> HIDE DEF dom
<1>3. g[s] = IF s = {} THEN 0 ELSE w[Pick(s)] + f[s \ {Pick(s)}]
  BY <1>2
<1> HIDE DEF g
<1> QED
  BY <1>1, <1>3 DEF Holds

LEMMA PartialExists ==
  ASSUME NEW w, NEW S, IsFiniteSet(S)
  PROVE  \A n \in Nat : \E f : Partial(w, S, n, f)
<1> DEFINE bad == {n \in Nat : ~ \E f : Partial(w, S, n, f)}
           Dom(n) == {t \in SUBSET S : Cardinality(t) <= n}
           Value(h, s) == IF s = {} THEN 0 ELSE w[Pick(s)] + h[s \ {Pick(s)}]
<1>1. SUFFICES ASSUME bad # {} PROVE FALSE
  OBVIOUS
<1>2. PICK n \in bad : \A m \in bad : n <= m
  BY <1>1, Least, bad \in SUBSET Nat
<1>3. \A s \in SUBSET S : /\ IsFiniteSet(s) /\ Cardinality(s) \in Nat
                          /\ Cardinality(s) = 0 <=> s = {}
  BY FS_Subset, FS_CardinalityType, FS_EmptySet
<1>4. CASE n = 0
  <2> DEFINE f == [s \in Dom(0) |-> 0]
  <2>1. \A s \in Dom(0) : s = {}
    BY <1>3
  <2>2. f = [s \in Dom(0) |-> Value(f, s)]
    BY <2>1
  <2>3. Partial(w, S, 0, f)
    BY <2>2, Zenon DEF Partial
  <2> QED
    BY <1>2, <1>4, <2>3
<1>5. CASE n # 0
  <2>1. n - 1 \in Nat /\ n - 1 \notin bad
    BY <1>2, <1>5
  <2>2. PICK f : Partial(w, S, n - 1, f)
    BY <2>1
  <2> DEFINE g == [s \in Dom(n) |-> Value(f, s)]
  <2>3. \A s \in Dom(n - 1) : f[s] = Value(f, s)
    <3>1. \A s \in SUBSET S : Cardinality(s) <= n - 1 => Holds(w, f, s)
      BY <2>2, PartialAt, Zenon
    <3> QED
      BY <3>1 DEF Holds
  <2>4. Dom(n - 1) \subseteq Dom(n)
    BY <1>3
  <2>5. \A s \in Dom(n) : Value(g, s) = Value(f, s)
    <3>1. SUFFICES ASSUME NEW s \in Dom(n), s # {}
                   PROVE  g[s \ {Pick(s)}] = f[s \ {Pick(s)}]
      <4> HIDE DEF Dom, g
      <4> QED
        OBVIOUS
    <3>2. Pick(s) \in s
      BY <3>1, PickIn
    <3>3. s \ {Pick(s)} \in Dom(n - 1)
      BY <1>3, <2>1, <3>1, <3>2, FS_RemoveElement
    <3> HIDE DEF Value
    <3> QED
      BY <2>3, <2>4, <3>3
  <2>6. g = [s \in Dom(n) |-> Value(g, s)]
    <3> HIDE DEF Value, Dom
    <3> QED BY <2>5
  <2>7. Partial(w, S, n, g)
    BY <2>6, Zenon DEF Partial
  <2> QED
    BY <1>2, <2>7
<1> QED
  BY <1>4, <1>5

LEMMA SumsExist ==
  ASSUME NEW w, NEW S, IsFiniteSet(S)
  PROVE  \E f : Sums(w, S, f)
<1>1. Cardinality(S) \in Nat
  BY FS_CardinalityType
<1>2. PICK f : Partial(w, S, Cardinality(S), f)
  BY <1>1, PartialExists
<1>3. {t \in SUBSET S : Cardinality(t) <= Cardinality(S)} = SUBSET S
  BY FS_Subset
<1>4. Sums(w, S, f)
  BY <1>2, <1>3, Zenon DEF Partial, Sums
<1> QED
  BY <1>4

-----------------------------------------------------------------------------
(* What a sum is                                                           *)

\* One solution for a set gives the sums over all its subsets.
LEMMA SumIs ==
  ASSUME NEW w, NEW S, IsFiniteSet(S)
  PROVE  \E f : /\ Sums(w, S, f)
                /\ \A T \in SUBSET S : SumFunctionOnSet(w, T) = f[T]
<1>1. PICK f : Sums(w, S, f)
  BY SumsExist
<1>2. ASSUME NEW T \in SUBSET S PROVE SumFunctionOnSet(w, T) = f[T]
  <2> DEFINE g == CHOOSE h : Sums(w, T, h)
  <2>1. IsFiniteSet(T)
    BY FS_Subset
  <2>2. \E h : Sums(w, T, h)
    BY <2>1, SumsExist
  <2>3. Sums(w, T, g)
    BY <2>2
  <2>4. f[T] = g[T]
    BY <1>1, <2>3, SumsAgree, T \in SUBSET T
  <2> QED
    BY <2>4, SumUnfolded
<1> QED
  BY <1>1, <1>2

LEMMA SumOfNothing ==
  ASSUME NEW w
  PROVE  SumFunctionOnSet(w, {}) = 0
<1>1. IsFiniteSet({})
  BY FS_EmptySet
<1>2. PICK f : /\ Sums(w, {}, f)
               /\ \A T \in SUBSET {} : SumFunctionOnSet(w, T) = f[T]
  BY <1>1, SumIs
<1> QED
  BY <1>2, SumsAt DEF Holds

LEMMA SumPicks ==
  ASSUME NEW w, NEW S, IsFiniteSet(S), S # {}
  PROVE  SumFunctionOnSet(w, S) = w[Pick(S)] + SumFunctionOnSet(w, S \ {Pick(S)})
<1>1. PICK f : /\ Sums(w, S, f)
               /\ \A T \in SUBSET S : SumFunctionOnSet(w, T) = f[T]
  BY SumIs
<1>2. f[S] = w[Pick(S)] + f[S \ {Pick(S)}]
  BY <1>1, SumsAt, S \in SUBSET S DEF Holds
<1> QED
  BY <1>1, <1>2

LEMMA SumIsInt ==
  ASSUME NEW w, NEW S, IsFiniteSet(S), \A x \in S : w[x] \in Int
  PROVE  SumFunctionOnSet(w, S) \in Int
<1> DEFINE bad == {s \in SUBSET S : SumFunctionOnSet(w, s) \notin Int}
<1>1. SUFFICES ASSUME bad # {} PROVE FALSE
  OBVIOUS
<1>2. PICK s \in bad : \A t \in SUBSET s : t # s => t \notin bad
  <2>1. bad \in SUBSET (SUBSET S)
    OBVIOUS
  <2> HIDE DEF bad
  <2> QED
    BY <1>1, <2>1, Smallest
<1>3. s # {}
  <2>1. SumFunctionOnSet(w, {}) = 0
    BY SumOfNothing
  <2> QED
    BY <2>1
<1>4. Pick(s) \in s
  BY <1>3, PickIn
<1>5. SumFunctionOnSet(w, s \ {Pick(s)}) \in Int
  BY <1>2, <1>4
<1>6. IsFiniteSet(s)
  BY FS_Subset
<1>7. SumFunctionOnSet(w, s) = w[Pick(s)] + SumFunctionOnSet(w, s \ {Pick(s)})
  BY <1>3, <1>6, SumPicks
<1> QED
  BY <1>2, <1>4, <1>5, <1>7

\* Any element may be taken out first: the sum does not depend on the choice.
LEMMA SumTakesOut ==
  ASSUME NEW w, NEW S, IsFiniteSet(S), \A x \in S : w[x] \in Int, NEW x \in S
  PROVE  SumFunctionOnSet(w, S) = w[x] + SumFunctionOnSet(w, S \ {x})
<1> DEFINE Sum(s) == SumFunctionOnSet(w, s)
           bad == {s \in SUBSET S : \E y \in s : Sum(s) # w[y] + Sum(s \ {y})}
<1>1. SUFFICES ASSUME bad # {} PROVE FALSE
  OBVIOUS
<1>2. PICK s \in bad : \A t \in SUBSET s : t # s => t \notin bad
  <2>1. bad \in SUBSET (SUBSET S)
    OBVIOUS
  <2> HIDE DEF bad
  <2> QED
    BY <1>1, <2>1, Smallest
<1>3. PICK y \in s : Sum(s) # w[y] + Sum(s \ {y})
  BY <1>2
<1> DEFINE z == Pick(s)
           rest == (s \ {y}) \ {z}
<1>4. z \in s
  BY <1>3, PickIn
<1>5. \A t \in SUBSET s : IsFiniteSet(t) /\ Sum(t) \in Int
  <2>1. SUFFICES ASSUME NEW t \in SUBSET s PROVE IsFiniteSet(t) /\ Sum(t) \in Int
    OBVIOUS
  <2>2. IsFiniteSet(t) /\ \A u \in t : w[u] \in Int
    BY FS_Subset
  <2> QED
    BY <2>2, SumIsInt
<1>6. Sum(s) = w[z] + Sum(s \ {z})
  BY <1>3, <1>5, SumPicks
<1>7. y # z
  BY <1>3, <1>6
<1>8. Sum(s \ {z}) = w[y] + Sum(rest)
  <2>1. s \ {z} \in SUBSET s /\ s \ {z} # s /\ y \in s \ {z}
    BY <1>4, <1>7
  <2>2. (s \ {z}) \ {y} = rest
    OBVIOUS
  <2> QED
    BY <1>2, <2>1, <2>2
<1>9. Sum(s \ {y}) = w[z] + Sum(rest)
  <2>1. s \ {y} \in SUBSET s /\ s \ {y} # s /\ z \in s \ {y}
    BY <1>4, <1>7
  <2> QED
    BY <1>2, <2>1
<1>10. w[y] \in Int /\ w[z] \in Int /\ Sum(rest) \in Int
  BY <1>4, <1>5
<1> HIDE DEF z, rest, Sum
<1> QED
  BY <1>3, <1>6, <1>8, <1>9, <1>10

LEMMA SumAdds ==
  ASSUME NEW w, NEW S, IsFiniteSet(S), NEW x, x \notin S,
         \A y \in S \cup {x} : w[y] \in Int
  PROVE  SumFunctionOnSet(w, S \cup {x}) = SumFunctionOnSet(w, S) + w[x]
<1> DEFINE all == S \cup {x}
<1>1. IsFiniteSet(all)
  BY FS_AddElement
<1>2. all \ {x} = S /\ x \in all
  OBVIOUS
<1>3. SumFunctionOnSet(w, all) = w[x] + SumFunctionOnSet(w, all \ {x})
  BY <1>1, <1>2, SumTakesOut
<1>4. SumFunctionOnSet(w, S) \in Int /\ w[x] \in Int
  BY SumIsInt
<1>5. SumFunctionOnSet(w, all) = w[x] + SumFunctionOnSet(w, S)
  BY <1>2, <1>3
<1> HIDE DEF all
<1>6. SumFunctionOnSet(w, all) = SumFunctionOnSet(w, S) + w[x]
  BY <1>4, <1>5
<1> QED
  BY <1>6 DEF all

\* A sum of larger terms is no smaller.
LEMMA SumMonotone ==
  ASSUME NEW v, NEW w, NEW S, IsFiniteSet(S),
         \A x \in S : v[x] \in Int /\ w[x] \in Int /\ v[x] <= w[x]
  PROVE  SumFunctionOnSet(v, S) <= SumFunctionOnSet(w, S)
<1> DEFINE V(s) == SumFunctionOnSet(v, s)
           W(s) == SumFunctionOnSet(w, s)
           bad == {s \in SUBSET S : ~(V(s) <= W(s))}
<1>1. SUFFICES ASSUME bad # {} PROVE FALSE
  OBVIOUS
<1>2. PICK s \in bad : \A t \in SUBSET s : t # s => t \notin bad
  <2>1. bad \in SUBSET (SUBSET S)
    OBVIOUS
  <2> HIDE DEF bad
  <2> QED
    BY <1>1, <2>1, Smallest
<1>3. s # {}
  BY <1>2, SumOfNothing
<1>4. Pick(s) \in s /\ IsFiniteSet(s) /\ IsFiniteSet(s \ {Pick(s)})
  BY <1>3, PickIn, FS_Subset
<1>5. V(s \ {Pick(s)}) <= W(s \ {Pick(s)})
  BY <1>2, <1>4
<1>6. V(s \ {Pick(s)}) \in Int /\ W(s \ {Pick(s)}) \in Int
  BY <1>4, SumIsInt
<1>7. /\ V(s) = v[Pick(s)] + V(s \ {Pick(s)})
      /\ W(s) = w[Pick(s)] + W(s \ {Pick(s)})
  BY <1>3, <1>4, SumPicks
<1> QED
  BY <1>2, <1>4, <1>5, <1>6, <1>7

\* Terms that count something make a sum that does.
LEMMA SumIsNat ==
  ASSUME NEW w, NEW S, IsFiniteSet(S), \A x \in S : w[x] \in Nat
  PROVE  SumFunctionOnSet(w, S) \in Nat
<1> DEFINE Sum(s) == SumFunctionOnSet(w, s)
           bad == {s \in SUBSET S : Sum(s) \notin Nat}
<1>1. SUFFICES ASSUME bad # {} PROVE FALSE
  OBVIOUS
<1>2. PICK s \in bad : \A t \in SUBSET s : t # s => t \notin bad
  <2>1. bad \in SUBSET (SUBSET S)
    OBVIOUS
  <2> HIDE DEF bad
  <2> QED
    BY <1>1, <2>1, Smallest
<1>3. s # {}
  <2>1. SumFunctionOnSet(w, {}) = 0
    BY SumOfNothing
  <2> QED
    BY <2>1
<1>4. Pick(s) \in s /\ IsFiniteSet(s)
  BY <1>3, PickIn, FS_Subset
<1>5. Sum(s \ {Pick(s)}) \in Nat
  BY <1>2, <1>4
<1>6. Sum(s) = w[Pick(s)] + Sum(s \ {Pick(s)})
  BY <1>3, <1>4, SumPicks
<1> QED
  BY <1>2, <1>4, <1>5, <1>6

LEMMA SumIsPositive ==
  ASSUME NEW w, NEW S, IsFiniteSet(S), S # {}, \A x \in S : w[x] \in Nat \ {0}
  PROVE  SumFunctionOnSet(w, S) \in Nat \ {0}
<1>1. Pick(S) \in S /\ IsFiniteSet(S \ {Pick(S)})
  BY PickIn, FS_Subset
<1>2. SumFunctionOnSet(w, S \ {Pick(S)}) \in Nat
  BY <1>1, SumIsNat
<1>3. SumFunctionOnSet(w, S) = w[Pick(S)] + SumFunctionOnSet(w, S \ {Pick(S)})
  BY SumPicks
<1> QED
  BY <1>1, <1>2, <1>3
=============================================================================
