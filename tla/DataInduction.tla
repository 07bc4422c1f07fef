---------------------------- MODULE DataInduction -----------------------------
(***************************************************************************)
(* Induction over data, for provers that cannot instantiate an operator:   *)
(* a property of numbers or of finite sets is the set of those that have   *)
(* it, and a recursion is a function of functions.  All of it rests on     *)
(* WFMin, the least element of a set of naturals.                          *)
(***************************************************************************)
EXTENDS Integers, FiniteSets, Functions, WellFoundedInduction, FiniteSetTheorems, TLAPS

\* A non-empty set of naturals has a least element.
LEMMA LeastNatural ==
    ASSUME NEW T \in SUBSET Nat, T # {}
    PROVE  \E x \in T : \A y \in T : x <= y
<1>1. \E R : IsWellFoundedOn(R, Nat) /\ \A x, y \in Nat : x < y => <<x, y>> \in R
  <2>1. IsWellFoundedOn(OpToRel(<, Nat), Nat)
    BY NatLessThanWellFounded
  <2>2. \A x, y \in Nat : x < y => <<x, y>> \in OpToRel(<, Nat)
    BY DEF OpToRel
  <2> QED
    BY <2>1, <2>2
<1>2. PICK R : IsWellFoundedOn(R, Nat) /\ \A x, y \in Nat : x < y => <<x, y>> \in R
  BY <1>1
<1>3. T \subseteq Nat
  OBVIOUS
<1>4. \A RR, SS, TT : IsWellFoundedOn(RR, SS) /\ TT \subseteq SS /\ TT # {} =>
          \E x \in TT : \A y \in TT : ~ (<<y, x>> \in RR)
  BY WFMin
<1>5. IsWellFoundedOn(R, Nat)
  BY <1>2
<1>6. PICK x \in T : \A y \in T : ~ (<<y, x>> \in R)
  BY <1>3, <1>4, <1>5
<1>7. \A y \in T : ~ (y < x)
  BY <1>2, <1>3, <1>6
<1>8. \A y \in T : x <= y
  BY <1>3, <1>7
<1> QED
  BY <1>8

\* Induction over the naturals.
LEMMA SetInduction ==
    ASSUME NEW S, 0 \in S, \A n \in Nat : n \in S => n + 1 \in S
    PROVE  \A n \in Nat : n \in S
<1> SUFFICES ASSUME {n \in Nat : n \notin S} # {} PROVE FALSE
  OBVIOUS
<1>1. PICK x \in {n \in Nat : n \notin S} : \A y \in {n \in Nat : n \notin S} : x <= y
  BY LeastNatural
<1>2. x \in Nat /\ x # 0 /\ x \notin S
  BY <1>1
<1>3. x - 1 \in Nat
  BY <1>2
<1>4. x - 1 \in S
  BY <1>3, <1>1
<1> QED
  BY <1>2, <1>3, <1>4

\* Induction over an interval.
LEMMA IntervalInduction ==
    ASSUME NEW N \in Nat, NEW S, 0 \in S, \A n \in 1..N : n - 1 \in S => n \in S
    PROVE  \A n \in 0..N : n \in S
<1> DEFINE T == {n \in Nat : n \in 0..N => n \in S}
<1>1. 0 \in T
  OBVIOUS
<1>2. ASSUME NEW n \in Nat, n \in T PROVE n + 1 \in T
  <2>1. n + 1 \in 1..N => n \in 0..N /\ (n + 1) - 1 = n
    OBVIOUS
  <2>2. n + 1 \in 1..N => n + 1 \in S
    BY <1>2, <2>1
  <2> QED
    BY <2>2
<1> HIDE DEF T
<1>3. \A n \in Nat : n \in T
  BY <1>1, <1>2, SetInduction
<1> QED
  BY <1>3 DEF T

IsOver(f, N) == f = [n \in 0..N |-> f[n]]

\* Two functions over an interval that start alike and continue alike are one.
LEMMA SameRecursion ==
    ASSUME NEW N \in Nat, NEW f, NEW g,
           IsOver(f, N), IsOver(g, N), f[0] = g[0],
           \A n \in 1..N : f[n - 1] = g[n - 1] => f[n] = g[n]
    PROVE  f = g
<1> DEFINE S == {n \in 0..N : f[n] = g[n]}
<1>1. 0 \in S
  OBVIOUS
<1>2. ASSUME NEW n \in 1..N, n - 1 \in S PROVE n \in S
  <2>1. n \in 0..N
    OBVIOUS
  <2> QED
    BY <1>2, <2>1
<1> HIDE DEF S
<1>3. \A n \in 0..N : n \in S
  BY <1>1, <1>2, IntervalInduction
<1>4. \A n \in 0..N : f[n] = g[n]
  BY <1>3 DEF S
<1> QED
  BY <1>4 DEF IsOver

\* A recursion over an interval is the function its equation says: D[n] is the step
\* from n - 1 to n.
Recursion(f, N, c, D) == f = [n \in 0..N |-> IF n = 0 THEN c ELSE D[n][f[n - 1]]]

\* There is one whenever the steps stay in a set.
LEMMA RecursionExists ==
    ASSUME NEW N \in Nat, NEW X, NEW c \in X, NEW D \in [1..N -> [X -> X]]
    PROVE  \E f \in [0..N -> X] : Recursion(f, N, c, D)
<1> DEFINE S == {n \in 0..N : \E f \in [0..n -> X] :
                    f[0] = c /\ \A i \in 1..n : f[i] = D[i][f[i - 1]]}
<1>1. 0 \in S
  <2> DEFINE f == [i \in 0..0 |-> c]
  <2>1. f \in [0..0 -> X] /\ f[0] = c
    OBVIOUS
  <2>2. \A i \in 1..0 : FALSE
    OBVIOUS
  <2> HIDE DEF f
  <2>3. \E g \in [0..0 -> X] : g[0] = c /\ \A i \in 1..0 : g[i] = D[i][g[i - 1]]
    BY <2>1, <2>2
  <2> QED
    BY <2>3
<1>2. ASSUME NEW n \in 1..N, n - 1 \in S PROVE n \in S
  <2>1. PICK f \in [0..(n - 1) -> X] : f[0] = c /\ \A i \in 1..(n - 1) : f[i] = D[i][f[i - 1]]
    BY <1>2
  <2> DEFINE g == [i \in 0..n |-> IF i = n THEN D[n][f[n - 1]] ELSE f[i]]
  <2>2. f[n - 1] \in X /\ D[n] \in [X -> X]
    OBVIOUS
  <2>3. g \in [0..n -> X]
    BY <2>2
  <2>4. g[0] = c
    BY <2>1
  <2>5. ASSUME NEW i \in 1..n PROVE g[i] = D[i][g[i - 1]]
    <3>1. i - 1 \in 0..n /\ i - 1 # n /\ g[i - 1] = f[i - 1]
      OBVIOUS
    <3>2. CASE i = n
      BY <3>1, <3>2
    <3>3. CASE i # n
      BY <2>1, <3>1, <3>3
    <3> QED
      BY <3>2, <3>3
  <2> HIDE DEF g
  <2> QED
    BY <2>3, <2>4, <2>5
<1> HIDE DEF S
<1>3. N \in S
  <2>1. \A n \in 0..N : n \in S
    BY <1>1, <1>2, IntervalInduction
  <2> QED
    BY <2>1
<1>4. PICK f \in [0..N -> X] : f[0] = c /\ \A i \in 1..N : f[i] = D[i][f[i - 1]]
  BY <1>3 DEF S
<1>5. \A n \in 0..N : f[n] = IF n = 0 THEN c ELSE D[n][f[n - 1]]
  BY <1>4
<1>6. f = [n \in 0..N |-> IF n = 0 THEN c ELSE D[n][f[n - 1]]]
  BY <1>5
<1> QED
  BY <1>6 DEF Recursion

-----------------------------------------------------------------------------
(* Sums: the fold takes an element of what is left, whichever CHOOSE picks. *)

SomeOf(s) == CHOOSE x \in s : TRUE

SumRecursion(g, f, S) ==
    g = [s \in SUBSET S |-> IF s = {} THEN 0 ELSE f[SomeOf(s)] + g[s \ {SomeOf(s)}]]

\* SumFunctionOnSet is the recursion, whatever it is.
LEMMA SumUnfolds ==
    ASSUME NEW f, NEW S
    PROVE  SumFunctionOnSet(f, S) = (CHOOSE g : SumRecursion(g, f, S))[S]
  BY DEF SumFunctionOnSet, FoldFunctionOnSet, MapThenFoldSet, SumRecursion, SomeOf

\* Taking an element out leaves one less.
LEMMA OneLess ==
    ASSUME NEW S, IsFiniteSet(S), NEW s \in SUBSET S, s # {}
    PROVE  /\ SomeOf(s) \in s /\ SomeOf(s) \in S
           /\ s \ {SomeOf(s)} \in SUBSET S
           /\ Cardinality(s) \in 1..Cardinality(S)
           /\ Cardinality(s \ {SomeOf(s)}) = Cardinality(s) - 1
<1>1. SomeOf(s) \in s
  BY DEF SomeOf
<1>2. IsFiniteSet(s) /\ Cardinality(s) \in Nat /\ Cardinality(s) <= Cardinality(S)
  BY FS_Subset, FS_CardinalityType
<1>3. Cardinality(s) # 0
  BY <1>2, FS_EmptySet
<1>4. Cardinality(s \ {SomeOf(s)}) = Cardinality(s) - 1
  BY <1>1, <1>2, FS_RemoveElement
<1>5. Cardinality(S) \in Nat
  BY FS_CardinalityType
<1> QED
  BY <1>1, <1>2, <1>3, <1>4, <1>5

\* Induction over the subsets of a finite set, along the order a fold takes.
LEMMA SubsetInduction ==
    ASSUME NEW S, IsFiniteSet(S), NEW F,
           \A s \in SUBSET S : (s = {} \/ s \ {SomeOf(s)} \in F) => s \in F
    PROVE  \A s \in SUBSET S : s \in F
<1> DEFINE N == {n \in Nat : \A s \in SUBSET S : Cardinality(s) = n => s \in F}
<1>1. 0 \in N
  <2>1. ASSUME NEW s \in SUBSET S, Cardinality(s) = 0 PROVE s \in F
    <3>1. s = {}
      BY <2>1, FS_Subset, FS_EmptySet
    <3> QED
      BY <3>1
  <2> QED
    BY <2>1
<1>2. ASSUME NEW n \in Nat, n \in N PROVE n + 1 \in N
  <2>1. ASSUME NEW s \in SUBSET S, Cardinality(s) = n + 1 PROVE s \in F
    <3>1. CASE s = {}
      BY <3>1
    <3>2. CASE s # {}
      <4>1. s \ {SomeOf(s)} \in SUBSET S /\ Cardinality(s \ {SomeOf(s)}) = n
        BY <2>1, <3>2, OneLess
      <4>2. s \ {SomeOf(s)} \in F
        BY <1>2, <4>1
      <4> QED
        BY <4>2
    <3> QED
      BY <3>1, <3>2
  <2> QED
    BY <2>1
<1>3. \A s \in SUBSET S : Cardinality(s) \in Nat
  BY FS_Subset, FS_CardinalityType
<1> HIDE DEF N
<1>4. \A n \in Nat : n \in N
  BY <1>1, <1>2, SetInduction
<1> QED
  BY <1>3, <1>4 DEF N

\* There is a sum of numbers, built up by the size of the set.
LEMMA SumExists ==
    ASSUME NEW S, IsFiniteSet(S), NEW f \in [S -> Int]
    PROVE  \E g : SumRecursion(g, f, S)
<1> DEFINE X == [SUBSET S -> Int]
           N == Cardinality(S)
           Zero == [s \in SUBSET S |-> 0]
           Step(n, h) == [s \in SUBSET S |->
               IF Cardinality(s) = n /\ s # {} THEN f[SomeOf(s)] + h[s \ {SomeOf(s)}] ELSE h[s]]
           D == [n \in 1..N |-> [h \in X |-> Step(n, h)]]
<1>1. N \in Nat
  BY FS_CardinalityType
<1>2. Zero \in X
  OBVIOUS
<1>3. D \in [1..N -> [X -> X]]
  <2>1. ASSUME NEW n \in 1..N, NEW h \in X PROVE Step(n, h) \in X
    <3>1. ASSUME NEW s \in SUBSET S PROVE Step(n, h)[s] \in Int
      <4>1. CASE Cardinality(s) = n /\ s # {}
        BY <4>1, OneLess
      <4>2. CASE ~(Cardinality(s) = n /\ s # {})
        BY <4>2
      <4> QED
        BY <4>1, <4>2
    <3> QED
      BY <3>1
  <2> HIDE DEF Step, X
  <2> QED
    BY <2>1
<1> HIDE DEF D
<1>4. PICK F \in [0..N -> X] : Recursion(F, N, Zero, D)
  <2> HIDE DEF X, Zero
  <2> QED
    BY <1>1, <1>2, <1>3, RecursionExists
<1>5. F[0] = Zero /\ \A n \in 1..N : F[n] = D[n][F[n - 1]]
  <2> HIDE DEF X, Zero, N
  <2>1. F = [n \in 0..N |-> IF n = 0 THEN Zero ELSE D[n][F[n - 1]]]
    BY <1>4 DEF Recursion
  <2>2. 0 \in 0..N /\ \A n \in 1..N : n \in 0..N /\ n # 0
    BY <1>1
  <2> QED
    BY <2>1, <2>2
<1>6. ASSUME NEW n \in 1..N PROVE F[n] = Step(n, F[n - 1])
  <2>1. n - 1 \in 0..N
    BY <1>1
  <2>2. F[n - 1] \in X
    BY <1>4, <2>1
  <2> QED
    BY <1>5, <2>2 DEF D
<1> DEFINE g == [s \in SUBSET S |-> F[Cardinality(s)][s]]
<1>7. ASSUME NEW s \in SUBSET S PROVE g[s] = IF s = {} THEN 0 ELSE f[SomeOf(s)] + g[s \ {SomeOf(s)}]
  <2>1. CASE s = {}
    <3>1. Cardinality(s) = 0
      BY <2>1, FS_EmptySet
    <3> QED
      BY <1>5, <2>1, <3>1
  <2>2. CASE s # {}
    <3>1. /\ Cardinality(s) \in 1..N /\ s \ {SomeOf(s)} \in SUBSET S
          /\ Cardinality(s \ {SomeOf(s)}) = Cardinality(s) - 1
      BY <2>2, OneLess
    <3>2. F[Cardinality(s)] = Step(Cardinality(s), F[Cardinality(s) - 1])
      BY <1>6, <3>1
    <3>3. g[s \ {SomeOf(s)}] = F[Cardinality(s) - 1][s \ {SomeOf(s)}]
      BY <3>1
    <3>4. g[s] = F[Cardinality(s)][s]
      OBVIOUS
    <3>5. Step(Cardinality(s), F[Cardinality(s) - 1])[s] = f[SomeOf(s)] + F[Cardinality(s) - 1][s \ {SomeOf(s)}]
      BY <2>2
    <3> HIDE DEF g, Step
    <3> QED
      BY <2>2, <3>2, <3>3, <3>4, <3>5
  <2> QED
    BY <2>1, <2>2
<1>8. g = [s \in SUBSET S |-> g[s]]
  OBVIOUS
<1> HIDE DEF g
<1>9. g = [s \in SUBSET S |-> IF s = {} THEN 0 ELSE f[SomeOf(s)] + g[s \ {SomeOf(s)}]]
  BY <1>7, <1>8
<1> QED
  BY <1>9 DEF SumRecursion

\* What an induction uses of a sum: its value on the empty set, and one step.
SumsUp(g, f, S) ==
    /\ SumFunctionOnSet(f, S) = g[S]
    /\ g[{}] = 0
    /\ \A s \in SUBSET S : s # {} => g[s] = f[SomeOf(s)] + g[s \ {SomeOf(s)}]
    /\ \A s \in SUBSET S : g[s] \in Int

LEMMA SumEquations == ASSUME NEW S, IsFiniteSet(S), NEW f \in [S -> Int] PROVE \E g : SumsUp(g, f, S)
<1> DEFINE g == CHOOSE h : SumRecursion(h, f, S)
<1>1. SumRecursion(g, f, S)
  BY SumExists
<1>2. SumFunctionOnSet(f, S) = g[S]
  BY SumUnfolds
<1> HIDE DEF g
<1>3. g[{}] = 0 /\ \A s \in SUBSET S : s # {} => g[s] = f[SomeOf(s)] + g[s \ {SomeOf(s)}]
  BY <1>1 DEF SumRecursion
<1> DEFINE F == {s \in SUBSET S : g[s] \in Int}
<1>4. ASSUME NEW s \in SUBSET S, s = {} \/ s \ {SomeOf(s)} \in F PROVE s \in F
  <2>1. CASE s = {}
    BY <1>3, <2>1
  <2>2. CASE s # {}
    <3>1. f[SomeOf(s)] \in Int
      BY <2>2, OneLess
    <3>2. g[s \ {SomeOf(s)}] \in Int
      BY <1>4, <2>2
    <3>3. g[s] = f[SomeOf(s)] + g[s \ {SomeOf(s)}]
      BY <1>3, <2>2
    <3>4. g[s] \in Int
      BY <3>1, <3>2, <3>3
    <3> QED
      BY <3>4
  <2> QED
    BY <2>1, <2>2
<1> HIDE DEF F
<1>5. \A s \in SUBSET S : s \in F
  BY <1>4, SubsetInduction
<1>6. \A s \in SUBSET S : g[s] \in Int
  BY <1>5 DEF F
<1> QED
  BY <1>2, <1>3, <1>6 DEF SumsUp

-----------------------------------------------------------------------------
(* What sums are used for.                                                  *)

\* A sum of naturals is a natural, and covers each of them.
LEMMA SumCovers ==
    ASSUME NEW S, IsFiniteSet(S), NEW f \in [S -> Nat]
    PROVE  SumFunctionOnSet(f, S) \in Nat /\ \A x \in S : f[x] <= SumFunctionOnSet(f, S)
<1>1. f \in [S -> Int]
  OBVIOUS
<1>2. PICK g : SumsUp(g, f, S)
  BY <1>1, SumEquations
<1> USE DEF SumsUp
<1> DEFINE F == {s \in SUBSET S : g[s] \in Nat /\ \A x \in s : f[x] <= g[s]}
<1>3. ASSUME NEW s \in SUBSET S, s = {} \/ s \ {SomeOf(s)} \in F PROVE s \in F
  <2>1. CASE s = {}
    BY <1>2, <2>1
  <2>2. CASE s # {}
    <3>1. f[SomeOf(s)] \in Nat
      BY <2>2, OneLess
    <3>2. g[s \ {SomeOf(s)}] \in Nat /\ \A x \in s \ {SomeOf(s)} : f[x] <= g[s \ {SomeOf(s)}]
      BY <1>3, <2>2
    <3>3. g[s] = f[SomeOf(s)] + g[s \ {SomeOf(s)}]
      BY <1>2, <2>2
    <3>4. g[s] \in Nat /\ f[SomeOf(s)] <= g[s]
      BY <3>1, <3>2, <3>3
    <3>5. ASSUME NEW x \in s, x # SomeOf(s) PROVE f[x] <= g[s]
      <4>1. f[x] <= g[s \ {SomeOf(s)}] /\ f[x] \in Nat
        BY <3>2, <3>5
      <4> QED
        BY <3>1, <3>2, <3>3, <4>1
    <3> QED
      BY <3>4, <3>5
  <2> QED
    BY <2>1, <2>2
<1> HIDE DEF F
<1>4. \A s \in SUBSET S : s \in F
  BY <1>3, SubsetInduction
<1>5. S \in F
  BY <1>4
<1> QED
  BY <1>2, <1>5 DEF F

\* Changing one summand changes the sum by as much.
LEMMA SumChanges ==
    ASSUME NEW S, IsFiniteSet(S), NEW f \in [S -> Int], NEW h \in [S -> Int], NEW r \in S,
           \A x \in S \ {r} : h[x] = f[x]
    PROVE  SumFunctionOnSet(h, S) = SumFunctionOnSet(f, S) - f[r] + h[r]
<1>1. PICK g : SumsUp(g, f, S)
  BY SumEquations
<1>2. PICK k : SumsUp(k, h, S)
  BY SumEquations
<1> USE DEF SumsUp
<1> DEFINE F == {s \in SUBSET S : k[s] = IF r \in s THEN g[s] - f[r] + h[r] ELSE g[s]}
<1>3. ASSUME NEW s \in SUBSET S, s = {} \/ s \ {SomeOf(s)} \in F PROVE s \in F
  <2>1. CASE s = {}
    BY <1>1, <1>2, <2>1
  <2>2. CASE s # {}
    <3> DEFINE t == s \ {SomeOf(s)}
    <3>1. SomeOf(s) \in s /\ SomeOf(s) \in S /\ t \in SUBSET S
      BY <2>2, OneLess
    <3>2. k[t] = IF r \in t THEN g[t] - f[r] + h[r] ELSE g[t]
      BY <1>3, <2>2
    <3>3. g[s] = f[SomeOf(s)] + g[t] /\ k[s] = h[SomeOf(s)] + k[t]
      BY <1>1, <1>2, <2>2
    <3>4. g[t] \in Int /\ k[t] \in Int /\ f[r] \in Int /\ h[r] \in Int
          /\ f[SomeOf(s)] \in Int /\ h[SomeOf(s)] \in Int
      BY <1>1, <1>2, <3>1
    <3>5. CASE r = SomeOf(s)
      <4>1. r \in s /\ r \notin t
        BY <3>1, <3>5
      <4>2. k[s] = g[s] - f[r] + h[r]
        BY <3>2, <3>3, <3>4, <3>5, <4>1
      <4> QED
        BY <4>1, <4>2
    <3>6. CASE r # SomeOf(s)
      <4>1. (r \in s <=> r \in t) /\ h[SomeOf(s)] = f[SomeOf(s)]
        BY <3>1, <3>6
      <4> HIDE DEF t
      <4>2. CASE r \in s
        <5>1. k[s] = g[s] - f[r] + h[r]
          BY <3>2, <3>3, <3>4, <4>1, <4>2
        <5> QED
          BY <4>2, <5>1
      <4>3. CASE r \notin s
        BY <3>2, <3>3, <4>1, <4>3
      <4> QED
        BY <4>2, <4>3
    <3> QED
      BY <3>5, <3>6
  <2> QED
    BY <2>1, <2>2
<1> HIDE DEF F
<1>4. \A s \in SUBSET S : s \in F
  BY <1>3, SubsetInduction
<1>5. S \in F
  BY <1>4
<1> QED
  BY <1>1, <1>2, <1>5 DEF F

\* A sum of nothing is nothing.
LEMMA SumOfZeros ==
    ASSUME NEW S, IsFiniteSet(S), NEW f \in [S -> Int], \A x \in S : f[x] = 0
    PROVE  SumFunctionOnSet(f, S) = 0
<1>1. PICK g : SumsUp(g, f, S)
  BY SumEquations
<1> USE DEF SumsUp
<1> DEFINE F == {s \in SUBSET S : g[s] = 0}
<1>2. ASSUME NEW s \in SUBSET S, s = {} \/ s \ {SomeOf(s)} \in F PROVE s \in F
  <2>1. CASE s = {}
    BY <1>1, <2>1
  <2>2. CASE s # {}
    <3>1. f[SomeOf(s)] = 0
      BY <2>2, OneLess
    <3>2. g[s \ {SomeOf(s)}] = 0
      BY <1>2, <2>2
    <3>3. g[s] = f[SomeOf(s)] + g[s \ {SomeOf(s)}]
      BY <1>1, <2>2
    <3>4. g[s] = 0
      BY <3>1, <3>2, <3>3
    <3> QED
      BY <3>4
  <2> QED
    BY <2>1, <2>2
<1> HIDE DEF F
<1>3. \A s \in SUBSET S : s \in F
  BY <1>2, SubsetInduction
<1>4. S \in F
  BY <1>3
<1> QED
  BY <1>1, <1>4 DEF F
=============================================================================
