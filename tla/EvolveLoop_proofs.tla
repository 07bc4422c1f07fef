-------------------------- MODULE EvolveLoop_proofs --------------------------
(***************************************************************************)
(* Proofs about EvolveLoop: what the ideas of a round and the replay of a  *)
(* ledger are for every number of batches and rows, that candidates,       *)
(* ledger and owner agree whoever dies where, that the best idea wins, and *)
(* that what ships was let through by a verdict of its own.                *)
(***************************************************************************)
EXTENDS EvolveLoop, DataInduction, TLAPS

-----------------------------------------------------------------------------
(* What Keep, Dedupe and IdeasOf return.                                   *)

\* What Keep adds at one position.
KeepStep(held, m, S) == IF m \in S \ Range(held) THEN Append(held, m) ELSE held

\* The recursion of Keep, as its equation.
LEMMA KeepDef ==
    ASSUME NEW M, NEW start \in Seq(M), NEW seq \in Seq(M), NEW S \in SUBSET M
    PROVE  \E f \in [0..Len(seq) -> Seq(M)] :
              /\ f[0] = start
              /\ \A n \in 1..Len(seq) : f[n] = KeepStep(f[n - 1], seq[n], S)
              /\ Keep(start, seq, S) = f[Len(seq)]
<1> DEFINE N == Len(seq)
           X == Seq(M)
           D == [n \in 1..N |-> [h \in X |-> KeepStep(h, seq[n], S)]]
           E(f) == f = [n \in 0..N |-> IF n = 0 THEN start
                           ELSE IF seq[n] \in S \ Range(f[n - 1]) THEN Append(f[n - 1], seq[n])
                           ELSE f[n - 1]]
<1>1. N \in Nat
  OBVIOUS
<1>2. D \in [1..N -> [X -> X]]
  <2>1. ASSUME NEW n \in 1..N, NEW h \in X PROVE KeepStep(h, seq[n], S) \in X
    <3>1. seq[n] \in M
      OBVIOUS
    <3>2. Append(h, seq[n]) \in X
      BY <3>1
    <3> QED
      BY <3>2 DEF KeepStep
  <2> QED
    BY <2>1
<1> HIDE DEF N, X, D
<1>3. PICK f \in [0..N -> X] : Recursion(f, N, start, D)
  BY <1>1, <1>2, RecursionExists DEF X
<1>4. /\ f[0] = start
      /\ \A n \in 1..N : f[n] = KeepStep(f[n - 1], seq[n], S)
  <2>1. \A n \in 0..N : f[n] = IF n = 0 THEN start ELSE D[n][f[n - 1]]
    BY <1>3 DEF Recursion
  <2>2. ASSUME NEW n \in 1..N PROVE f[n] = KeepStep(f[n - 1], seq[n], S)
    <3>1. n \in 0..N /\ n # 0 /\ n - 1 \in 0..N
      BY <1>1
    <3>2. f[n - 1] \in X
      BY <3>1
    <3>3. D[n][f[n - 1]] = KeepStep(f[n - 1], seq[n], S)
      BY <3>2 DEF D
    <3> QED
      BY <2>1, <3>1, <3>3
  <2>3. f[0] = start
    BY <1>1, <2>1
  <2> QED
    BY <2>2, <2>3
<1>5. E(f)
  <2>1. ASSUME NEW n \in 0..N
        PROVE  f[n] = IF n = 0 THEN start
                      ELSE IF seq[n] \in S \ Range(f[n - 1]) THEN Append(f[n - 1], seq[n])
                      ELSE f[n - 1]
    <3>1. CASE n = 0
      BY <1>4, <3>1
    <3>2. CASE n # 0
      <4>1. n \in 1..N
        BY <1>1, <3>2
      <4> QED
        BY <1>4, <3>2, <4>1 DEF KeepStep
    <3> QED
      BY <3>1, <3>2
  <2> QED
    BY <2>1
<1>6. ASSUME NEW g, E(g) PROVE g = f
  <2>1. ASSUME NEW n \in 0..N
        PROVE  g[n] = IF n = 0 THEN start
                      ELSE IF seq[n] \in S \ Range(g[n - 1]) THEN Append(g[n - 1], seq[n])
                      ELSE g[n - 1]
    BY <1>6
  <2>2. g[0] = f[0]
    BY <1>1, <1>4, <2>1
  <2>3. ASSUME NEW n \in 1..N, g[n - 1] = f[n - 1] PROVE g[n] = f[n]
    <3>1. n \in 0..N /\ n # 0
      BY <1>1
    <3>2. g[n] = KeepStep(f[n - 1], seq[n], S)
      BY <2>1, <2>3, <3>1 DEF KeepStep
    <3> QED
      BY <1>4, <3>2
  <2>4. IsOver(f, N)
    BY DEF IsOver
  <2>5. IsOver(g, N)
    BY <1>6 DEF IsOver
  <2> HIDE DEF E
  <2> QED
    BY <1>1, <2>2, <2>3, <2>4, <2>5, SameRecursion
<1>7. (CHOOSE g : E(g)) = f
  <2>1. E(CHOOSE g : E(g))
    BY <1>5
  <2> QED
    BY <1>6, <2>1
<1>8. Keep(start, seq, S) = f[N]
  BY <1>7 DEF Keep, N
<1> QED
  BY <1>3, <1>4, <1>8 DEF N, X

\* No element twice.
IsDistinct(s) == \A i, j \in DOMAIN s : s[i] = s[j] => i = j

\* One position adds its element, if it is one of S and not held.
LEMMA KeepStepFacts ==
    ASSUME NEW M, NEW h \in Seq(M), IsDistinct(h), NEW m \in M, NEW S \in SUBSET M,
           NEW g, g = KeepStep(h, m, S)
    PROVE  /\ g \in Seq(M) /\ IsDistinct(g) /\ Len(g) \in Len(h)..(Len(h) + 1)
           /\ Range(g) \subseteq Range(h) \cup S /\ Range(h) \subseteq Range(g)
           /\ m \in S => m \in Range(g)
           /\ \A i \in 1..Len(h) : g[i] = h[i]
<1>1. CASE m \in S \ Range(h)
  <2>1. g = Append(h, m)
    BY <1>1 DEF KeepStep
  <2>2. /\ g \in Seq(M) /\ Len(g) = Len(h) + 1 /\ DOMAIN g = 1..(Len(h) + 1) /\ DOMAIN h = 1..Len(h)
        /\ g[Len(h) + 1] = m /\ \A i \in 1..Len(h) : g[i] = h[i]
    BY <2>1
  <2>3. Len(h) \in Nat
    OBVIOUS
  <2>4. \A i \in 1..(Len(h) + 1) : i # Len(h) + 1 => i \in 1..Len(h)
    BY <2>3
  <2>5. \A i \in 1..Len(h) : h[i] # m
    BY <1>1, <2>2 DEF Range
  <2>6. IsDistinct(g)
    BY <2>2, <2>4, <2>5 DEF IsDistinct
  <2>7. Range(g) = Range(h) \cup {m}
    BY <2>2, <2>3, <2>4 DEF Range
  <2> QED
    BY <1>1, <2>2, <2>3, <2>6, <2>7
<1>2. CASE m \notin S \ Range(h)
  <2>1. g = h /\ (m \in S => m \in Range(h))
    BY <1>2 DEF KeepStep
  <2> QED
    BY <2>1
<1> QED
  BY <1>1, <1>2

\* Keep keeps what it began with, and of the rest each element of S once.
LEMMA KeepFacts ==
    ASSUME NEW M, NEW start \in Seq(M), IsDistinct(start), NEW seq \in Seq(M), NEW S \in SUBSET M,
           NEW r, r = Keep(start, seq, S)
    PROVE  /\ r \in Seq(M) /\ IsDistinct(r) /\ Len(r) \in Len(start)..(Len(start) + Len(seq))
           /\ Range(r) \subseteq Range(start) \cup S
           /\ \A i \in 1..Len(start) : r[i] = start[i]
           /\ \A i \in 1..Len(seq) : seq[i] \in S => seq[i] \in Range(r)
<1> DEFINE N == Len(seq)
<1>1. PICK f \in [0..N -> Seq(M)] : /\ f[0] = start
                                    /\ \A n \in 1..N : f[n] = KeepStep(f[n - 1], seq[n], S)
                                    /\ r = f[N]
  BY KeepDef
<1>2. N \in Nat /\ Len(start) \in Nat
  OBVIOUS
<1> HIDE DEF N
<1> DEFINE Good(n) == /\ IsDistinct(f[n]) /\ Len(f[n]) \in Len(start)..(Len(start) + n)
                      /\ Range(f[n]) \subseteq Range(start) \cup S
                      /\ \A i \in 1..Len(start) : f[n][i] = start[i]
                      /\ \A i \in 1..n : seq[i] \in S => seq[i] \in Range(f[n])
           T == {n \in 0..N : Good(n)}
<1>3. 0 \in T
  BY <1>1, <1>2
<1>4. ASSUME NEW n \in 1..N, n - 1 \in T PROVE n \in T
  <2> DEFINE h == f[n - 1]
             g == f[n]
             m == seq[n]
  <2>1. n \in Nat /\ n \in 0..N /\ n - 1 \in 0..N /\ \A i \in 1..n : i = n \/ i \in 1..(n - 1)
    BY <1>2
  <2>2. h \in Seq(M) /\ Good(n - 1)
    BY <1>4, <2>1
  <2>3. m \in M
    BY DEF N
  <2>4. g = KeepStep(h, m, S)
    BY <1>1
  <2> HIDE DEF h, g, m
  <2>5. IsDistinct(h)
    BY <2>2 DEF h
  <2>6. /\ g \in Seq(M) /\ IsDistinct(g) /\ Len(g) \in Len(h)..(Len(h) + 1)
        /\ Range(g) \subseteq Range(h) \cup S /\ Range(h) \subseteq Range(g)
        /\ m \in S => m \in Range(g)
        /\ \A i \in 1..Len(h) : g[i] = h[i]
    BY <2>2, <2>3, <2>4, <2>5, KeepStepFacts
  <2>7. /\ Len(h) \in Len(start)..(Len(start) + (n - 1)) /\ Range(h) \subseteq Range(start) \cup S
        /\ \A i \in 1..Len(start) : h[i] = start[i]
        /\ \A i \in 1..(n - 1) : seq[i] \in S => seq[i] \in Range(h)
    BY <2>2 DEF h
  <2>8. Len(g) \in Len(start)..(Len(start) + n)
    BY <1>2, <2>1, <2>6, <2>7
  <2>9. \A i \in 1..Len(start) : g[i] = start[i]
    BY <1>2, <2>1, <2>6, <2>7
  <2>10. \A i \in 1..n : seq[i] \in S => seq[i] \in Range(g)
    BY <2>1, <2>6, <2>7 DEF m
  <2>11. Good(n)
    BY <2>6, <2>7, <2>8, <2>9, <2>10 DEF g
  <2> QED
    BY <2>1, <2>11
<1> HIDE DEF T
<1>5. \A n \in 0..N : n \in T
  BY <1>2, <1>3, <1>4, IntervalInduction
<1>6. Good(N)
  BY <1>2, <1>5 DEF T
<1> QED
  BY <1>1, <1>2, <1>6 DEF N

\* s begins with a.
Extends(s, a) == Len(s) >= Len(a) /\ \A i \in 1..Len(a) : s[i] = a[i]

\* What was kept stays where it was when more is added behind it.
LEMMA KeepPrefix ==
    ASSUME NEW M, NEW start \in Seq(M), Extends(<<>>, start), NEW seq \in Seq(M), NEW S \in SUBSET M,
           NEW a \in Seq(S), IsDistinct(a), Extends(seq, a),
           NEW r, r = Keep(start, seq, S)
    PROVE  Extends(r, a)
<1> DEFINE N == Len(seq)
           A == Len(a)
<1>1. /\ N \in Nat /\ A \in Nat /\ A <= N /\ DOMAIN a = 1..A
      /\ \A i \in 1..A : seq[i] = a[i] /\ a[i] \in S
      /\ \A i, j \in 1..A : a[i] = a[j] => i = j
      /\ \A i \in 1..N : seq[i] \in M
      /\ Len(start) = 0
  BY DEF IsDistinct, Extends
<1>2. PICK f \in [0..N -> Seq(M)] : /\ f[0] = start
                                    /\ \A n \in 1..N : f[n] = KeepStep(f[n - 1], seq[n], S)
                                    /\ r = f[N]
  <2>1. \E f \in [0..Len(seq) -> Seq(M)] :
            /\ f[0] = start
            /\ \A n \in 1..Len(seq) : f[n] = KeepStep(f[n - 1], seq[n], S)
            /\ Keep(start, seq, S) = f[Len(seq)]
    BY KeepDef
  <2> QED
    BY <2>1
<1> HIDE DEF N, A
<1> DEFINE Good(n) == IF n <= A THEN Len(f[n]) = n /\ \A i \in 1..n : f[n][i] = a[i]
                                ELSE Len(f[n]) >= A /\ \A i \in 1..A : f[n][i] = a[i]
           T == {n \in 0..N : Good(n)}
<1>3. 0 \in T
  BY <1>1, <1>2
<1>4. ASSUME NEW n \in 1..N, n - 1 \in T PROVE n \in T
  <2> DEFINE h == f[n - 1]
             g == f[n]
             m == seq[n]
  <2>1. n \in Nat /\ n \in 0..N /\ n - 1 \in 0..N /\ \A i \in 1..n : i = n \/ i \in 1..(n - 1)
    BY <1>1
  <2>2. h \in Seq(M) /\ g \in Seq(M) /\ g = KeepStep(h, m, S) /\ m \in M
    BY <1>1, <1>2, <2>1
  <2>3. Good(n - 1)
    BY <1>4
  <2>4. /\ n - 1 <= A => Len(h) = n - 1 /\ \A i \in 1..(n - 1) : h[i] = a[i]
        /\ ~(n - 1 <= A) => Len(h) >= A /\ \A i \in 1..A : h[i] = a[i]
    BY <2>3
  <2>5. n <= A => m = a[n] /\ n \in 1..A /\ m \in S
    BY <1>1, <2>1
  <2> HIDE DEF h, g, m
  <2>6. CASE n <= A
    <3>1. Len(h) = n - 1 /\ \A i \in 1..(n - 1) : h[i] = a[i]
      BY <1>1, <2>1, <2>4, <2>6
    <3>2. ASSUME NEW i \in 1..(n - 1) PROVE h[i] # m
      <4>1. i \in 1..A /\ n \in 1..A /\ i # n
        BY <1>1, <2>1, <2>6
      <4> QED
        BY <1>1, <2>5, <2>6, <3>1, <4>1
    <3>3. m \notin Range(h)
      BY <2>2, <3>1, <3>2 DEF Range
    <3>4. g = Append(h, m)
      BY <2>2, <2>5, <2>6, <3>3 DEF KeepStep
    <3>5. Len(g) = n /\ g[n] = m /\ \A i \in 1..(n - 1) : g[i] = h[i]
      BY <2>1, <2>2, <3>1, <3>4
    <3>6. \A i \in 1..n : g[i] = a[i]
      BY <2>1, <2>5, <2>6, <3>1, <3>5
    <3> QED
      BY <2>1, <2>6, <3>5, <3>6 DEF g
  <2>7. CASE ~(n <= A)
    <3>1. Len(h) \in Nat /\ Len(h) >= A /\ \A i \in 1..A : h[i] = a[i]
      BY <1>1, <2>1, <2>2, <2>4, <2>7
    <3>2. Len(g) >= Len(h) /\ \A i \in 1..Len(h) : g[i] = h[i]
      BY <2>2, <3>1 DEF KeepStep
    <3>3. Len(g) \in Nat /\ Len(g) >= A /\ \A i \in 1..A : g[i] = a[i]
      <4>1. Len(g) \in Nat /\ A \in Nat
        BY <1>1, <2>2
      <4>2. \A i \in 1..A : i \in 1..Len(h)
        BY <3>1, <4>1
      <4> QED
        BY <3>1, <3>2, <4>1, <4>2
    <3> QED
      BY <2>1, <2>7, <3>3 DEF g
  <2> QED
    BY <2>6, <2>7
<1> HIDE DEF T
<1>5. \A n \in 0..N : n \in T
  BY <1>1, <1>3, <1>4, IntervalInduction
<1>6. Good(N)
  BY <1>1, <1>5 DEF T
<1>7. Len(r) >= A /\ \A i \in 1..A : r[i] = a[i]
  <2>1. r = f[N] /\ (N <= A => N = A)
    BY <1>1, <1>2
  <2>2. CASE N <= A
    <3>1. Len(f[N]) = N /\ \A i \in 1..N : f[N][i] = a[i]
      BY <1>6, <2>2
    <3> QED
      BY <1>1, <2>1, <2>2, <3>1
  <2>3. CASE ~(N <= A)
    <3>1. Len(f[N]) >= A /\ \A i \in 1..A : f[N][i] = a[i]
      BY <1>6, <2>3
    <3> QED
      BY <2>1, <3>1
  <2> QED
    BY <2>2, <2>3
<1> QED
  BY <1>7 DEF A, Extends

\* A batch holds no mechanism twice, is no longer than asked for, and is not empty
\* if anything was offered.
LEMMA DedupeFacts ==
    ASSUME NEW ideas \in Seq(Mechs), NEW keep \in Mechs \cup {NoMech}, NEW r, r = Dedupe(ideas, keep)
    PROVE  /\ r \in Seq(Mechs) /\ IsDistinct(r) /\ Len(r) <= TargetOf(keep)
           /\ ideas # <<>> => Len(r) >= 1
<1> DEFINE start == IF keep \in Range(ideas) THEN <<keep>> ELSE <<>>
           held == Keep(start, ideas, Mechs)
           n == IF Len(held) < TargetOf(keep) THEN Len(held) ELSE TargetOf(keep)
<1>1. start \in Seq(Mechs) /\ IsDistinct(start) /\ Len(start) \in Nat /\ Mechs \in SUBSET Mechs
  <2>1. Range(ideas) \subseteq Mechs
    BY DEF Range
  <2>2. CASE keep \in Range(ideas)
    BY <2>1, <2>2 DEF IsDistinct
  <2>3. CASE keep \notin Range(ideas)
    BY <2>3 DEF IsDistinct
  <2> QED
    BY <2>2, <2>3
<1> HIDE DEF start
<1>2. /\ held \in Seq(Mechs) /\ IsDistinct(held)
      /\ \A i \in 1..Len(ideas) : ideas[i] \in Mechs => ideas[i] \in Range(held)
  BY <1>1, KeepFacts
<1>3. r = SubSeq(held, 1, n)
  BY DEF Dedupe, start
<1> HIDE DEF held
<1>4. TargetOf(keep) \in Nat \ {0}
  BY EvolveAssumption DEF TargetOf
<1>5. /\ n \in 0..Len(held) /\ n <= TargetOf(keep) /\ Len(held) \in Nat
      /\ Len(held) >= 1 => n >= 1
  BY <1>2, <1>4
<1> HIDE DEF n
<1>6. r \in Seq(Mechs) /\ Len(r) = n /\ \A i \in 1..n : r[i] = held[i]
  BY <1>2, <1>3, <1>5
<1>7. IsDistinct(r)
  BY <1>2, <1>5, <1>6 DEF IsDistinct
<1>8. ideas # <<>> => Len(held) >= 1
  <2>1. SUFFICES ASSUME ideas # <<>> PROVE Len(held) >= 1
    OBVIOUS
  <2>2. 1 \in 1..Len(ideas) /\ ideas[1] \in Mechs
    BY <2>1
  <2>3. ideas[1] \in Range(held)
    BY <1>2, <2>2
  <2>4. \E i \in DOMAIN held : TRUE
    BY <2>3 DEF Range
  <2> QED
    BY <1>2, <1>5, <2>4
<1> QED
  BY <1>5, <1>6, <1>7, <1>8

\* What a batch without a warm idea is merged into stays in front of it.
LEMMA DedupePrefix ==
    ASSUME NEW a \in Seq(Mechs), IsDistinct(a), Len(a) <= TargetOf(NoMech), NEW b \in Seq(Mechs),
           NEW r, r = Dedupe(a \o b, NoMech)
    PROVE  Extends(r, a)
<1> DEFINE held == Keep(<<>>, a \o b, Mechs)
           n == IF Len(held) < TargetOf(NoMech) THEN Len(held) ELSE TargetOf(NoMech)
<1>1. a \o b \in Seq(Mechs) /\ Len(a) \in Nat
  OBVIOUS
<1>2. NoMech \notin Range(a \o b)
  BY <1>1, EvolveAssumption DEF Range
<1>3. r = SubSeq(held, 1, n)
  BY <1>2 DEF Dedupe
<1>4. Len(held) >= Len(a) /\ \A i \in 1..Len(a) : held[i] = a[i]
  <2>1. /\ a \o b \in Seq(Mechs) /\ <<>> \in Seq(Mechs) /\ Mechs \in SUBSET Mechs
        /\ Extends(a \o b, a) /\ Extends(<<>>, <<>>)
    BY DEF Extends
  <2> HIDE DEF held
  <2>2. ASSUME NEW seq \in Seq(Mechs), Extends(seq, a) PROVE Extends(Keep(<<>>, seq, Mechs), a)
    BY <2>1, <2>2, KeepPrefix
  <2>3. Extends(held, a)
    BY <2>1, <2>2 DEF held
  <2> QED
    BY <2>3 DEF Extends
<1>5. held \in Seq(Mechs)
  <2>1. <<>> \in Seq(Mechs) /\ IsDistinct(<<>>) /\ Mechs \in SUBSET Mechs
    BY DEF IsDistinct
  <2> QED
    BY <1>1, <2>1, KeepFacts
<1> HIDE DEF held
<1>6. TargetOf(NoMech) \in Nat
  BY EvolveAssumption DEF TargetOf
<1>7. n \in 0..Len(held) /\ n >= Len(a) /\ Len(held) \in Nat
  BY <1>1, <1>4, <1>5, <1>6
<1> HIDE DEF n
<1>8. Len(r) = n /\ \A i \in 1..n : r[i] = held[i]
  BY <1>3, <1>5, <1>7
<1> QED
  BY <1>1, <1>4, <1>7, <1>8 DEF Extends

\* The recursion of IdeasOf, as its equation.
LEMMA IdeasDef ==
    ASSUME NEW batches \in Seq(Seq(Mechs)), NEW keep \in Mechs \cup {NoMech}
    PROVE  \E f \in [0..Len(batches) -> Seq(Mechs)] :
              /\ f[0] = <<>>
              /\ \A n \in 1..Len(batches) : f[n] = Dedupe(f[n - 1] \o batches[n], keep)
              /\ IdeasOf(batches, keep) = f[Len(batches)]
<1> DEFINE N == Len(batches)
           X == Seq(Mechs)
           D == [n \in 1..N |-> [h \in X |-> Dedupe(h \o batches[n], keep)]]
           E(f) == f = [n \in 0..N |-> IF n = 0 THEN <<>>
                                       ELSE Dedupe(f[n - 1] \o batches[n], keep)]
<1>1. N \in Nat /\ \A n \in 1..N : batches[n] \in X
  OBVIOUS
<1>2. D \in [1..N -> [X -> X]]
  <2>1. ASSUME NEW n \in 1..N, NEW h \in X PROVE Dedupe(h \o batches[n], keep) \in X
    <3>1. h \o batches[n] \in X
      BY <1>1
    <3> QED
      BY <3>1, DedupeFacts
  <2> QED
    BY <2>1
<1> HIDE DEF N, X, D
<1>3. PICK f \in [0..N -> X] : Recursion(f, N, <<>>, D)
  <2>1. <<>> \in X
    BY DEF X
  <2> QED
    BY <1>1, <1>2, <2>1, RecursionExists
<1>4. /\ f[0] = <<>>
      /\ \A n \in 1..N : f[n] = Dedupe(f[n - 1] \o batches[n], keep)
  <2>1. \A n \in 0..N : f[n] = IF n = 0 THEN <<>> ELSE D[n][f[n - 1]]
    BY <1>3 DEF Recursion
  <2>2. ASSUME NEW n \in 1..N PROVE f[n] = Dedupe(f[n - 1] \o batches[n], keep)
    <3>1. n \in 0..N /\ n # 0 /\ n - 1 \in 0..N
      BY <1>1
    <3>2. f[n - 1] \in X
      BY <3>1
    <3>3. D[n][f[n - 1]] = Dedupe(f[n - 1] \o batches[n], keep)
      BY <3>2 DEF D
    <3> QED
      BY <2>1, <3>1, <3>3
  <2>3. f[0] = <<>>
    BY <1>1, <2>1
  <2> QED
    BY <2>2, <2>3
<1>5. E(f)
  <2>1. ASSUME NEW n \in 0..N
        PROVE  f[n] = IF n = 0 THEN <<>> ELSE Dedupe(f[n - 1] \o batches[n], keep)
    <3>1. n = 0 \/ n \in 1..N
      BY <1>1
    <3> QED
      BY <1>4, <3>1
  <2> QED
    BY <2>1
<1>6. ASSUME NEW g, E(g) PROVE g = f
  <2>1. ASSUME NEW n \in 0..N
        PROVE  g[n] = IF n = 0 THEN <<>> ELSE Dedupe(g[n - 1] \o batches[n], keep)
    BY <1>6
  <2>2. g[0] = f[0]
    BY <1>1, <1>4, <2>1
  <2>3. ASSUME NEW n \in 1..N, g[n - 1] = f[n - 1] PROVE g[n] = f[n]
    <3>1. n \in 0..N /\ n # 0
      BY <1>1
    <3> QED
      BY <1>4, <2>1, <2>3, <3>1
  <2>4. IsOver(f, N)
    BY DEF IsOver
  <2>5. IsOver(g, N)
    BY <1>6 DEF IsOver
  <2> HIDE DEF E
  <2> QED
    BY <1>1, <2>2, <2>3, <2>4, <2>5, SameRecursion
<1>7. (CHOOSE g : E(g)) = f
  <2>1. E(CHOOSE g : E(g))
    BY <1>5
  <2> QED
    BY <1>6, <2>1
<1>8. IdeasOf(batches, keep) = f[N]
  BY <1>7 DEF IdeasOf, N
<1> QED
  BY <1>3, <1>4, <1>8 DEF N, X

\* Recorded batches: none is empty.
Batched == Seq(Seq(Mechs) \ {<<>>})

\* The ideas of a round: one per mechanism, no more than asked for, and some if
\* there was a batch.
LEMMA IdeasFacts ==
    ASSUME NEW batches \in Batched, NEW keep \in Mechs \cup {NoMech},
           NEW r, r = IdeasOf(batches, keep)
    PROVE  /\ r \in Seq(Mechs) /\ IsDistinct(r) /\ Len(r) <= TargetOf(keep)
           /\ batches # <<>> => Len(r) >= 1
<1> DEFINE N == Len(batches)
<1>1. batches \in Seq(Seq(Mechs)) /\ N \in Nat /\ \A n \in 1..N : batches[n] \in Seq(Mechs) \ {<<>>}
  BY DEF Batched
<1>2. PICK f \in [0..N -> Seq(Mechs)] :
              /\ f[0] = <<>>
              /\ \A n \in 1..N : f[n] = Dedupe(f[n - 1] \o batches[n], keep)
              /\ r = f[N]
  BY <1>1, IdeasDef
<1>3. CASE batches = <<>>
  <2>1. r = <<>>
    BY <1>2, <1>3
  <2>2. TargetOf(keep) \in Nat
    BY EvolveAssumption DEF TargetOf
  <2>3. IsDistinct(r) /\ Len(r) = 0 /\ r \in Seq(Mechs)
    BY <2>1 DEF IsDistinct
  <2> QED
    BY <1>3, <2>2, <2>3
<1>4. CASE batches # <<>>
  <2>1. N \in 1..N /\ N - 1 \in 0..N
    BY <1>1, <1>4
  <2> DEFINE h == f[N - 1]
             b == batches[N]
  <2>2. h \in Seq(Mechs) /\ b \in Seq(Mechs) /\ b # <<>> /\ r = Dedupe(h \o b, keep)
    BY <1>1, <1>2, <2>1
  <2> HIDE DEF h, b
  <2>3. h \o b \in Seq(Mechs) /\ h \o b # <<>>
    BY <2>2
  <2> QED
    BY <2>2, <2>3, DedupeFacts
<1> QED
  BY <1>3, <1>4

\* One more batch is merged into the ideas there are.
LEMMA IdeasAppend ==
    ASSUME NEW batches \in Seq(Seq(Mechs)), NEW keep \in Mechs \cup {NoMech}, NEW b \in Seq(Mechs),
           NEW more, more = Append(batches, b)
    PROVE  IdeasOf(more, keep) = Dedupe(IdeasOf(batches, keep) \o b, keep)
<1> DEFINE N == Len(batches)
<1>1. /\ N \in Nat /\ more \in Seq(Seq(Mechs)) /\ Len(more) = N + 1 /\ more[N + 1] = b
      /\ \A n \in 1..N : more[n] = batches[n]
  OBVIOUS
<1>2. PICK f \in [0..N -> Seq(Mechs)] :
              /\ f[0] = <<>>
              /\ \A n \in 1..N : f[n] = Dedupe(f[n - 1] \o batches[n], keep)
              /\ IdeasOf(batches, keep) = f[N]
  BY IdeasDef
<1>3. PICK g \in [0..Len(more) -> Seq(Mechs)] :
              /\ g[0] = <<>>
              /\ \A n \in 1..Len(more) : g[n] = Dedupe(g[n - 1] \o more[n], keep)
              /\ IdeasOf(more, keep) = g[Len(more)]
  BY <1>1, IdeasDef
<1> HIDE DEF N
<1> DEFINE T == {n \in 0..N : f[n] = g[n]}
<1>4. 0 \in T
  BY <1>1, <1>2, <1>3
<1>5. ASSUME NEW n \in 1..N, n - 1 \in T PROVE n \in T
  <2>1. n \in 0..N /\ n \in 1..Len(more) /\ f[n - 1] = g[n - 1]
    BY <1>1, <1>5
  <2> QED
    BY <1>1, <1>2, <1>3, <2>1
<1> HIDE DEF T
<1>6. \A n \in 0..N : n \in T
  BY <1>1, <1>4, <1>5, IntervalInduction
<1>7. f[N] = g[N]
  BY <1>1, <1>6 DEF T
<1>8. N + 1 \in 1..Len(more) /\ (N + 1) - 1 = N
  BY <1>1
<1>9. g[N + 1] = Dedupe(g[(N + 1) - 1] \o more[N + 1], keep)
  BY <1>3, <1>8
<1> QED
  BY <1>1, <1>2, <1>3, <1>7, <1>8, <1>9

\* Without a warm start a further batch leaves the ideas there are where they are.
LEMMA IdeasGrow ==
    ASSUME NEW batches \in Batched, NEW b \in Seq(Mechs), NEW more, more = Append(batches, b)
    PROVE  Extends(IdeasOf(more, NoMech), IdeasOf(batches, NoMech))
<1> DEFINE a == IdeasOf(batches, NoMech)
<1>1. batches \in Seq(Seq(Mechs))
  BY DEF Batched
<1>2. a \in Seq(Mechs) /\ IsDistinct(a) /\ Len(a) <= TargetOf(NoMech)
  BY IdeasFacts
<1>3. IdeasOf(more, NoMech) = Dedupe(a \o b, NoMech)
  BY <1>1, IdeasAppend
<1> HIDE DEF a
<1> QED
  BY <1>2, <1>3, DedupePrefix DEF a

-----------------------------------------------------------------------------
(* What Replay returns.                                                    *)

\* What the ledger's rows and the replayed state are.
Results == Scores \cup {NoScore}
Rows == {row \in [mech : Mechs, outcome : {"win", "lose", "suppressed", "unavailable"},
                  score : Results, order : Seq(Mechs)] :
            row.outcome = "win" => row.score # NoScore}
LoopStates == [round : Nat, best : Results, champion : (Nat \X Mechs) \cup {<<>>},
               mech : Mechs \cup {NoMech}, tries : Nat, dry : Nat, tried : SUBSET Mechs]

\* A round applied to a loop state: its type, count, tried mechanisms and champion.
LEMMA ApplyType ==
    ASSUME NEW l \in LoopStates, NEW mech \in Mechs, NEW score \in Results, NEW verdict,
           NEW also \in SUBSET Mechs
    PROVE  /\ ApplyRound(l, mech, score, verdict, also) \in LoopStates
           /\ ApplyRound(l, mech, score, verdict, also).round = l.round + 1
           /\ ApplyRound(l, mech, score, verdict, also).tried = l.tried \cup {mech} \cup also
           /\ verdict = "win" =>
                 /\ ApplyRound(l, mech, score, verdict, also).best = score
                 /\ ApplyRound(l, mech, score, verdict, also).champion = <<l.round + 1, mech>>
           /\ verdict # "win" =>
                 /\ ApplyRound(l, mech, score, verdict, also).best = l.best
                 /\ ApplyRound(l, mech, score, verdict, also).champion = l.champion
<1> DEFINE r == ApplyRound(l, mech, score, verdict, also)
           tries == IF mech = l.mech THEN l.tries + 1 ELSE 1
           dry == IF tries >= Patience THEN l.dry + 1 ELSE l.dry
<1>1. /\ l = [round |-> l.round, best |-> l.best, champion |-> l.champion, mech |-> l.mech,
              tries |-> l.tries, dry |-> l.dry, tried |-> l.tried]
      /\ l.round \in Nat /\ l.best \in Results /\ l.champion \in (Nat \X Mechs) \cup {<<>>}
      /\ l.tries \in Nat /\ l.dry \in Nat /\ l.tried \in SUBSET Mechs
  BY DEF LoopStates
<1>2. CASE verdict = "win"
  <2>1. r = [round |-> l.round + 1, best |-> score, champion |-> <<l.round + 1, mech>>,
             mech |-> mech, tries |-> 0, dry |-> 0, tried |-> l.tried \cup {mech} \cup also]
    BY <1>1, <1>2 DEF ApplyRound
  <2> HIDE DEF r
  <2>2. r \in LoopStates
    BY <1>1, <2>1 DEF LoopStates
  <2> QED
    BY <1>2, <2>1, <2>2 DEF r
<1>3. CASE verdict # "win"
  <2>1. tries \in Nat
    BY <1>1
  <2>2. dry \in Nat
    BY <1>1, <2>1, EvolveAssumption
  <2>3. r = [round |-> l.round + 1, best |-> l.best, champion |-> l.champion,
             mech |-> mech, tries |-> tries, dry |-> dry, tried |-> l.tried \cup {mech} \cup also]
    BY <1>1, <1>3 DEF ApplyRound
  <2> HIDE DEF r, tries, dry
  <2>4. r \in LoopStates
    BY <1>1, <2>1, <2>2, <2>3 DEF LoopStates
  <2> QED
    BY <1>3, <2>3, <2>4 DEF r
<1> QED
  BY <1>2, <1>3

\* The same for a row of the ledger.
LEMMA ReplayedType ==
    ASSUME NEW l \in LoopStates, NEW row \in Rows
    PROVE  Replayed(l, row) \in LoopStates
<1>1. row.mech \in Mechs /\ row.score \in Results /\ AlsoTried(row) \in SUBSET Mechs
  BY DEF Rows, AlsoTried, Range
<1> QED
  BY <1>1, ApplyType DEF Replayed

\* The loop starts in a loop state.
LEMMA StartType == Start \in LoopStates
  BY DEF Start, LoopStates, Results

\* The recursion of Replay, as its equation.
LEMMA ReplayDef ==
    ASSUME NEW l \in Seq(Rows)
    PROVE  \E f \in [0..Len(l) -> LoopStates] :
              /\ f[0] = Start
              /\ \A n \in 1..Len(l) : f[n] = Replayed(f[n - 1], l[n])
              /\ Replay(l) = f[Len(l)]
<1> DEFINE N == Len(l)
           X == LoopStates
           D == [n \in 1..N |-> [h \in X |-> Replayed(h, l[n])]]
           E(f) == f = [n \in 0..N |-> IF n = 0 THEN Start ELSE Replayed(f[n - 1], l[n])]
<1>1. N \in Nat /\ \A n \in 1..N : l[n] \in Rows
  OBVIOUS
<1>2. D \in [1..N -> [X -> X]]
  BY <1>1, ReplayedType
<1> HIDE DEF N, X, D
<1>3. PICK f \in [0..N -> X] : Recursion(f, N, Start, D)
  <2>1. Start \in X
    BY StartType DEF X
  <2> QED
    BY <1>1, <1>2, <2>1, RecursionExists
<1>4. /\ f[0] = Start
      /\ \A n \in 1..N : f[n] = Replayed(f[n - 1], l[n])
  <2>1. \A n \in 0..N : f[n] = IF n = 0 THEN Start ELSE D[n][f[n - 1]]
    BY <1>3 DEF Recursion
  <2>2. ASSUME NEW n \in 1..N PROVE f[n] = Replayed(f[n - 1], l[n])
    <3>1. n \in 0..N /\ n # 0 /\ n - 1 \in 0..N
      BY <1>1
    <3>2. f[n - 1] \in X
      BY <3>1
    <3>3. D[n][f[n - 1]] = Replayed(f[n - 1], l[n])
      BY <3>2 DEF D
    <3> QED
      BY <2>1, <3>1, <3>3
  <2>3. f[0] = Start
    BY <1>1, <2>1
  <2> QED
    BY <2>2, <2>3
<1>5. E(f)
  <2>1. ASSUME NEW n \in 0..N
        PROVE  f[n] = IF n = 0 THEN Start ELSE Replayed(f[n - 1], l[n])
    <3>1. n = 0 \/ n \in 1..N
      BY <1>1
    <3> QED
      BY <1>4, <3>1
  <2> QED
    BY <2>1
<1>6. ASSUME NEW g, E(g) PROVE g = f
  <2>1. ASSUME NEW n \in 0..N
        PROVE  g[n] = IF n = 0 THEN Start ELSE Replayed(g[n - 1], l[n])
    BY <1>6
  <2>2. g[0] = f[0]
    BY <1>1, <1>4, <2>1
  <2>3. ASSUME NEW n \in 1..N, g[n - 1] = f[n - 1] PROVE g[n] = f[n]
    <3>1. n \in 0..N /\ n # 0
      BY <1>1
    <3> QED
      BY <1>4, <2>1, <2>3, <3>1
  <2>4. IsOver(f, N)
    BY DEF IsOver
  <2>5. IsOver(g, N)
    BY <1>6 DEF IsOver
  <2> HIDE DEF E
  <2> QED
    BY <1>1, <2>2, <2>3, <2>4, <2>5, SameRecursion
<1>7. (CHOOSE g : E(g)) = f
  <2>1. E(CHOOSE g : E(g))
    BY <1>5
  <2> QED
    BY <1>6, <2>1
<1>8. Replay(l) = f[N]
  BY <1>7 DEF Replay, N
<1> QED
  BY <1>3, <1>4, <1>8 DEF N, X

\* Nothing replayed is the start.
LEMMA ReplayEmpty == Replay(<<>>) = Start
<1>1. <<>> \in Seq(Rows) /\ Len(<<>>) = 0
  OBVIOUS
<1> QED
  BY <1>1, ReplayDef

\* A ledger is replayed to a loop state.
LEMMA ReplayType ==
    ASSUME NEW l \in Seq(Rows)
    PROVE  Replay(l) \in LoopStates
<1>1. Len(l) \in 0..Len(l)
  OBVIOUS
<1> QED
  BY <1>1, ReplayDef

\* A row is replayed upon what the rows before it come to.
LEMMA ReplayAppend ==
    ASSUME NEW l \in Seq(Rows), NEW row \in Rows, NEW more, more = Append(l, row)
    PROVE  Replay(more) = Replayed(Replay(l), row)
<1> DEFINE N == Len(l)
<1>1. /\ N \in Nat /\ more \in Seq(Rows) /\ Len(more) = N + 1 /\ more[N + 1] = row
      /\ \A n \in 1..N : more[n] = l[n]
  OBVIOUS
<1>2. PICK f \in [0..N -> LoopStates] :
              /\ f[0] = Start
              /\ \A n \in 1..N : f[n] = Replayed(f[n - 1], l[n])
              /\ Replay(l) = f[N]
  BY ReplayDef
<1>3. PICK g \in [0..Len(more) -> LoopStates] :
              /\ g[0] = Start
              /\ \A n \in 1..Len(more) : g[n] = Replayed(g[n - 1], more[n])
              /\ Replay(more) = g[Len(more)]
  BY <1>1, ReplayDef
<1> HIDE DEF N
<1> DEFINE T == {n \in 0..N : f[n] = g[n]}
<1>4. 0 \in T
  BY <1>1, <1>2, <1>3
<1>5. ASSUME NEW n \in 1..N, n - 1 \in T PROVE n \in T
  <2>1. n \in 0..N /\ n \in 1..Len(more) /\ f[n - 1] = g[n - 1]
    BY <1>1, <1>5
  <2> QED
    BY <1>1, <1>2, <1>3, <2>1
<1> HIDE DEF T
<1>6. \A n \in 0..N : n \in T
  BY <1>1, <1>4, <1>5, IntervalInduction
<1>7. f[N] = g[N]
  BY <1>1, <1>6 DEF T
<1>8. N + 1 \in 1..Len(more) /\ (N + 1) - 1 = N
  BY <1>1
<1>9. g[N + 1] = Replayed(g[(N + 1) - 1], more[N + 1])
  BY <1>3, <1>8
<1> QED
  BY <1>1, <1>2, <1>3, <1>7, <1>8, <1>9

-----------------------------------------------------------------------------
(* The inductive invariant.                                                *)

Screens == [of : Mechs \cup {NoMech}, score : Results]
Pairs(n) == {order \in [1..2 -> 1..n] : order[1] # order[2]}

\* The recorded answers, by the fields of their record.
CallsTyped(c) ==
    /\ c = [batches |-> c.batches, critic |-> c.critic, rank |-> c.rank,
            screen |-> c.screen, final |-> c.final]
    /\ c.batches \in Batched
    /\ c.rank = [n |-> c.rank.n, order |-> c.rank.order, tie |-> c.rank.tie]
    /\ c.rank.n \in Nat /\ c.rank.tie \in BOOLEAN
    /\ c.rank.n >= 2 => c.rank.order \in Pairs(c.rank.n)
    /\ c.screen \in [Tokens -> Screens]
    /\ c.final \in {"none", "cleared", "short"}

Typed ==
    /\ ledger \in Seq(Rows) /\ Len(ledger) <= MaxRounds
    /\ CallsTyped(calls)
    /\ evals \in [Mechs -> Screens] /\ screens \in [Tokens -> Screens]
    /\ loop \in LoopStates /\ loop.round <= MaxRounds
    /\ similar \in Mechs \cup {NoMech} /\ warm \in Mechs \cup {NoMech}
    /\ outcome \in {"none", "winner", "no_action", "abstained"}
    /\ measured \in {"no", "planned", "yes"}
    /\ evolved \in BOOLEAN
    /\ pc \in {"stage", "round", "work", "final", "ended"}

\* What the rows of a ledger of n rounds come to.
Follows(l, n) ==
    /\ l.round = n
    /\ l.champion = <<>> \/ l.champion \in (1..n) \X Mechs
    /\ l.champion = <<>> <=> l.best = NoScore
    /\ l.best # NoScore => l.best >= Floor

\* The owner is where the ledger is, but for what it benched itself.
InStep(l, replayed) ==
    /\ l.round = replayed.round /\ l.best = replayed.best /\ l.champion = replayed.champion
    /\ l.mech = replayed.mech /\ l.tries = replayed.tries /\ l.dry = replayed.dry
    /\ replayed.tried \subseteq l.tried

\* A candidate and the ledger of n rounds it was committed with.
InLedger(c, l, n) ==
    /\ c = [id |-> c.id, status |-> c.status, judged |-> c.judged, screen |-> c.screen,
            final |-> c.final]
    /\ c.id \in (1..n) \X Mechs
    /\ c.status \in {"suppressed", "discarded", "champion"}
    /\ c.final \in {"none", "cleared", "short", "abstained"}
    /\ c.screen \in Screens
    /\ c.status = "champion" <=> c.id = l.champion
    /\ c.status # "suppressed" => c.id[2] \in l.tried
    /\ c.id = l.champion => c.screen.score = l.best

Position ==
    /\ Follows(Replay(ledger), Len(ledger))
    /\ pc \in {"round", "work"} => ~evolved /\ InStep(loop, Replay(ledger))
    /\ pc = "work" => Len(ledger) < MaxRounds
    /\ outcome = "winner" => evolved /\ pc = "stage"

\* Only the finalists of a round that is generated, reviewed and ranked have screens.
ScreensOfFinalists ==
    \A t \in Tokens : screens[t] # NoScreen => pc = "work" /\ Selected /\ t \in Range(Finalists)

InLedgers == \A c \in cands : InLedger(c, Replay(ledger), Len(ledger))

WinnerConfirmed ==
    outcome = "winner" => \E c \in cands : c.id = Replay(ledger).champion /\ c.final = "cleared"

LoopInv == Typed /\ Position /\ ScreensOfFinalists /\ InLedgers /\ WinnerConfirmed

-----------------------------------------------------------------------------
(* What a round is made of.                                                *)

\* The ideas of the round: distinct mechanisms, one for each token at most.
LEMMA IdeasOfRound ==
    ASSUME Typed
    PROVE  /\ Ideas \in Seq(Mechs) /\ IsDistinct(Ideas) /\ DOMAIN Ideas = 1..Len(Ideas)
           /\ DOMAIN Ideas \subseteq Tokens
           /\ ~NeedsBatch => 1 \in DOMAIN Ideas
<1>1. calls.batches \in Batched /\ warm \in Mechs \cup {NoMech}
  BY DEF Typed, CallsTyped
<1>2. /\ Ideas \in Seq(Mechs) /\ IsDistinct(Ideas) /\ Len(Ideas) <= TargetOf(warm)
      /\ calls.batches # <<>> => Len(Ideas) >= 1
  BY <1>1, IdeasFacts DEF Ideas
<1>3. TargetOf(warm) <= CandidateCount + 1 /\ TargetOf(warm) \in Nat /\ CandidateCount \in Nat
  BY EvolveAssumption DEF TargetOf
<1>4. ~NeedsBatch => calls.batches # <<>>
  BY DEF NeedsBatch
<1>5. Len(Ideas) \in Nat /\ DOMAIN Ideas = 1..Len(Ideas)
  BY <1>2
<1>6. DOMAIN Ideas \subseteq Tokens
  BY <1>2, <1>3, <1>5 DEF Tokens
<1> QED
  BY <1>2, <1>4, <1>5, <1>6

\* The rankable positions: every idea that is not vetoed and that the critic passed,
\* once.
LEMMA RankableFacts ==
    ASSUME Typed
    PROVE  /\ Rankable \in Seq(DOMAIN Ideas) /\ IsDistinct(Rankable)
           /\ DOMAIN Rankable = 1..Len(Rankable) /\ Len(Rankable) \in Nat
           /\ DOMAIN Rankable \subseteq Tokens
           /\ \A i \in Range(Rankable) : i \in ToReview /\ Passes(i)
<1> DEFINE S == {i \in ToReview : Passes(i)}
           seq == [t \in Tokens |-> t]
<1>1. DOMAIN Ideas \subseteq Tokens
  BY IdeasOfRound
<1>2. S \subseteq DOMAIN Ideas /\ S \in SUBSET Tokens /\ \A i \in S : i \in ToReview /\ Passes(i)
  BY <1>1 DEF ToReview
<1>3. CandidateCount + 1 \in Nat
  BY EvolveAssumption
<1>4. seq \in Seq(Tokens) /\ Len(seq) = CandidateCount + 1 /\ <<>> \in Seq(Tokens) /\ IsDistinct(<<>>)
  BY <1>3 DEF Tokens, IsDistinct
<1>5. Rankable = Keep(<<>>, seq, S)
  BY DEF Rankable
<1> HIDE DEF S, seq
<1> DEFINE start == <<>>
<1>13. start \in Seq(Tokens) /\ IsDistinct(start) /\ Rankable = Keep(start, seq, S)
  BY <1>4, <1>5
<1> HIDE DEF start
<1>6. /\ Rankable \in Seq(Tokens) /\ IsDistinct(Rankable)
      /\ Len(Rankable) \in Len(start)..(Len(start) + Len(seq))
      /\ Range(Rankable) \subseteq Range(start) \cup S
  <2>1. S \in SUBSET Tokens /\ seq \in Seq(Tokens)
    BY <1>2, <1>4
  <2> QED
    BY <1>13, <2>1, KeepFacts
<1> USE DEF start
<1>7. Len(Rankable) \in 0..(CandidateCount + 1) /\ Range(<<>>) = {}
  BY <1>3, <1>4, <1>6 DEF Range
<1>8. Range(Rankable) \subseteq S
  BY <1>6, <1>7
<1>9. \A k \in DOMAIN Rankable : Rankable[k] \in DOMAIN Ideas
  BY <1>2, <1>8 DEF Range
<1>10. DOMAIN Rankable = 1..Len(Rankable)
  BY <1>6
<1>11. Rankable = [k \in 1..Len(Rankable) |-> Rankable[k]]
  BY <1>6
<1>12. Rankable \in Seq(DOMAIN Ideas)
  BY <1>7, <1>9, <1>10, <1>11
<1> QED
  BY <1>2, <1>3, <1>6, <1>7, <1>8, <1>10, <1>12 DEF Tokens

\* One token is screened, or the two of a tie.
LEMMA FinalistFacts ==
    ASSUME Typed, Selected
    PROVE  /\ \A k \in DOMAIN Finalists : Finalists[k] \in DOMAIN Rankable
           /\ DOMAIN Finalists = {} \/ DOMAIN Finalists = {1} \/ DOMAIN Finalists = {1, 2}
           /\ DOMAIN Finalists = {} <=> Finalists = <<>>
           /\ Rankable = <<>> => Finalists = <<>>
<1> DEFINE n == Len(Rankable)
<1>1. /\ DOMAIN Rankable = 1..n /\ n \in Nat
      /\ Rankable = <<>> => n = 0
  BY RankableFacts
<1>2. CASE n = 0 \/ rankFailed
  BY <1>1, <1>2 DEF Finalists
<1>3. CASE n = 1 /\ ~rankFailed
  BY <1>1, <1>3 DEF Finalists
<1>4. CASE n >= 2 /\ ~rankFailed
  <2>1. calls.rank.n = n
    BY <1>4 DEF Selected, NeedsRank
  <2>2. calls.rank.order \in Pairs(n)
    BY <1>4, <2>1 DEF Typed, CallsTyped
  <2>3. /\ DOMAIN calls.rank.order = {1, 2}
        /\ calls.rank.order[1] \in 1..n /\ calls.rank.order[2] \in 1..n
    BY <2>2 DEF Pairs
  <2>4. Finalists = calls.rank.order \/ Finalists = <<calls.rank.order[1]>>
    BY <1>1, <1>4 DEF Finalists
  <2>5. CASE Finalists = calls.rank.order
    BY <1>1, <1>4, <2>3, <2>5
  <2>6. CASE Finalists = <<calls.rank.order[1]>>
    BY <1>1, <1>4, <2>3, <2>6
  <2> QED
    BY <2>4, <2>5, <2>6
<1> QED
  BY <1>1, <1>2, <1>3, <1>4

\* The first of the best scored is one: no finalist has more.
LEMMA BestScoredFacts ==
    ASSUME screens \in [Tokens -> Screens], NEW f, DOMAIN f = {1} \/ DOMAIN f = {1, 2},
           \A k \in DOMAIN f : f[k] \in Tokens, Scored(f) # {}
    PROVE  \E k \in Scored(f) : /\ BestScored(f) = f[k]
                                /\ \A j \in Scored(f) : screens[f[j]].score <= screens[f[k]].score
<1> DEFINE s(k) == screens[f[k]].score
           Best(k) == \A j \in Scored(f) : s(j) <= s(k) /\ (j < k => s(j) < s(k))
<1>1. Scored(f) \subseteq {1, 2} /\ \A k \in Scored(f) : s(k) \in Nat
  <2>1. \A k \in Scored(f) : k \in DOMAIN f /\ s(k) # NoScore
    BY DEF Scored
  <2>2. \A k \in DOMAIN f : s(k) \in Scores \cup {NoScore}
    BY DEF Screens, Results
  <2> QED
    BY <2>1, <2>2, EvolveAssumption
<1>2. \E k \in Scored(f) : Best(k)
  <2>1. CASE 1 \in Scored(f) /\ 2 \notin Scored(f)
    BY <1>1, <2>1
  <2>2. CASE 2 \in Scored(f) /\ 1 \notin Scored(f)
    BY <1>1, <2>2
  <2>3. CASE 1 \in Scored(f) /\ 2 \in Scored(f) /\ s(2) <= s(1)
    BY <1>1, <2>3
  <2>4. CASE 1 \in Scored(f) /\ 2 \in Scored(f) /\ ~(s(2) <= s(1))
    BY <1>1, <2>4
  <2> QED
    BY <1>1, <2>1, <2>2, <2>3, <2>4
<1> DEFINE k == CHOOSE k \in Scored(f) : Best(k)
<1>3. k \in Scored(f) /\ Best(k)
  BY <1>2
<1>4. BestScored(f) = f[k]
  BY DEF BestScored
<1> QED
  BY <1>3, <1>4

\* The verdict is of the best scored of the finalists, and a win is a win.
LEMMA VerdictFacts ==
    ASSUME Typed, ScreensOfFinalists, Selected, NEW v, v = Verdict(Rankable, Finalists)
    PROVE  /\ v = [outcome |-> v.outcome, score |-> v.score, at |-> v.at]
           /\ v.at \in DOMAIN Ideas /\ v.score \in Results
           /\ v.outcome \in {"win", "lose", "suppressed", "unavailable"}
           /\ v.outcome = "win" => v.score # NoScore /\ IsWin(loop, v.score)
           /\ v.outcome # "win" /\ v.score # NoScore => ~IsWin(loop, v.score)
           /\ v.outcome = "win" => \E t \in DOMAIN Rankable : /\ v.at = Rankable[t]
                                                            /\ v.score = screens[t].score
           /\ \A t \in Tokens : screens[t].score # NoScore =>
                 v.score # NoScore /\ screens[t].score <= v.score
<1> DEFINE f == Finalists
<1>1. /\ \A k \in DOMAIN f : f[k] \in DOMAIN Rankable
      /\ DOMAIN f = {} \/ DOMAIN f = {1} \/ DOMAIN f = {1, 2}
      /\ DOMAIN f = {} <=> f = <<>>
      /\ Rankable = <<>> => f = <<>>
  BY FinalistFacts
<1>2. /\ \A k \in DOMAIN Rankable : Rankable[k] \in DOMAIN Ideas /\ k \in Tokens
      /\ Rankable # <<>> => 1 \in DOMAIN Rankable
      /\ 1 \in DOMAIN Ideas
  BY RankableFacts, IdeasOfRound DEF Selected
<1>3. screens \in [Tokens -> Screens]
  BY DEF Typed
<1>4. ASSUME NEW t \in Tokens, screens[t].score # NoScore PROVE \E k \in Scored(f) : t = f[k]
  <2>1. screens[t] # NoScreen
    BY <1>4 DEF NoScreen
  <2>2. t \in Range(f)
    BY <2>1 DEF ScreensOfFinalists
  <2> QED
    BY <1>4, <2>2 DEF Range, Scored
<1>5. NoScore \in Results
  BY DEF Results
<1> HIDE DEF f
<1>6. CASE Rankable = <<>>
  <2>1. v = [outcome |-> "suppressed", score |-> NoScore, at |-> 1]
    BY <1>6 DEF Verdict
  <2>2. Scored(f) = {}
    BY <1>1, <1>6 DEF Scored
  <2> QED
    BY <1>2, <1>4, <1>5, <2>1, <2>2
<1>7. CASE Rankable # <<>> /\ Scored(f) = {}
  <2> DEFINE i == Rankable[IF f = <<>> THEN 1 ELSE f[1]]
  <2>1. v = [outcome |-> "unavailable", score |-> NoScore, at |-> i]
    BY <1>7 DEF Verdict, f
  <2>2. i \in DOMAIN Ideas
    BY <1>1, <1>2, <1>7
  <2> HIDE DEF i
  <2> QED
    BY <1>4, <1>5, <1>7, <2>1, <2>2
<1>8. CASE Rankable # <<>> /\ Scored(f) # {}
  <2>1. DOMAIN f = {1} \/ DOMAIN f = {1, 2}
    BY <1>1, <1>8 DEF Scored
  <2>2. PICK k \in Scored(f) : /\ BestScored(f) = f[k]
                               /\ \A j \in Scored(f) : screens[f[j]].score <= screens[f[k]].score
    <3>1. \A j \in DOMAIN f : f[j] \in Tokens
      BY <1>1, <1>2
    <3> QED
      BY <1>3, <1>8, <2>1, <3>1, BestScoredFacts
  <2> DEFINE best == f[k]
  <2>3. v = [outcome |-> IF IsWin(loop, screens[best].score) THEN "win" ELSE "lose",
             score |-> screens[best].score, at |-> Rankable[best]]
    BY <1>8, <2>2 DEF Verdict, f
  <2>4. best \in DOMAIN Rankable /\ best \in Tokens /\ screens[best].score # NoScore
    BY <1>1, <1>2, <2>2 DEF Scored
  <2>5. screens[best].score \in Results
    BY <1>3, <2>4 DEF Screens
  <2>6. \A t \in Tokens : screens[t].score # NoScore => screens[t].score <= screens[best].score
    BY <1>4, <2>2
  <2> HIDE DEF best
  <2>7. /\ v = [outcome |-> v.outcome, score |-> v.score, at |-> v.at]
        /\ v.score = screens[best].score /\ v.at = Rankable[best]
        /\ v.outcome = IF IsWin(loop, screens[best].score) THEN "win" ELSE "lose"
    BY <2>3
  <2> QED
    BY <1>2, <2>4, <2>5, <2>6, <2>7
<1> QED
  BY <1>6, <1>7, <1>8

-----------------------------------------------------------------------------
(* The invariant is inductive.                                             *)

\* A round without calls is typed.
LEMMA NoCallsTyped == CallsTyped(NoCalls)
<1> DEFINE c == NoCalls
<1>1. NoScreen \in Screens /\ <<>> \in Batched
  BY DEF NoScreen, Screens, Results, Batched
<1>2. /\ c = [batches |-> <<>>, critic |-> <<>>, rank |-> NoRanking,
              screen |-> [t \in Tokens |-> NoScreen], final |-> "none"]
      /\ NoRanking = [n |-> 0, order |-> <<>>, tie |-> FALSE]
  BY DEF NoCalls, NoRanking
<1> HIDE DEF c
<1>3. /\ c.batches = <<>> /\ c.critic = <<>> /\ c.rank = NoRanking
      /\ c.screen = [t \in Tokens |-> NoScreen] /\ c.final = "none"
  BY <1>2
<1>4. /\ NoRanking.n = 0 /\ NoRanking.order = <<>> /\ NoRanking.tie = FALSE
  BY <1>2
<1>5. c.screen \in [Tokens -> Screens]
  BY <1>1, <1>3
<1>6. c = [batches |-> c.batches, critic |-> c.critic, rank |-> c.rank,
           screen |-> c.screen, final |-> c.final]
  BY <1>2, <1>3
<1>7. /\ c.rank = [n |-> c.rank.n, order |-> c.rank.order, tie |-> c.rank.tie]
      /\ c.rank.n = 0 /\ c.rank.tie \in BOOLEAN
  BY <1>2, <1>3, <1>4
<1>8. c.batches \in Batched /\ c.final \in {"none", "cleared", "short"}
  BY <1>1, <1>3
<1>9. CallsTyped(c)
  BY <1>5, <1>6, <1>7, <1>8 DEF CallsTyped
<1> QED
  BY <1>9 DEF c

\* It holds before anything has happened.
LEMMA LoopInvInit == Init => LoopInv
<1> SUFFICES ASSUME Init PROVE LoopInv
  OBVIOUS
<1>1. NoScreen \in Screens /\ \A t \in Tokens : screens[t] = NoScreen
  BY DEF Init, NoScreen, Screens, Results
<1>2. CallsTyped(calls)
  BY NoCallsTyped DEF Init
<1>3. Typed
  <2>1. ledger = <<>> /\ ledger \in Seq(Rows) /\ Len(ledger) = 0 /\ loop.round = 0 /\ MaxRounds \in Nat
    BY EvolveAssumption DEF Init, Start
  <2>2. evals \in [Mechs -> Screens] /\ screens \in [Tokens -> Screens]
    BY <1>1 DEF Init
  <2>3. loop \in LoopStates
    BY StartType DEF Init
  <2>4. /\ similar \in Mechs \cup {NoMech} /\ warm = NoMech /\ outcome = "none" /\ measured = "no"
        /\ evolved = FALSE /\ pc = "stage"
    BY DEF Init
  <2>5. ledger \in Seq(Rows) /\ Len(ledger) <= MaxRounds /\ loop.round <= MaxRounds
    BY <2>1
  <2> QED
    BY <1>2, <2>2, <2>3, <2>4, <2>5 DEF Typed
<1>4. Replay(ledger) = Start /\ Len(ledger) = 0
  BY ReplayEmpty DEF Init
<1>5. Position
  BY <1>4 DEF Init, Position, Follows, Start
<1> QED
  BY <1>1, <1>3, <1>5 DEF LoopInv, ScreensOfFinalists, InLedgers, WinnerConfirmed, Init

\* Where nothing is being screened nobody has a screen.
LEMMA NothingScreened ==
    ASSUME ScreensOfFinalists, pc # "work" \/ ~Selected, screens' = screens
    PROVE  ScreensOfFinalists'
  BY DEF ScreensOfFinalists

\* Steps that leave the ledger, the candidates and the owner's progress alone.
LEMMA RowsStand ==
    ASSUME LoopInv, ledger' = ledger, cands' = cands
    PROVE  /\ InLedgers' /\ Follows(Replay(ledger), Len(ledger))'
           /\ outcome' = outcome => WinnerConfirmed'
  BY DEF LoopInv, InLedgers, Position, WinnerConfirmed

\* Outcomes and winners elsewhere change what is read, not what is held.
LEMMA WorldKeeps ==
    ASSUME LoopInv, NEW m \in Mechs, Veto(m) \/ Promote(m)
    PROVE  LoopInv'
<1>1. UNCHANGED <<rows, pc, locals>> /\ similar' \in Mechs \cup {NoMech} /\ pc = "stage"
  BY DEF LoopInv, Typed, Veto, Promote
<1>2. Typed'
  BY <1>1 DEF LoopInv, Typed, rows, locals, round
<1>3. Position'
  BY <1>1, RowsStand DEF LoopInv, Position, rows, locals
<1>4. ScreensOfFinalists'
  BY <1>1, NothingScreened DEF LoopInv, locals, round
<1> QED
  BY <1>1, <1>2, <1>3, <1>4, RowsStand DEF LoopInv, rows

\* A death takes what the owner held.
LEMMA CrashKeeps ==
    ASSUME LoopInv, Crash
    PROVE  LoopInv'
<1>1. NoScreen \in Screens
  BY DEF NoScreen, Screens, Results
<1>2. Typed'
  <2>1. Start.round = 0 /\ MaxRounds \in Nat
    BY EvolveAssumption DEF Start
  <2>2. screens' \in [Tokens -> Screens]
    BY <1>1 DEF Crash
  <2> QED
    BY <2>1, <2>2, StartType DEF LoopInv, Typed, Crash, rows
<1>3. Position'
  BY RowsStand DEF LoopInv, Position, Crash, rows
<1>4. ScreensOfFinalists'
  BY DEF Crash, ScreensOfFinalists
<1> QED
  BY <1>2, <1>3, <1>4, RowsStand DEF LoopInv, Crash, rows

\* The steps between the rounds and the end of the evolve stage.
LEMMA StageKeeps ==
    ASSUME LoopInv, GateBlocks \/ EnterEvolve \/ StartRound \/ EndRounds \/ StopJob \/ NoPanel
    PROVE  LoopInv'
<1>1. /\ UNCHANGED <<ledger, cands, calls, evals, measured, world, round, deepFailed>>
      /\ outcome' \in {outcome, "abstained"} /\ evolved' \in {evolved, TRUE}
      /\ pc' \in {"stage", "round", "work", "ended"}
  BY DEF GateBlocks, EnterEvolve, StartRound, EndRounds, StopJob, NoPanel, CompleteEvolve,
         rows, world, locals, round
<1>2. /\ loop' \in {loop, Replay(ledger)} /\ warm' \in {warm, similar, NoMech}
  BY DEF GateBlocks, EnterEvolve, StartRound, EndRounds, StopJob, NoPanel, locals
<1>3. ledger \in Seq(Rows) /\ Replay(ledger) \in LoopStates
  BY ReplayType DEF LoopInv, Typed
<1>4. Replay(ledger).round = Len(ledger)
  BY DEF LoopInv, Position, Follows
<1>5. Typed'
  BY <1>1, <1>2, <1>3, <1>4 DEF LoopInv, Typed, world, round
<1>6. Position'
  <2>1. CASE GateBlocks
    BY <1>1, <2>1, RowsStand DEF LoopInv, Position, GateBlocks, CompleteEvolve
  <2>2. CASE EnterEvolve
    BY <1>1, <2>2, RowsStand DEF LoopInv, Position, EnterEvolve, InStep, rows
  <2>3. CASE StartRound
    <3>1. loop.round < MaxRounds
      <4>1. loop.round \in Nat /\ MaxRounds \in Nat
        BY EvolveAssumption DEF LoopInv, Typed, LoopStates
      <4> QED
        BY <2>3, <4>1 DEF StartRound, StopReason
    <3>2. pc = "round" /\ loop' = loop /\ outcome' = outcome /\ evolved' = evolved /\ pc' = "work"
      BY <2>3 DEF StartRound, rows
    <3>3. Len(ledger) < MaxRounds
      BY <1>4, <3>1, <3>2 DEF LoopInv, Position, InStep
    <3> QED
      BY <1>1, <3>2, <3>3, RowsStand DEF LoopInv, Position
  <2>4. CASE EndRounds
    BY <1>1, <2>4, RowsStand DEF LoopInv, Position, EndRounds, CompleteEvolve
  <2>5. CASE StopJob
    BY <1>1, <2>5, RowsStand DEF LoopInv, Position, StopJob, rows
  <2>6. CASE NoPanel
    BY <1>1, <2>6, RowsStand DEF LoopInv, Position, NoPanel, CompleteEvolve
  <2> QED
    BY <2>1, <2>2, <2>3, <2>4, <2>5, <2>6
<1>7. ScreensOfFinalists'
  <2>1. \A t \in Tokens : screens[t] = NoScreen
    BY DEF LoopInv, ScreensOfFinalists, GateBlocks, EnterEvolve, StartRound, EndRounds, StopJob,
           NoPanel
  <2> QED
    BY <1>1, <2>1 DEF ScreensOfFinalists, round
<1>8. WinnerConfirmed'
  BY <1>1, RowsStand DEF WinnerConfirmed
<1> QED
  BY <1>1, <1>5, <1>6, <1>7, <1>8, RowsStand DEF LoopInv

\* The model answers with at least one idea.
LEMMA BatchIsSequence ==
    ASSUME NEW batch \in Batches
    PROVE  batch \in Seq(Mechs) \ {<<>>}
<1>1. PICK n \in 1..Missing : batch \in [1..n -> Mechs]
  BY DEF Batches
<1>2. n \in Nat /\ n >= 1
  BY <1>1
<1>3. batch \in Seq(Mechs) /\ Len(batch) = n
  BY <1>1, <1>2
<1> QED
  BY <1>2, <1>3

\* The calls of a round before it is screened.
LEMMA CallsKeep ==
    ASSUME LoopInv, Generate \/ Review \/ Rank
    PROVE  LoopInv'
<1>1. /\ UNCHANGED <<ledger, cands, evals, outcome, measured, evolved, world, pc, loop, warm, screens>>
      /\ pc = "work" /\ ~Selected
  BY DEF Generate, Review, Rank, Selected, world, locals, round
<1>2. CallsTyped(calls')
  <2>1. CallsTyped(calls)
    BY DEF LoopInv, Typed
  <2>2. ASSUME NEW batch \in Batches, calls' = [calls EXCEPT !.batches = Append(@, batch)]
        PROVE  CallsTyped(calls')
    <3>4. batch \in Seq(Mechs) \ {<<>>}
      BY BatchIsSequence
    <3>5. Append(calls.batches, batch) \in Batched
      BY <2>1, <3>4 DEF CallsTyped, Batched
    <3>6. calls' = [batches |-> Append(calls.batches, batch), critic |-> calls.critic,
                    rank |-> calls.rank, screen |-> calls.screen, final |-> calls.final]
      BY <2>1, <2>2 DEF CallsTyped
    <3> QED
      BY <2>1, <3>5, <3>6 DEF CallsTyped
  <2>3. ASSUME NEW answers, calls' = [calls EXCEPT !.critic = answers]
        PROVE  CallsTyped(calls')
    <3>1. calls' = [batches |-> calls.batches, critic |-> answers,
                    rank |-> calls.rank, screen |-> calls.screen, final |-> calls.final]
      BY <2>1, <2>3 DEF CallsTyped
    <3> QED
      BY <2>1, <3>1 DEF CallsTyped
  <2>4. ASSUME NEW first \in 1..Len(Rankable), NEW second \in 1..Len(Rankable), NEW tie \in BOOLEAN,
               first # second,
               calls' = [calls EXCEPT !.rank =
                   [n |-> Len(Rankable), order |-> <<first, second>>, tie |-> tie]]
        PROVE  CallsTyped(calls')
    <3> DEFINE rank == [n |-> Len(Rankable), order |-> <<first, second>>, tie |-> tie]
    <3>1. calls' = [batches |-> calls.batches, critic |-> calls.critic,
                    rank |-> rank, screen |-> calls.screen, final |-> calls.final]
      BY <2>1, <2>4 DEF CallsTyped
    <3>2. Len(Rankable) \in Nat
      BY RankableFacts DEF LoopInv
    <3>3. <<first, second>> \in Pairs(Len(Rankable))
      BY <2>4 DEF Pairs
    <3>4. /\ rank = [n |-> rank.n, order |-> rank.order, tie |-> rank.tie] /\ rank.n \in Nat
          /\ rank.tie \in BOOLEAN /\ rank.order \in Pairs(rank.n)
      BY <3>2, <3>3
    <3> HIDE DEF rank
    <3> QED
      BY <2>1, <3>1, <3>4 DEF CallsTyped
  <2>5. CASE Generate
    BY <2>1, <2>2, <2>5 DEF Generate
  <2>6. CASE Review
    BY <2>3, <2>6 DEF Review
  <2>7. CASE Rank
    BY <2>1, <2>4, <2>7 DEF Rank
  <2> QED
    BY <2>5, <2>6, <2>7
<1>3. Typed'
  BY <1>1, <1>2 DEF LoopInv, Typed, world
<1>4. Position'
  BY <1>1, RowsStand DEF LoopInv, Position
<1>5. ScreensOfFinalists'
  BY <1>1, NothingScreened DEF LoopInv
<1> QED
  BY <1>1, <1>3, <1>4, <1>5, RowsStand DEF LoopInv

\* What is selected rests on the batches, the critic's answers and the ranking.
LEMMA SelectionStands ==
    ASSUME UNCHANGED <<warm, failed, refillFailed, rankFailed>>,
           calls'.batches = calls.batches, calls'.critic = calls.critic, calls'.rank = calls.rank
    PROVE  /\ Selected' = Selected /\ Finalists' = Finalists /\ Rankable' = Rankable /\ Ideas' = Ideas
           /\ ToReview' = ToReview /\ NeedsBatch' = NeedsBatch
<1>1. Ideas' = Ideas /\ Target' = Target
  BY DEF Ideas, Target
<1>2. ToReview' = ToReview
  BY <1>1 DEF ToReview
<1>3. NeedsBatch' = NeedsBatch
  BY <1>1 DEF NeedsBatch
<1>4. NeedsReview' = NeedsReview
  BY <1>2, <1>3 DEF NeedsReview
<1>5. {i \in ToReview : Passes(i)}' = {i \in ToReview : Passes(i)}
  BY <1>2 DEF Passes
<1>6. Rankable' = Rankable
  BY <1>5 DEF Rankable
<1>7. NeedsRank' = NeedsRank
  BY <1>3, <1>4, <1>6 DEF NeedsRank
<1>8. Finalists' = Finalists
  BY <1>6 DEF Finalists
<1> QED
  BY <1>1, <1>2, <1>3, <1>4, <1>6, <1>7, <1>8 DEF Selected

\* A screen is called, taken or failed for a finalist.
LEMMA ScreenKeeps ==
    ASSUME LoopInv, Screen
    PROVE  LoopInv'
<1>1. pc = "work" /\ Selected
  BY DEF Screen
<1>2. PICK t \in ToScreen : CallScreen(t) \/ TakeScreen(t) \/ FailScreen(t)
  BY DEF Screen
<1>3. /\ UNCHANGED <<ledger, cands, outcome, measured, evolved, similar, pc, loop, warm>>
      /\ UNCHANGED <<failed, refillFailed, rankFailed>>
  BY <1>2 DEF CallScreen, TakeScreen, FailScreen, world, locals, round, rows
<1>4. t \in Range(Finalists) /\ t \in Tokens /\ t \in DOMAIN Rankable
  <2>1. t \in Range(Finalists)
    BY DEF ToScreen
  <2> QED
    BY <1>1, <2>1, FinalistFacts, RankableFacts DEF LoopInv, Range
<1>5. IdeaOf(t) \in Mechs
  <2>1. Rankable[t] \in DOMAIN Ideas
    BY <1>4, RankableFacts DEF LoopInv
  <2> QED
    BY <2>1, IdeasOfRound DEF LoopInv, IdeaOf
<1>6. /\ CallsTyped(calls) /\ evals \in [Mechs -> Screens] /\ screens \in [Tokens -> Screens]
      /\ NoScore \in Results
  BY DEF LoopInv, Typed, Results
<1>7. /\ CallsTyped(calls') /\ evals' \in [Mechs -> Screens] /\ screens' \in [Tokens -> Screens]
      /\ calls'.batches = calls.batches /\ calls'.critic = calls.critic /\ calls'.rank = calls.rank
      /\ \A u \in Tokens : u # t => screens'[u] = screens[u]
  <2>1. CASE CallScreen(t)
    <3>1. PICK score \in Scores : calls' = [calls EXCEPT !.screen[t] = [of |-> IdeaOf(t), score |-> score]]
      BY <2>1 DEF CallScreen
    <3>2. [of |-> IdeaOf(t), score |-> score] \in Screens
      BY <1>5 DEF Screens, Results
    <3> DEFINE answers == [calls.screen EXCEPT ![t] = [of |-> IdeaOf(t), score |-> score]]
    <3>3. answers \in [Tokens -> Screens]
      BY <1>6, <3>2 DEF CallsTyped
    <3>4. calls' = [batches |-> calls.batches, critic |-> calls.critic, rank |-> calls.rank,
                    screen |-> answers, final |-> calls.final]
      BY <1>6, <3>1 DEF CallsTyped
    <3> HIDE DEF answers
    <3>5. evals' = evals /\ screens' = screens
      BY <2>1 DEF CallScreen, locals, round
    <3>6. CallsTyped(calls')
      BY <1>6, <3>3, <3>4 DEF CallsTyped
    <3> QED
      BY <1>6, <3>4, <3>5, <3>6
  <2>2. CASE TakeScreen(t)
    <3> DEFINE result == IF evals[IdeaOf(t)] # NoScreen THEN evals[IdeaOf(t)] ELSE calls.screen[t]
    <3>1. result \in Screens
      BY <1>4, <1>5, <1>6 DEF CallsTyped
    <3>2. /\ evals' = [evals EXCEPT ![IdeaOf(t)] = result] /\ screens' = [screens EXCEPT ![t] = result]
          /\ calls' = calls
      BY <2>2 DEF TakeScreen
    <3> HIDE DEF result
    <3> QED
      BY <1>4, <1>5, <1>6, <3>1, <3>2
  <2>3. CASE FailScreen(t)
    <3>1. [of |-> IdeaOf(t), score |-> NoScore] \in Screens
      BY <1>5, <1>6 DEF Screens
    <3>2. /\ screens' = [screens EXCEPT ![t] = [of |-> IdeaOf(t), score |-> NoScore]]
          /\ calls' = calls /\ evals' = evals
      BY <2>3 DEF FailScreen, rows
    <3> QED
      BY <1>4, <1>6, <3>1, <3>2
  <2> QED
    BY <1>2, <2>1, <2>2, <2>3
<1>8. Typed'
  BY <1>3, <1>7 DEF LoopInv, Typed
<1>9. Position'
  BY <1>3, RowsStand DEF LoopInv, Position
<1>10. ScreensOfFinalists'
  <2>1. Selected' /\ Finalists' = Finalists
    BY <1>1, <1>3, <1>7, SelectionStands
  <2> QED
    BY <1>1, <1>3, <1>4, <1>7, <2>1 DEF LoopInv, ScreensOfFinalists
<1> QED
  BY <1>3, <1>8, <1>9, <1>10, RowsStand DEF LoopInv

\* Two who are in step apply the same verdict and stay so.
LEMMA ApplyInStep ==
    ASSUME NEW l \in LoopStates, NEW r \in LoopStates, InStep(l, r), NEW mech \in Mechs,
           NEW score \in Results, NEW verdict, NEW more \in SUBSET Mechs, NEW also \in SUBSET more
    PROVE  InStep(ApplyRound(l, mech, score, verdict, more), ApplyRound(r, mech, score, verdict, also))
<1>1. also \in SUBSET Mechs
  OBVIOUS
<1>2. /\ l.round = r.round /\ l.best = r.best /\ l.champion = r.champion
      /\ l.mech = r.mech /\ l.tries = r.tries /\ l.dry = r.dry /\ r.tried \subseteq l.tried
  BY DEF InStep
<1> DEFINE a == ApplyRound(l, mech, score, verdict, more)
           b == ApplyRound(r, mech, score, verdict, also)
<1>3. a.mech = b.mech /\ a.tries = b.tries /\ a.dry = b.dry
  BY <1>2 DEF ApplyRound, LoopStates
<1>4. /\ a.round = b.round /\ a.best = b.best /\ a.champion = b.champion
      /\ b.tried \subseteq a.tried
  BY <1>1, <1>2, ApplyType
<1> QED
  BY <1>3, <1>4 DEF InStep

\* The candidate of an idea: the winner's has the verdict's score, no other a higher one.
LEMMA CandidateFacts ==
    ASSUME Typed, ScreensOfFinalists, Selected, NEW v, v = Verdict(Rankable, Finalists),
           NEW i \in DOMAIN Ideas, NEW c, c = Candidate(Ideas[i], i, Rankable, v)
    PROVE  /\ c = [id |-> c.id, status |-> c.status, judged |-> c.judged, screen |-> c.screen,
                   final |-> c.final]
           /\ c.id = <<loop.round + 1, Ideas[i]>> /\ c.final = "none" /\ c.screen \in Screens
           /\ c.judged = Judged(Ideas[i], i)
           /\ c.status \in {"suppressed", "discarded", "champion"}
           /\ c.status = "champion" <=> v.outcome = "win" /\ i = v.at
           /\ c.status # "suppressed" => i \in Range(Rankable)
           /\ v.outcome = "win" /\ i = v.at => c.screen.score = v.score
           /\ c.screen.score # NoScore => v.score # NoScore /\ c.screen.score <= v.score
<1> DEFINE tokens == {t \in DOMAIN Rankable : Rankable[t] = i}
           s == Screened(Ideas[i], tokens)
<1>1. /\ v.outcome = "win" => v.score # NoScore
      /\ v.outcome = "win" => \E t \in DOMAIN Rankable : /\ v.at = Rankable[t]
                                                        /\ v.score = screens[t].score
      /\ \A t \in Tokens : screens[t].score # NoScore => v.score # NoScore /\ screens[t].score <= v.score
  BY VerdictFacts
<1>2. /\ IsDistinct(Rankable) /\ DOMAIN Rankable \subseteq Tokens
      /\ Ideas[i] \in Mechs /\ screens \in [Tokens -> Screens]
  BY RankableFacts, IdeasOfRound DEF Typed
<1>3. tokens \subseteq Tokens /\ \A t, u \in tokens : t = u
  BY <1>2 DEF IsDistinct
<1>4. c = [id |-> <<loop.round + 1, Ideas[i]>>,
           status |-> IF i \notin Range(Rankable) THEN "suppressed"
                      ELSE IF v.outcome = "win" /\ i = v.at THEN "champion" ELSE "discarded",
           judged |-> Judged(Ideas[i], i), screen |-> s, final |-> "none"]
  BY DEF Candidate
<1>5. v.outcome = "win" /\ i = v.at => i \in Range(Rankable)
  BY <1>1 DEF Range
<1>6. NoScore \in Results
  BY DEF Results
<1>7. \/ \E t \in tokens : s = screens[t]
      \/ /\ s = [of |-> Ideas[i], score |-> NoScore]
         /\ \A t \in tokens : screens[t] = NoScreen
  BY DEF Screened
<1>8. s \in Screens
  BY <1>2, <1>3, <1>6, <1>7 DEF Screens
<1>9. s.score # NoScore => v.score # NoScore /\ s.score <= v.score
  BY <1>1, <1>3, <1>7
<1>10. ASSUME v.outcome = "win", i = v.at PROVE s.score = v.score
  <2>1. PICK t \in tokens : v.score = screens[t].score
    BY <1>1, <1>10
  <2>2. screens[t] # NoScreen
    BY <1>1, <1>10, <2>1 DEF NoScreen
  <2> QED
    BY <1>3, <1>7, <2>1, <2>2
<1> HIDE DEF tokens, s
<1>11. /\ c.id = <<loop.round + 1, Ideas[i]>> /\ c.judged = Judged(Ideas[i], i) /\ c.screen = s
       /\ c.final = "none"
       /\ c.status = IF i \notin Range(Rankable) THEN "suppressed"
                     ELSE IF v.outcome = "win" /\ i = v.at THEN "champion" ELSE "discarded"
       /\ c = [id |-> c.id, status |-> c.status, judged |-> c.judged, screen |-> c.screen,
               final |-> c.final]
  BY <1>4
<1> QED
  BY <1>5, <1>8, <1>9, <1>10, <1>11

\* What a commit makes of the ledger, the candidates and the owner.
LEMMA CommitFacts ==
    ASSUME LoopInv, CommitRound, NEW v, v = Verdict(Rankable, Finalists)
    PROVE  /\ Selected /\ pc = "work" /\ loop.round = Len(ledger)
           /\ Replay(ledger) \in LoopStates
           /\ ledger' \in Seq(Rows) /\ Len(ledger') = Len(ledger) + 1
           /\ Replay(ledger') \in LoopStates /\ Replay(ledger').round = Len(ledger) + 1
           /\ Replay(ledger').tried = Replay(ledger).tried \cup {Ideas[v.at]}
                                        \cup {Ideas[i] : i \in Range(Rankable)}
           /\ v.outcome = "win" => /\ Replay(ledger').best = v.score
                                   /\ Replay(ledger').champion = <<Len(ledger) + 1, Ideas[v.at]>>
           /\ v.outcome # "win" => /\ Replay(ledger').best = Replay(ledger).best
                                   /\ Replay(ledger').champion = Replay(ledger).champion
           /\ loop' \in LoopStates /\ loop'.round = Len(ledger) + 1
           /\ InStep(loop', Replay(ledger'))
           /\ cands' = {Dethroned(c, v) : c \in cands}
                         \cup {Candidate(Ideas[i], i, Rankable, v) : i \in DOMAIN Ideas}
<1> DEFINE mech == Ideas[v.at]
           row == [mech |-> mech, outcome |-> v.outcome, score |-> v.score,
                   order |-> [k \in DOMAIN Rankable |-> Ideas[Rankable[k]]]]
           R == Replay(ledger)
<1>1. Selected /\ pc = "work" /\ Typed /\ ScreensOfFinalists
  BY DEF LoopInv, CommitRound
<1>2. /\ v.at \in DOMAIN Ideas /\ v.score \in Results
      /\ v.outcome \in {"win", "lose", "suppressed", "unavailable"}
      /\ v.outcome = "win" => v.score # NoScore
  BY <1>1, VerdictFacts
<1>3. /\ Rankable \in Seq(DOMAIN Ideas) /\ DOMAIN Rankable = 1..Len(Rankable) /\ Len(Rankable) \in Nat
      /\ Ideas \in Seq(Mechs) /\ mech \in Mechs
  BY <1>1, <1>2, RankableFacts, IdeasOfRound
<1>4. R \in LoopStates /\ ledger \in Seq(Rows) /\ loop \in LoopStates
  BY <1>1, ReplayType DEF Typed
<1>5. R.round = Len(ledger) /\ InStep(loop, R) /\ loop.round = Len(ledger)
  BY <1>1 DEF LoopInv, Position, Follows, InStep
<1>6. row.order \in Seq(Mechs) /\ Range(row.order) = {Ideas[i] : i \in Range(Rankable)}
  <2>1. \A k \in 1..Len(Rankable) : Ideas[Rankable[k]] \in Mechs
    BY <1>3
  <2>2. row.order = [k \in 1..Len(Rankable) |-> Ideas[Rankable[k]]]
    BY <1>3
  <2>3. row.order \in Seq(Mechs)
    BY <1>3, <2>1, <2>2
  <2> QED
    BY <1>3, <2>2, <2>3 DEF Range
<1>7. row \in Rows
  BY <1>2, <1>3, <1>6 DEF Rows
<1>8. /\ ledger' = Append(ledger, row)
      /\ loop' = ApplyRound(loop, mech, v.score, v.outcome, Range(Ideas))
      /\ cands' = {Dethroned(c, v) : c \in cands}
                    \cup {Candidate(Ideas[i], i, Rankable, v) : i \in DOMAIN Ideas}
  BY DEF CommitRound
<1>9. row.mech = mech /\ row.score = v.score /\ row.outcome = v.outcome
  OBVIOUS
<1> HIDE DEF row
<1>10. Replay(ledger') = ApplyRound(R, mech, v.score, v.outcome, Range(row.order))
  BY <1>4, <1>7, <1>8, <1>9, ReplayAppend DEF Replayed, AlsoTried
<1>11. Range(Ideas) \in SUBSET Mechs /\ Range(row.order) \in SUBSET Range(Ideas)
  <2>1. Range(Ideas) \in SUBSET Mechs
    BY <1>3 DEF Range
  <2>2. \A i \in Range(Rankable) : i \in DOMAIN Ideas
    BY <1>3 DEF Range
  <2>3. \A i \in Range(Rankable) : Ideas[i] \in Range(Ideas)
    BY <2>2 DEF Range
  <2> QED
    BY <1>6, <2>1, <2>3
<1>12. InStep(loop', Replay(ledger'))
  BY <1>2, <1>3, <1>4, <1>5, <1>8, <1>10, <1>11, ApplyInStep
<1>13. /\ loop' \in LoopStates /\ loop'.round = loop.round + 1
  BY <1>2, <1>3, <1>4, <1>8, <1>11, ApplyType
<1>14. Range(row.order) \in SUBSET Mechs
  BY <1>11
<1>15. /\ Replay(ledger') \in LoopStates /\ Replay(ledger').round = R.round + 1
       /\ Replay(ledger').tried = R.tried \cup {mech} \cup Range(row.order)
       /\ v.outcome = "win" => /\ Replay(ledger').best = v.score
                               /\ Replay(ledger').champion = <<R.round + 1, mech>>
       /\ v.outcome # "win" => Replay(ledger').best = R.best /\ Replay(ledger').champion = R.champion
  BY <1>2, <1>3, <1>4, <1>10, <1>14, ApplyType
<1>16. ledger' \in Seq(Rows) /\ Len(ledger') = Len(ledger) + 1
  BY <1>4, <1>7, <1>8
<1> HIDE DEF R, mech
<1> QED
  BY <1>1, <1>4, <1>5, <1>6, <1>8, <1>12, <1>13, <1>15, <1>16 DEF R, mech

\* A candidate of an earlier round, when a round is committed.
LEMMA EarlierCandidate ==
    ASSUME NEW old, NEW new, NEW n \in Nat, Follows(old, n), new.tried \in SUBSET Mechs,
           old.tried \subseteq new.tried,
           NEW c, InLedger(c, old, n), NEW v, loop.champion = old.champion,
           v.outcome = "win" => new.champion \in {n + 1} \X Mechs,
           v.outcome # "win" => new.best = old.best /\ new.champion = old.champion,
           NEW d, d = Dethroned(c, v)
    PROVE  InLedger(d, new, n + 1) /\ d.id = c.id /\ d.screen = c.screen /\ d.judged = c.judged
<1>1. /\ c = [id |-> c.id, status |-> c.status, judged |-> c.judged, screen |-> c.screen,
              final |-> c.final]
      /\ c.id \in (1..n) \X Mechs
      /\ c.status \in {"suppressed", "discarded", "champion"}
      /\ c.final \in {"none", "cleared", "short", "abstained"}
      /\ c.screen \in Screens
      /\ c.status = "champion" <=> c.id = old.champion
      /\ c.status # "suppressed" => c.id[2] \in old.tried
      /\ c.id = old.champion => c.screen.score = old.best
  BY DEF InLedger
<1>2. c.id \in (1..(n + 1)) \X Mechs /\ c.id[1] # n + 1
  BY <1>1
<1>3. CASE v.outcome = "win" /\ c.id = loop.champion
  <2>1. d = [id |-> c.id, status |-> "discarded", judged |-> c.judged, screen |-> c.screen,
             final |-> c.final]
    BY <1>1, <1>3 DEF Dethroned
  <2>2. new.champion[1] = n + 1 /\ c.status = "champion"
    BY <1>1, <1>3
  <2> QED
    BY <1>1, <1>2, <2>1, <2>2 DEF InLedger
<1>4. CASE v.outcome = "win" /\ c.id # loop.champion
  <2>1. d = c
    BY <1>4 DEF Dethroned
  <2>2. new.champion[1] = n + 1
    BY <1>4
  <2> QED
    BY <1>1, <1>2, <1>4, <2>1, <2>2 DEF InLedger
<1>5. CASE v.outcome # "win"
  <2>1. d = c
    BY <1>5 DEF Dethroned
  <2> QED
    BY <1>1, <1>2, <1>5, <2>1 DEF InLedger
<1> QED
  BY <1>3, <1>4, <1>5

\* A round is committed.
LEMMA CommitRoundKeeps ==
    ASSUME LoopInv, CommitRound
    PROVE  LoopInv'
<1>1. PICK v : v = Verdict(Rankable, Finalists)
  OBVIOUS
<1> DEFINE n == Len(ledger)
           old == Replay(ledger)
           new == Replay(ledger')
<1>2. /\ Selected /\ pc = "work" /\ loop.round = n
      /\ old \in LoopStates
      /\ ledger' \in Seq(Rows) /\ Len(ledger') = n + 1
      /\ new \in LoopStates /\ new.round = n + 1
      /\ new.tried = old.tried \cup {Ideas[v.at]} \cup {Ideas[i] : i \in Range(Rankable)}
      /\ v.outcome = "win" => new.best = v.score /\ new.champion = <<n + 1, Ideas[v.at]>>
      /\ v.outcome # "win" => new.best = old.best /\ new.champion = old.champion
      /\ loop' \in LoopStates /\ loop'.round = n + 1
      /\ InStep(loop', new)
      /\ cands' = {Dethroned(c, v) : c \in cands}
                    \cup {Candidate(Ideas[i], i, Rankable, v) : i \in DOMAIN Ideas}
  BY <1>1, CommitFacts
<1>3. /\ Typed /\ ScreensOfFinalists /\ Follows(old, n) /\ InStep(loop, old) /\ n < MaxRounds
      /\ ~evolved /\ outcome # "winner" /\ n \in Nat /\ MaxRounds \in Nat
      /\ \A c \in cands : InLedger(c, old, n)
  BY <1>2, EvolveAssumption DEF LoopInv, Position, InLedgers, Typed
<1>4. /\ v.at \in DOMAIN Ideas /\ v.score \in Results
      /\ v.outcome = "win" => v.score # NoScore /\ IsWin(loop, v.score)
      /\ v.outcome = "win" => \E t \in DOMAIN Rankable : v.at = Rankable[t]
  BY <1>1, <1>2, <1>3, VerdictFacts
<1>5. Ideas[v.at] \in Mechs /\ IsDistinct(Ideas) /\ \A i \in DOMAIN Ideas : Ideas[i] \in Mechs
  BY <1>3, <1>4, IdeasOfRound
<1>6. /\ calls' = NoCalls /\ evals' = [m \in Mechs |-> NoScreen]
      /\ screens' = [t \in Tokens |-> NoScreen] /\ pc' = "round"
      /\ UNCHANGED <<outcome, measured, evolved, similar, warm>>
  BY DEF CommitRound, world
<1> HIDE DEF n, old, new
<1>7. NoScreen \in Screens
  BY DEF NoScreen, Screens, Results
<1>8. Typed'
  <2>1. CallsTyped(NoCalls)
    BY NoCallsTyped
  <2>2. evals' \in [Mechs -> Screens] /\ screens' \in [Tokens -> Screens]
    BY <1>6, <1>7
  <2>3. Len(ledger') <= MaxRounds /\ loop'.round <= MaxRounds
    BY <1>2, <1>3
  <2> QED
    BY <1>2, <1>3, <1>6, <2>1, <2>2, <2>3 DEF Typed
<1>9. Follows(new, n + 1)
  <2>1. /\ old.champion = <<>> \/ old.champion \in (1..n) \X Mechs
        /\ old.champion = <<>> <=> old.best = NoScore
        /\ old.best # NoScore => old.best >= Floor
        /\ old.best \in Results /\ loop.best = old.best
    BY <1>2, <1>3 DEF Follows, InStep, LoopStates
  <2>2. CASE v.outcome = "win"
    <3>1. new.champion \in (1..(n + 1)) \X Mechs /\ new.champion # <<>>
      <4>1. new.champion = <<n + 1, Ideas[v.at]>> /\ Ideas[v.at] \in Mechs /\ n + 1 \in 1..(n + 1)
        BY <1>2, <1>3, <1>5, <2>2
      <4> QED
        BY <4>1
    <3>2. new.best >= Floor
      <4>1. /\ IF loop.best = NoScore THEN v.score >= Floor ELSE v.score >= loop.best + KeepDelta
            /\ new.best = v.score
        BY <1>2, <1>4, <2>2 DEF IsWin
      <4>2. loop.best # NoScore => loop.best \in Nat /\ loop.best >= Floor
        BY <2>1, EvolveAssumption DEF Results
      <4>3. v.score \in Nat
        BY <1>4, <2>2, EvolveAssumption DEF Results
      <4> QED
        BY <4>1, <4>2, <4>3, EvolveAssumption
    <3> QED
      BY <1>2, <1>4, <2>2, <3>1, <3>2 DEF Follows
  <2>3. CASE v.outcome # "win"
    <3>1. old.champion \in (1..n) \X Mechs => old.champion \in (1..(n + 1)) \X Mechs
      BY <1>3
    <3> QED
      BY <1>2, <2>1, <2>3, <3>1 DEF Follows
  <2> QED
    BY <2>2, <2>3
<1>10. Position'
  BY <1>2, <1>3, <1>6, <1>9 DEF Position, new
<1>11. ASSUME NEW c \in cands PROVE InLedger(Dethroned(c, v), new, n + 1)
  <2>1. v.outcome = "win" => new.champion \in {n + 1} \X Mechs
    <3>1. v.outcome = "win" => new.champion = <<n + 1, Ideas[v.at]>>
      BY <1>2
    <3> QED
      BY <1>5, <3>1
  <2>2. old.tried \subseteq new.tried /\ new.tried \in SUBSET Mechs
    BY <1>2 DEF LoopStates
  <2>3. loop.champion = old.champion
    BY <1>3 DEF InStep
  <2> QED
    BY <1>2, <1>3, <2>1, <2>2, <2>3, EarlierCandidate
<1>12. ASSUME NEW i \in DOMAIN Ideas PROVE InLedger(Candidate(Ideas[i], i, Rankable, v), new, n + 1)
  <2> DEFINE c == Candidate(Ideas[i], i, Rankable, v)
  <2>1. /\ c = [id |-> c.id, status |-> c.status, judged |-> c.judged, screen |-> c.screen,
                final |-> c.final]
        /\ c.id = <<loop.round + 1, Ideas[i]>> /\ c.final = "none" /\ c.screen \in Screens
        /\ c.status \in {"suppressed", "discarded", "champion"}
        /\ c.status = "champion" <=> v.outcome = "win" /\ i = v.at
        /\ c.status # "suppressed" => i \in Range(Rankable)
        /\ v.outcome = "win" /\ i = v.at => c.screen.score = v.score
    BY <1>1, <1>2, <1>3, CandidateFacts
  <2> HIDE DEF c
  <2>2. c.id \in (1..(n + 1)) \X Mechs /\ c.id[1] = n + 1 /\ c.id[2] = Ideas[i]
    BY <1>2, <1>3, <1>5, <2>1
  <2>3. c.id = new.champion <=> v.outcome = "win" /\ i = v.at
    <3>1. CASE v.outcome = "win"
      <4>1. new.champion = <<n + 1, Ideas[v.at]>> /\ c.id = <<n + 1, Ideas[i]>>
        BY <1>2, <2>1, <3>1
      <4>2. Ideas[i] = Ideas[v.at] <=> i = v.at
        BY <1>4, <1>5 DEF IsDistinct
      <4> QED
        BY <3>1, <4>1, <4>2
    <3>2. CASE v.outcome # "win"
      <4>1. new.champion = <<>> \/ new.champion \in (1..n) \X Mechs
        BY <1>2, <1>3, <3>2 DEF Follows
      <4>2. c.id # new.champion
        <5>1. CASE new.champion = <<>>
          <6>1. c.id = <<loop.round + 1, Ideas[i]>>
            BY <2>1
          <6> QED
            BY <5>1, <6>1
        <5>2. CASE new.champion \in (1..n) \X Mechs
          <6>1. new.champion[1] \in 1..n /\ c.id[1] = n + 1 /\ n \in Nat
            BY <1>3, <2>2, <5>2
          <6> QED
            BY <6>1
        <5> QED
          BY <4>1, <5>1, <5>2
      <4> QED
        BY <3>2, <4>2
    <3> QED
      BY <3>1, <3>2
  <2>4. c.status # "suppressed" => c.id[2] \in new.tried
    BY <1>2, <2>1, <2>2
  <2>5. c.id = new.champion => c.screen.score = new.best
    BY <1>2, <2>1, <2>3
  <2>6. InLedger(c, new, n + 1)
    BY <2>1, <2>2, <2>3, <2>4, <2>5 DEF InLedger
  <2> QED
    BY <2>6 DEF c
<1>13. InLedgers'
  <2>1. \A c \in cands' : InLedger(c, new, n + 1)
    BY <1>2, <1>11, <1>12
  <2> QED
    BY <1>2, <2>1 DEF InLedgers, new
<1>14. ScreensOfFinalists' /\ WinnerConfirmed'
  BY <1>3, <1>6 DEF ScreensOfFinalists, WinnerConfirmed
<1> QED
  BY <1>8, <1>10, <1>13, <1>14 DEF LoopInv

\* The steps of the final check, the score and the measurement, but the one that stores
\* the check's result.
LEMMA ShippingKeeps ==
    ASSUME LoopInv, EnterFinal \/ CallFinal \/ DowngradeFinal \/ Score \/ Measure
    PROVE  LoopInv'
<1>1. /\ UNCHANGED <<ledger, cands, evals, evolved, world, loop, failed, warm, round>>
      /\ pc \in {"stage", "final"} /\ pc' \in {"stage", "final"}
  BY DEF EnterFinal, CallFinal, DowngradeFinal, Score, Measure, rows, locals
<1>2. CallsTyped(calls')
  <2>1. CallsTyped(calls)
    BY DEF LoopInv, Typed
  <2>2. CASE CallFinal
    <3>1. PICK result \in {"cleared", "short"} : calls' = [calls EXCEPT !.final = result]
      BY <2>2 DEF CallFinal
    <3>2. calls' = [batches |-> calls.batches, critic |-> calls.critic, rank |-> calls.rank,
                    screen |-> calls.screen, final |-> result]
      BY <2>1, <3>1 DEF CallsTyped
    <3> QED
      BY <2>1, <3>1, <3>2 DEF CallsTyped
  <2>3. CASE ~CallFinal
    BY <2>1, <2>3 DEF EnterFinal, DowngradeFinal, Score, Measure, rows
  <2> QED
    BY <2>2, <2>3
<1>3. /\ outcome' \in {outcome, "abstained", "winner", "no_action"}
      /\ measured' \in {measured, "planned", "yes"}
      /\ outcome' # outcome => evolved /\ pc' = "stage"
      /\ outcome' = "winner" => outcome = "winner" \/ Confirmed
      /\ outcome = "winner" => pc' = pc
  BY DEF EnterFinal, FinalNeeded, CallFinal, DowngradeFinal, Score, Measure, rows, LoopInv, Position
<1>4. Typed'
  BY <1>1, <1>2, <1>3 DEF LoopInv, Typed, world, round
<1>5. Position'
  BY <1>1, <1>3, RowsStand DEF LoopInv, Position
<1>6. ScreensOfFinalists'
  BY <1>1, NothingScreened DEF LoopInv, round
<1>7. WinnerConfirmed'
  <2>1. Confirmed => \E c \in cands : c.id = Replay(ledger).champion /\ c.final = "cleared"
    BY DEF Confirmed, Champion
  <2>2. outcome' = "winner" =>
            \E c \in cands : c.id = Replay(ledger).champion /\ c.final = "cleared"
    BY <1>3, <2>1 DEF LoopInv, WinnerConfirmed
  <2> QED
    BY <1>1, <2>2 DEF WinnerConfirmed
<1> QED
  BY <1>1, <1>4, <1>5, <1>6, <1>7, RowsStand DEF LoopInv

\* The result of the final check is stored with the champion.
LEMMA CommitFinalKeeps ==
    ASSUME LoopInv, CommitFinal
    PROVE  LoopInv'
<1>1. PICK result \in {"cleared", "short", "abstained"} : pc = "final" /\ StoreFinal(result)
  BY DEF CommitFinal, LoopInv, Typed, CallsTyped
<1>2. /\ UNCHANGED <<ledger, evals, outcome, measured, evolved, world, loop, failed, warm, round>>
      /\ cands' = {IF c \in Champion THEN [c EXCEPT !.final = result] ELSE c : c \in cands}
      /\ calls' = NoCalls /\ pc' = "stage" /\ pc = "final"
  BY <1>1 DEF StoreFinal
<1>3. Typed'
  BY <1>2, NoCallsTyped DEF LoopInv, Typed, world, round
<1>4. Position'
  BY <1>2 DEF LoopInv, Position
<1>5. ScreensOfFinalists'
  BY <1>2, NothingScreened DEF LoopInv, round
<1>6. InLedgers'
  <2> DEFINE l == Replay(ledger)
             n == Len(ledger)
  <2>1. ASSUME NEW c, InLedger(c, l, n), NEW d, d = [c EXCEPT !.final = result]
        PROVE  InLedger(d, l, n)
    <3>1. d = [id |-> c.id, status |-> c.status, judged |-> c.judged, screen |-> c.screen,
               final |-> result]
      BY <2>1 DEF InLedger
    <3> HIDE DEF l, n
    <3>2. /\ d.id = c.id /\ d.status = c.status /\ d.judged = c.judged /\ d.screen = c.screen
          /\ d.final = result
      BY <3>1
    <3>3. d = [id |-> d.id, status |-> d.status, judged |-> d.judged, screen |-> d.screen,
               final |-> d.final]
      BY <3>1, <3>2
    <3>4. d.final \in {"none", "cleared", "short", "abstained"}
      BY <3>2
    <3> QED
      BY <2>1, <3>2, <3>3, <3>4 DEF InLedger
  <2>2. \A c \in cands : InLedger(c, l, n)
    BY DEF LoopInv, InLedgers
  <2>3. \A d \in cands' : InLedger(d, l, n)
    BY <1>2, <2>1, <2>2
  <2> QED
    BY <1>2, <2>3 DEF InLedgers
<1>7. WinnerConfirmed'
  BY <1>2 DEF LoopInv, Position, WinnerConfirmed
<1> QED
  BY <1>3, <1>4, <1>5, <1>6, <1>7 DEF LoopInv

\* Every step keeps it.
LEMMA LoopInvNext == LoopInv /\ [Next]_vars => LoopInv'
<1> SUFFICES ASSUME LoopInv, [Next]_vars PROVE LoopInv'
  OBVIOUS
<1>1. CASE \E m \in Mechs : Veto(m) \/ Promote(m)
  BY <1>1, WorldKeeps
<1>2. CASE Crash
  BY <1>2, CrashKeeps
<1>3. CASE GateBlocks \/ EnterEvolve \/ StartRound \/ EndRounds \/ StopJob \/ NoPanel
  BY <1>3, StageKeeps
<1>4. CASE Generate \/ Review \/ Rank
  BY <1>4, CallsKeep
<1>5. CASE Screen
  BY <1>5, ScreenKeeps
<1>6. CASE CommitRound
  BY <1>6, CommitRoundKeeps
<1>7. CASE EnterFinal \/ CallFinal \/ DowngradeFinal \/ Score \/ Measure
  BY <1>7, ShippingKeeps
<1>8. CASE CommitFinal
  BY <1>8, CommitFinalKeeps
<1>9. CASE UNCHANGED vars
  <2>1. UNCHANGED <<rows, similar, pc, loop, warm, failed, round>>
    BY <1>9 DEF vars, rows, world, locals
  <2>2. Typed' /\ Position'
    BY <2>1, RowsStand DEF rows, round, LoopInv, Typed, Position
  <2>3. ScreensOfFinalists'
    <3>1. Selected' = Selected /\ Finalists' = Finalists
      BY <2>1, SelectionStands DEF rows, round
    <3> QED
      BY <2>1, <3>1 DEF LoopInv, ScreensOfFinalists, round
  <2> QED
    BY <2>1, <2>2, <2>3, RowsStand DEF rows, LoopInv
<1> QED
  BY <1>1, <1>2, <1>3, <1>4, <1>5, <1>6, <1>7, <1>8, <1>9 DEF Next

\* Whoever dies where, the rows and the owner agree as LoopInv says.
THEOREM LoopInvariance == Spec => []LoopInv
  BY LoopInvInit, LoopInvNext, PTL DEF Spec

\* The type invariant of the evolve loop.
THEOREM LoopTyped == Spec => []TypeOK
<1>1. LoopInv => TypeOK
  <2> SUFFICES ASSUME LoopInv PROVE TypeOK
    OBVIOUS
  <2>1. ASSUME NEW n \in DOMAIN ledger
        PROVE  /\ ledger[n].mech \in Mechs /\ ledger[n].score \in Scores \cup {NoScore}
               /\ ledger[n].outcome \in {"win", "lose", "suppressed", "unavailable"}
               /\ Range(ledger[n].order) \subseteq Mechs
    <3>1. ledger[n] \in Rows
      BY DEF LoopInv, Typed
    <3>2. ledger[n].order \in Seq(Mechs)
      BY <3>1 DEF Rows
    <3> QED
      BY <3>1, <3>2 DEF Rows, Results, Range
  <2>2. ASSUME NEW c \in cands
        PROVE  /\ c.id \in (1..Len(ledger)) \X Mechs
               /\ c.status \in {"suppressed", "discarded", "champion"}
               /\ c.final \in {"none", "cleared", "short", "abstained"}
    BY DEF LoopInv, InLedgers, InLedger
  <2>3. loop.best \in Scores \cup {NoScore}
    BY DEF LoopInv, Typed, LoopStates, Results
  <2> QED
    BY <2>1, <2>2, <2>3 DEF TypeOK, LoopInv, Typed
<1> QED
  BY <1>1, LoopInvariance, PTL

\* At any instant, resumed or not, the one candidate with the champion's status is the
\* one the ledger's replay names: the row and the dethroning land together.
THEOREM LedgerNamesTheChampion == Spec => []OneChampion
<1>1. LoopInv => OneChampion
  BY DEF LoopInv, InLedgers, InLedger, OneChampion, Champion
<1> QED
  BY <1>1, LoopInvariance, PTL

\* A successor that enters the loop is where the dead owner's ledger is and still
\* holds as tried every mechanism that was ranked.
THEOREM ResumptionForgetsNothing == Spec => []ResumeForgetsNothing
<1>1. LoopInv => ResumeForgetsNothing
  <2> SUFFICES ASSUME LoopInv, pc = "round"
               PROVE  /\ [loop EXCEPT !.tried = {}] = [Replay(ledger) EXCEPT !.tried = {}]
                      /\ \A c \in cands : c.status # "suppressed" => c.id[2] \in loop.tried
    BY DEF ResumeForgetsNothing
  <2>1. InStep(loop, Replay(ledger)) /\ loop \in LoopStates /\ Replay(ledger) \in LoopStates
    BY ReplayType DEF LoopInv, Typed, Position
  <2>2. ASSUME NEW l \in LoopStates, NEW r \in LoopStates, InStep(l, r)
        PROVE  [l EXCEPT !.tried = {}] = [r EXCEPT !.tried = {}]
    BY <2>2 DEF InStep, LoopStates
  <2>3. \A c \in cands : c.status # "suppressed" => c.id[2] \in Replay(ledger).tried
    BY DEF LoopInv, InLedgers, InLedger
  <2> QED
    BY <2>1, <2>2, <2>3 DEF InStep
<1> QED
  BY <1>1, LoopInvariance, PTL

\* What a candidate's score is to the champion's, or to none.
Beaten(c, l) ==
    c.screen.score # NoScore /\ c.id # l.champion =>
        c.screen.score < (IF l.best = NoScore THEN Floor ELSE l.best + KeepDelta)

\* A round's winner beats what was held, and whoever lost to it.
LEMMA BestWinsNext ==
    ASSUME KeepDelta > 0, LoopInv, BestWins, [Next]_vars
    PROVE  BestWins'
<1> DEFINE old == Replay(ledger)
<1>1. \A c \in cands : Beaten(c, old)
  BY DEF BestWins, Beaten
<1>2. CASE CommitRound
  <2>1. PICK v : v = Verdict(Rankable, Finalists)
    OBVIOUS
  <2> DEFINE new == Replay(ledger')
             n == Len(ledger)
  <2>2. /\ Selected /\ pc = "work" /\ old \in LoopStates /\ new \in LoopStates
        /\ v.outcome = "win" => new.best = v.score /\ new.champion = <<n + 1, Ideas[v.at]>>
        /\ v.outcome # "win" => new.best = old.best /\ new.champion = old.champion
        /\ cands' = {Dethroned(c, v) : c \in cands}
                      \cup {Candidate(Ideas[i], i, Rankable, v) : i \in DOMAIN Ideas}
    BY <1>2, <2>1, CommitFacts
  <2>3. /\ Typed /\ ScreensOfFinalists /\ InStep(loop, old)
        /\ \A c \in cands : InLedger(c, old, n)
    BY <2>2 DEF LoopInv, Position, InLedgers
  <2>4. /\ v.score \in Results
        /\ v.outcome = "win" => v.score # NoScore /\ IsWin(loop, v.score)
        /\ v.outcome # "win" /\ v.score # NoScore => ~IsWin(loop, v.score)
    BY <2>1, <2>2, <2>3, VerdictFacts
  <2>5. new.best \in Results /\ old.best \in Results /\ loop.best = old.best
    BY <2>2, <2>3 DEF LoopStates, InStep
  <2>6. KeepDelta \in Nat /\ Floor \in Nat /\ \A s \in Results : s \in Int /\ (s # NoScore => s \in Nat)
    BY EvolveAssumption DEF Results, NoScore
  <2> DEFINE Bar(l) == IF l.best = NoScore THEN Floor ELSE l.best + KeepDelta
  <2>7. /\ v.outcome = "win" => v.score >= Bar(old) /\ Bar(new) = v.score + KeepDelta
        /\ v.outcome # "win" => Bar(new) = Bar(old) /\ (v.score # NoScore => v.score < Bar(old))
    BY <2>2, <2>4, <2>5, <2>6 DEF IsWin
  <2>8. Bar(old) \in Nat /\ Bar(new) \in Nat
    BY <2>5, <2>6
  <2> HIDE DEF old, new, Bar
  <2>9. ASSUME NEW c \in cands PROVE Beaten(Dethroned(c, v), new)
    <3> DEFINE d == Dethroned(c, v)
    <3>1. /\ c.screen \in Screens
          /\ c.id = old.champion => c.screen.score = old.best
          /\ d.id = c.id /\ d.screen = c.screen
      BY <2>3 DEF InLedger, Dethroned
    <3> HIDE DEF d
    <3>2. c.screen.score \in Int /\ Beaten(c, old)
      BY <1>1, <2>6, <3>1 DEF Screens
    <3>3. SUFFICES ASSUME c.screen.score # NoScore, c.id # new.champion
                   PROVE  c.screen.score < Bar(new)
      BY <3>1 DEF Beaten, Bar, d
    <3>4. CASE c.id = old.champion
      <4>1. v.outcome = "win" /\ c.screen.score = old.best /\ Bar(old) = old.best + KeepDelta
        BY <2>2, <3>1, <3>3, <3>4 DEF Bar
      <4>2. v.score \in Int
        BY <2>4, <2>6
      <4> QED
        BY <2>6, <2>7, <2>8, <3>2, <4>1, <4>2
    <3>5. CASE c.id # old.champion
      <4>1. c.screen.score < Bar(old)
        BY <3>2, <3>3, <3>5 DEF Beaten, Bar
      <4>2. v.score \in Int
        BY <2>4, <2>6
      <4> QED
        BY <2>6, <2>7, <2>8, <3>2, <4>1, <4>2
    <3> QED
      BY <3>4, <3>5
  <2>10. ASSUME NEW i \in DOMAIN Ideas PROVE Beaten(Candidate(Ideas[i], i, Rankable, v), new)
    <3> DEFINE c == Candidate(Ideas[i], i, Rankable, v)
    <3>1. /\ c.screen \in Screens
          /\ c.screen.score # NoScore => v.score # NoScore /\ c.screen.score <= v.score
      BY <2>1, <2>2, <2>3, CandidateFacts
    <3> HIDE DEF c
    <3>2. c.screen.score \in Int /\ v.score \in Int
      BY <2>4, <2>6, <3>1 DEF Screens
    <3>3. c.screen.score # NoScore => c.screen.score < Bar(new)
      BY <2>6, <2>7, <2>8, <3>1, <3>2
    <3> QED
      BY <3>3 DEF Beaten, Bar, c
  <2>11. \A c \in cands' : Beaten(c, new)
    BY <2>2, <2>9, <2>10
  <2> QED
    BY <2>11 DEF BestWins, Beaten, new
<1>3. CASE CommitFinal
  <2>1. /\ ledger' = ledger
        /\ \E result : cands' = {IF c \in Champion THEN [c EXCEPT !.final = result] ELSE c : c \in cands}
    BY <1>3 DEF CommitFinal, StoreFinal
  <2>2. \A c \in cands : InLedger(c, old, Len(ledger))
    BY DEF LoopInv, InLedgers
  <2>3. ASSUME NEW c \in cands, NEW result
        PROVE  Beaten(IF c \in Champion THEN [c EXCEPT !.final = result] ELSE c, old)
    <3> DEFINE d == [c EXCEPT !.final = result]
    <3>1. d.id = c.id /\ d.screen = c.screen
      BY <2>2 DEF InLedger
    <3> HIDE DEF d
    <3> QED
      BY <1>1, <3>1 DEF Beaten, d
  <2>4. \A c \in cands' : Beaten(c, old)
    BY <2>1, <2>3
  <2> QED
    BY <2>1, <2>4 DEF BestWins, Beaten
<1>4. CASE ~CommitRound /\ ~CommitFinal
  <2>1. UNCHANGED <<ledger, cands>>
    BY <1>4 DEF Next, Veto, Promote, Crash, GateBlocks, EnterEvolve, StartRound, EndRounds, StopJob,
                Generate, Review, Rank, NoPanel, Screen, CallScreen, TakeScreen, FailScreen,
                EnterFinal, CallFinal, DowngradeFinal, Score, Measure, vars, rows
  <2> QED
    BY <2>1 DEF BestWins
<1> QED
  BY <1>2, <1>3, <1>4

\* No screened idea of any round that scored enough for the champion's place was passed
\* over, if only a real improvement may take that place.
THEOREM TheBestWins == ASSUME KeepDelta > 0 PROVE Spec => []BestWins
<1>1. Init => BestWins
  BY DEF Init, BestWins
<1>2. BestWins /\ LoopInv /\ [Next]_vars => BestWins'
  BY BestWinsNext
<1> QED
  BY <1>1, <1>2, LoopInvariance, PTL DEF Spec

-----------------------------------------------------------------------------
(* Verdicts by position: what a round is when nothing it was warmed with,  *)
(* or vetoed with, changes under it.                                       *)

OwnVerdicts ==
    \A i \in DOMAIN calls.critic : i \in DOMAIN Ideas /\ calls.critic[i].of = Ideas[i]

\* Without a past winner a round may be redone: more ideas only come behind the judged.
Cold == similar = NoMech /\ retrievals = MaxRetrievals /\ warm = NoMech /\ OwnVerdicts

\* With one nobody dies: the critic is asked once the ideas are complete.
Undisturbed ==
    /\ similar \in Mechs /\ crashes = MaxCrashes
    /\ pc = "work" => OwnVerdicts /\ (calls.critic # <<>> => ~NeedsBatch)
    /\ pc \in {"stage", "round"} /\ ~evolved => calls.critic = <<>>

Stable == Cold \/ Undisturbed

\* Nothing is answered at first.
LEMMA StableAtInit == StableInit => Stable /\ VerdictsAreOwn
<1> SUFFICES ASSUME StableInit PROVE Stable /\ VerdictsAreOwn
  OBVIOUS
<1>1. Init /\ cands = {} /\ calls = NoCalls /\ warm = NoMech /\ similar \in Mechs \cup {NoMech}
  BY DEF StableInit, Init
<1>2. calls.critic = <<>> /\ pc = "stage"
  BY <1>1 DEF NoCalls, Init
<1>3. OwnVerdicts
  <2>1. DOMAIN calls.critic = {}
    BY <1>2
  <2> QED
    BY <2>1 DEF OwnVerdicts
<1>4. VerdictsAreOwn
  BY <1>1 DEF VerdictsAreOwn
<1> QED
  BY <1>1, <1>2, <1>3, <1>4 DEF StableInit, Stable, Cold, Undisturbed

\* The ideas rest on the batches.
LEMMA BatchesStand ==
    ASSUME UNCHANGED <<warm, refillFailed>>, calls'.batches = calls.batches
    PROVE  Ideas' = Ideas /\ NeedsBatch' = NeedsBatch
<1>1. Ideas' = Ideas /\ Target' = Target
  BY DEF Ideas, Target
<1> QED
  BY <1>1 DEF NeedsBatch

\* Steps that leave the batches and the critic's answers alone.
LEMMA AnswersStand ==
    ASSUME calls'.batches = calls.batches, calls'.critic = calls.critic, warm' = warm
    PROVE  /\ OwnVerdicts => OwnVerdicts'
           /\ refillFailed' = refillFailed => (NeedsBatch' <=> NeedsBatch)
<1>1. Ideas' = Ideas
  BY DEF Ideas
<1> QED
  BY <1>1, BatchesStand DEF OwnVerdicts

\* The critic answers each position about the idea that has it.
LEMMA ReviewAnswers ==
    ASSUME LoopInv, Review
    PROVE  OwnVerdicts' /\ calls'.batches = calls.batches /\ NeedsBatch' = NeedsBatch /\ ~NeedsBatch
<1>1. PICK pass \in SUBSET ToReview :
          calls' = [calls EXCEPT !.critic =
                       [i \in ToReview |-> [of |-> Ideas[i], pass |-> i \in pass]]]
  BY DEF Review
<1>2. calls = [batches |-> calls.batches, critic |-> calls.critic, rank |-> calls.rank,
               screen |-> calls.screen, final |-> calls.final]
  BY DEF LoopInv, Typed, CallsTyped
<1> DEFINE answers == [i \in ToReview |-> [of |-> Ideas[i], pass |-> i \in pass]]
<1>3. calls' = [batches |-> calls.batches, critic |-> answers, rank |-> calls.rank,
                screen |-> calls.screen, final |-> calls.final]
  BY <1>1, <1>2
<1>4. DOMAIN answers = ToReview /\ \A i \in ToReview : answers[i].of = Ideas[i]
  OBVIOUS
<1> HIDE DEF answers
<1>5. calls'.batches = calls.batches /\ calls'.critic = answers
  BY <1>3
<1>6. UNCHANGED <<warm, refillFailed>> /\ ~NeedsBatch
  BY DEF Review, NeedsReview, locals, round
<1>7. Ideas' = Ideas /\ NeedsBatch' = NeedsBatch
  BY <1>5, <1>6, BatchesStand
<1>8. ToReview \subseteq DOMAIN Ideas
  BY DEF ToReview
<1> QED
  BY <1>4, <1>5, <1>6, <1>7, <1>8 DEF OwnVerdicts

\* A batch, without a warm start, leaves the answered ideas where they are.
LEMMA GenerateAnswers ==
    ASSUME LoopInv, Generate, OwnVerdicts, warm = NoMech
    PROVE  OwnVerdicts'
<1>1. calls = [batches |-> calls.batches, critic |-> calls.critic, rank |-> calls.rank,
               screen |-> calls.screen, final |-> calls.final]
  BY DEF LoopInv, Typed, CallsTyped
<1>2. warm' = warm
  BY DEF Generate
<1>3. CASE calls' = calls
  BY <1>2, <1>3, AnswersStand
<1>4. CASE \E batch \in Batches : calls' = [calls EXCEPT !.batches = Append(@, batch)]
  <2>1. PICK batch \in Batches : calls' = [calls EXCEPT !.batches = Append(@, batch)]
    BY <1>4
  <2> DEFINE more == Append(calls.batches, batch)
  <2>2. calls' = [batches |-> more, critic |-> calls.critic, rank |-> calls.rank,
                  screen |-> calls.screen, final |-> calls.final]
    BY <1>1, <2>1
  <2>3. calls'.batches = more /\ calls'.critic = calls.critic
    BY <2>2
  <2>4. batch \in Seq(Mechs) /\ calls.batches \in Batched
    BY BatchIsSequence DEF LoopInv, Typed, CallsTyped
  <2>5. Extends(IdeasOf(more, NoMech), IdeasOf(calls.batches, NoMech))
    BY <2>4, IdeasGrow
  <2> HIDE DEF more
  <2>6. Ideas = IdeasOf(calls.batches, NoMech) /\ Ideas' = IdeasOf(more, NoMech)
    BY <1>2, <2>3 DEF Ideas
  <2>7. more \in Batched /\ NoMech \in Mechs \cup {NoMech}
    BY <2>4, BatchIsSequence DEF Batched, more
  <2>8. Ideas \in Seq(Mechs) /\ Ideas' \in Seq(Mechs)
    BY <2>4, <2>6, <2>7, IdeasFacts
  <2>9. \A i \in DOMAIN Ideas : i \in DOMAIN Ideas' /\ Ideas'[i] = Ideas[i]
    <3>1. Len(Ideas') >= Len(Ideas) /\ \A i \in 1..Len(Ideas) : Ideas'[i] = Ideas[i]
      BY <2>5, <2>6 DEF Extends
    <3> QED
      BY <2>8, <3>1
  <2> QED
    BY <2>3, <2>9 DEF OwnVerdicts
<1> QED
  BY <1>3, <1>4 DEF Generate

\* Every other step leaves the answers, or takes all of them away with the round.
LEMMA CallsOfStep ==
    ASSUME LoopInv, [Next]_vars, ~Generate, ~Review
    PROVE  \/ calls' = NoCalls /\ pc \in {"work", "final"}
           \/ calls'.batches = calls.batches /\ calls'.critic = calls.critic
<1>1. calls = [batches |-> calls.batches, critic |-> calls.critic, rank |-> calls.rank,
               screen |-> calls.screen, final |-> calls.final]
  BY DEF LoopInv, Typed, CallsTyped
<1>2. ASSUME NEW x, calls' = [calls EXCEPT !.rank = x] \/ calls' = [calls EXCEPT !.screen = x]
                      \/ calls' = [calls EXCEPT !.final = x]
      PROVE  calls'.batches = calls.batches /\ calls'.critic = calls.critic
  BY <1>1, <1>2
<1>3. ASSUME NEW t, CallScreen(t)
      PROVE  calls'.batches = calls.batches /\ calls'.critic = calls.critic
  <2>1. PICK score \in Scores : calls' = [calls EXCEPT !.screen[t] = [of |-> IdeaOf(t), score |-> score]]
    BY <1>3 DEF CallScreen
  <2> QED
    BY <1>1, <2>1
<1>4. CASE Rank
  BY <1>2, <1>4 DEF Rank
<1>5. CASE CallFinal
  BY <1>2, <1>5 DEF CallFinal
<1>6. CASE Screen
  BY <1>3, <1>6 DEF Screen, TakeScreen, FailScreen, rows
<1>7. CASE CommitRound
  BY <1>7 DEF CommitRound
<1>8. CASE CommitFinal
  BY <1>8 DEF CommitFinal, StoreFinal
<1>9. CASE ~Rank /\ ~CallFinal /\ ~Screen /\ ~CommitRound /\ ~CommitFinal
  BY <1>9 DEF Next, Veto, Promote, Crash, GateBlocks, EnterEvolve, StartRound, EndRounds, StopJob,
              NoPanel, EnterFinal, DowngradeFinal, Score, Measure, vars, rows
<1> QED
  BY <1>4, <1>5, <1>6, <1>7, <1>8, <1>9

\* Every step without a past winner.
LEMMA ColdKeeps ==
    ASSUME LoopInv, Cold, [Next]_vars
    PROVE  Cold'
<1>1. similar' = NoMech /\ retrievals' = MaxRetrievals /\ warm' = NoMech
  <2>1. MaxRetrievals \in Nat
    BY EvolveAssumption
  <2>2. CASE \E m \in Mechs : Veto(m) \/ Promote(m)
    BY <2>1, <2>2 DEF Cold, Veto, Promote, locals
  <2>3. CASE Crash \/ StartRound
    BY <2>3 DEF Cold, Crash, StartRound, world
  <2>4. CASE GateBlocks \/ EnterEvolve \/ EndRounds \/ StopJob
    BY <2>4 DEF Cold, GateBlocks, EnterEvolve, EndRounds, StopJob, locals, world
  <2>5. CASE Generate \/ Review \/ Rank \/ NoPanel \/ Screen \/ CommitRound
    BY <2>5 DEF Cold, Generate, Review, Rank, NoPanel, Screen, CallScreen, TakeScreen, FailScreen,
                CommitRound, locals, world
  <2>6. CASE EnterFinal \/ CallFinal \/ DowngradeFinal \/ CommitFinal \/ Score \/ Measure
    BY <2>6 DEF Cold, EnterFinal, CallFinal, DowngradeFinal, CommitFinal, StoreFinal, Score, Measure,
                locals, world
  <2>7. CASE UNCHANGED vars
    BY <2>7 DEF Cold, vars, locals, world
  <2> QED
    BY <2>2, <2>3, <2>4, <2>5, <2>6, <2>7 DEF Next
<1>2. OwnVerdicts'
  <2>1. CASE Generate
    BY <2>1, GenerateAnswers DEF Cold
  <2>2. CASE Review
    BY <2>2, ReviewAnswers
  <2>3. CASE ~Generate /\ ~Review
    <3>1. CASE calls' = NoCalls
      BY <3>1 DEF OwnVerdicts, NoCalls
    <3>2. CASE calls'.batches = calls.batches /\ calls'.critic = calls.critic
      BY <1>1, <3>2, AnswersStand DEF Cold
    <3> QED
      BY <2>3, <3>1, <3>2, CallsOfStep
  <2> QED
    BY <2>1, <2>2, <2>3
<1> QED
  BY <1>1, <1>2 DEF Cold

\* Every step of a job that does not die.
LEMMA UndisturbedKeeps ==
    ASSUME LoopInv, Undisturbed, [Next]_vars
    PROVE  Undisturbed'
<1>1. similar' \in Mechs /\ crashes' = MaxCrashes /\ ~Crash
  <2>1. MaxCrashes \in Nat
    BY EvolveAssumption
  <2>2. ~Crash
    BY <2>1 DEF Undisturbed, Crash
  <2>3. similar' \in Mechs /\ crashes' = MaxCrashes
    <3>1. CASE \E m \in Mechs : Veto(m) \/ Promote(m)
      BY <3>1 DEF Undisturbed, Veto, Promote
    <3>2. CASE GateBlocks \/ EnterEvolve \/ StartRound \/ EndRounds \/ StopJob
      BY <3>2 DEF Undisturbed, GateBlocks, EnterEvolve, StartRound, EndRounds, StopJob, world
    <3>3. CASE Generate \/ Review \/ Rank \/ NoPanel \/ Screen \/ CommitRound
      BY <3>3 DEF Undisturbed, Generate, Review, Rank, NoPanel, Screen, CallScreen, TakeScreen,
                  FailScreen, CommitRound, world
    <3>4. CASE EnterFinal \/ CallFinal \/ DowngradeFinal \/ CommitFinal \/ Score \/ Measure
      BY <3>4 DEF Undisturbed, EnterFinal, CallFinal, DowngradeFinal, CommitFinal, StoreFinal, Score,
                  Measure, world
    <3>5. CASE UNCHANGED vars
      BY <3>5 DEF Undisturbed, vars, world
    <3> QED
      BY <2>2, <3>1, <3>2, <3>3, <3>4, <3>5 DEF Next
  <2> QED
    BY <2>2, <2>3
<1>2. CASE Generate
  <2>1. pc = "work" /\ pc' = "work" /\ NeedsBatch /\ calls.critic = <<>>
    BY <1>2 DEF Undisturbed, Generate
  <2>2. calls = [batches |-> calls.batches, critic |-> calls.critic, rank |-> calls.rank,
                 screen |-> calls.screen, final |-> calls.final]
    BY DEF LoopInv, Typed, CallsTyped
  <2>3. calls'.critic = <<>>
    <3>1. ASSUME NEW b, calls' = [calls EXCEPT !.batches = Append(@, b)]
          PROVE  calls'.critic = <<>>
      BY <2>1, <2>2, <3>1
    <3> QED
      BY <1>2, <2>1, <3>1 DEF Generate
  <2>4. OwnVerdicts'
    BY <2>3 DEF OwnVerdicts
  <2> QED
    BY <1>1, <2>1, <2>3, <2>4 DEF Undisturbed
<1>3. CASE Review
  <2>1. pc' = "work"
    BY <1>3 DEF Review
  <2> QED
    BY <1>1, <1>3, <2>1, ReviewAnswers DEF Undisturbed
<1>4. CASE ~Generate /\ ~Review
  <2>1. CASE calls' = NoCalls /\ pc \in {"work", "final"}
    <3>1. calls'.critic = <<>> /\ OwnVerdicts'
      BY <2>1 DEF NoCalls, OwnVerdicts
    <3> QED
      BY <1>1, <3>1 DEF Undisturbed
  <2>2. CASE calls'.batches = calls.batches /\ calls'.critic = calls.critic
    <3>1. \/ pc = "work" /\ pc' = "work" /\ UNCHANGED <<warm, refillFailed>>
          \/ pc' = "work" /\ calls.critic = <<>>
          \/ pc' \in {"stage", "round"} /\ (evolved' \/ (calls.critic = <<>>))
          \/ pc' \in {"final", "ended"}
          \/ calls' = NoCalls
      <4>1. CASE \E m \in Mechs : Veto(m) \/ Promote(m)
        BY <4>1 DEF Undisturbed, Veto, Promote
      <4>2. CASE GateBlocks \/ EndRounds \/ NoPanel
        BY <4>2 DEF GateBlocks, EndRounds, NoPanel, CompleteEvolve
      <4>3. CASE EnterEvolve \/ StopJob
        BY <4>3 DEF Undisturbed, EnterEvolve, StopJob
      <4>4. CASE StartRound
        BY <4>4 DEF LoopInv, Position, Undisturbed, StartRound
      <4>5. CASE Rank \/ Screen
        BY <4>5 DEF Rank, Screen, CallScreen, TakeScreen, FailScreen, locals, round
      <4>6. CASE CommitRound \/ CommitFinal
        BY <4>6 DEF CommitRound, CommitFinal, StoreFinal
      <4>7. CASE EnterFinal \/ CallFinal \/ DowngradeFinal \/ Score \/ Measure
        BY <4>7 DEF LoopInv, Position, EnterFinal, CallFinal, DowngradeFinal, Score, Measure, rows
      <4>8. CASE UNCHANGED vars
        BY <4>8 DEF LoopInv, Typed, Undisturbed, vars, rows, locals, round
      <4> QED
        BY <1>1, <1>4, <4>1, <4>2, <4>3, <4>4, <4>5, <4>6, <4>7, <4>8 DEF Next
    <3>2. CASE pc = "work" /\ pc' = "work" /\ UNCHANGED <<warm, refillFailed>>
      BY <1>1, <2>2, <3>2, AnswersStand DEF Undisturbed
    <3>3. CASE pc' = "work" /\ calls.critic = <<>>
      <4>1. calls'.critic = <<>> /\ DOMAIN calls'.critic = {}
        BY <2>2, <3>3
      <4> QED
        BY <1>1, <3>3, <4>1 DEF Undisturbed, OwnVerdicts
    <3>4. CASE pc' \in {"stage", "round"} /\ (evolved' \/ (calls.critic = <<>>))
      BY <1>1, <2>2, <3>4 DEF Undisturbed
    <3>5. CASE pc' \in {"final", "ended"}
      BY <1>1, <3>5 DEF Undisturbed
    <3>6. CASE calls' = NoCalls
      BY <1>1, <3>6 DEF Undisturbed, NoCalls, OwnVerdicts
    <3> QED
      BY <3>1, <3>2, <3>3, <3>4, <3>5, <3>6
  <2> QED
    BY <1>4, <2>1, <2>2, CallsOfStep
<1> QED
  BY <1>2, <1>3, <1>4

\* The candidates of a round take the answers given about them.
LEMMA VerdictsNext ==
    ASSUME LoopInv, Stable, VerdictsAreOwn, [Next]_vars
    PROVE  VerdictsAreOwn'
<1>1. CASE CommitRound
  <2>1. PICK v : v = Verdict(Rankable, Finalists)
    OBVIOUS
  <2>2. /\ Selected /\ pc = "work"
        /\ cands' = {Dethroned(c, v) : c \in cands}
                      \cup {Candidate(Ideas[i], i, Rankable, v) : i \in DOMAIN Ideas}
    BY <1>1, <2>1, CommitFacts
  <2>3. Typed /\ ScreensOfFinalists /\ OwnVerdicts
    BY <2>2 DEF LoopInv, Stable, Cold, Undisturbed
  <2>4. ASSUME NEW c \in cands, Dethroned(c, v).status # "suppressed"
        PROVE  Dethroned(c, v).judged = Dethroned(c, v).id[2]
    <3>1. InLedger(c, Replay(ledger), Len(ledger))
      BY DEF LoopInv, InLedgers
    <3>2. loop.champion = Replay(ledger).champion
      BY <2>2 DEF LoopInv, Position, InStep
    <3>3. c.status # "suppressed"
      BY <2>4, <3>1, <3>2 DEF Dethroned, InLedger
    <3>4. c.judged = c.id[2]
      BY <3>3 DEF VerdictsAreOwn
    <3>5. Dethroned(c, v).judged = c.judged /\ Dethroned(c, v).id = c.id
      BY <3>1 DEF Dethroned, InLedger
    <3> QED
      BY <3>4, <3>5
  <2>5. ASSUME NEW i \in DOMAIN Ideas, NEW c, c = Candidate(Ideas[i], i, Rankable, v),
               c.status # "suppressed"
        PROVE  c.judged = c.id[2]
    <3>1. /\ c.id = <<loop.round + 1, Ideas[i]>> /\ c.judged = Judged(Ideas[i], i)
          /\ i \in Range(Rankable)
      BY <2>1, <2>2, <2>3, <2>5, CandidateFacts
    <3>2. i \in ToReview /\ Passes(i)
      BY <2>3, <3>1, RankableFacts
    <3>3. c.judged = calls.critic[i].of /\ i \in DOMAIN calls.critic
      BY <3>1, <3>2 DEF Judged, ToReview, Passes
    <3> QED
      BY <2>3, <3>1, <3>3 DEF OwnVerdicts
  <2> QED
    BY <2>2, <2>4, <2>5 DEF VerdictsAreOwn
<1>2. CASE CommitFinal
  <2>1. PICK result : cands' = {IF c \in Champion THEN [c EXCEPT !.final = result] ELSE c : c \in cands}
    BY <1>2 DEF CommitFinal, StoreFinal
  <2>2. ASSUME NEW c \in cands, NEW d, d = IF c \in Champion THEN [c EXCEPT !.final = result] ELSE c
        PROVE  d.status = c.status /\ d.judged = c.judged /\ d.id = c.id
    <3>1. InLedger(c, Replay(ledger), Len(ledger))
      BY DEF LoopInv, InLedgers
    <3> QED
      BY <2>2, <3>1 DEF InLedger
  <2> QED
    BY <2>1, <2>2 DEF VerdictsAreOwn
<1>3. CASE ~CommitRound /\ ~CommitFinal
  <2>1. cands' = cands
    BY <1>3 DEF Next, Veto, Promote, Crash, GateBlocks, EnterEvolve, StartRound, EndRounds, StopJob,
                Generate, Review, Rank, NoPanel, Screen, CallScreen, TakeScreen, FailScreen,
                EnterFinal, CallFinal, DowngradeFinal, Score, Measure, vars, rows
  <2> QED
    BY <2>1 DEF VerdictsAreOwn
<1> QED
  BY <1>1, <1>2, <1>3

\* The verdicts hold throughout.
LEMMA StableInvariance == StableSpec => [](LoopInv /\ Stable /\ VerdictsAreOwn)
<1>1. StableInit => LoopInv /\ Stable /\ VerdictsAreOwn
  BY StableAtInit, LoopInvInit DEF StableInit
<1>2. LoopInv /\ Stable /\ VerdictsAreOwn /\ [Next]_vars => (LoopInv /\ Stable /\ VerdictsAreOwn)'
  <2> SUFFICES ASSUME LoopInv, Stable, VerdictsAreOwn, [Next]_vars
               PROVE  (LoopInv /\ Stable /\ VerdictsAreOwn)'
    OBVIOUS
  <2>1. Stable'
    BY ColdKeeps, UndisturbedKeeps DEF Stable
  <2> QED
    BY <2>1, LoopInvNext, VerdictsNext
<1> QED
  BY <1>1, <1>2, PTL DEF StableSpec

\* Of a round that is redone without a warm start, or warmed and never redone, every
\* idea that competes was let through by the critic's answer about itself.
THEOREM VerdictsBelong == StableSpec => []VerdictsAreOwn
  BY StableInvariance, PTL

\* What ships was let through, screened above the floor, never dethroned and confirmed.
THEOREM ShippedWentTheWholeWay == StableSpec => []ShippedIsConfirmed
<1>1. LoopInv /\ Stable /\ VerdictsAreOwn => ShippedIsConfirmed
  <2> SUFFICES ASSUME LoopInv, VerdictsAreOwn, outcome = "winner" PROVE ShippedIsConfirmed
    BY DEF ShippedIsConfirmed
  <2> DEFINE l == Replay(ledger)
             n == Len(ledger)
  <2>1. PICK c \in cands : c.id = l.champion /\ c.final = "cleared"
    BY DEF LoopInv, WinnerConfirmed
  <2>2. InLedger(c, l, n) /\ Follows(l, n)
    BY DEF LoopInv, InLedgers, Position
  <2> HIDE DEF l, n
  <2>3. c.status = "champion" /\ c.screen.score = l.best /\ c.id \in (1..n) \X Mechs
    BY <2>1, <2>2 DEF InLedger
  <2>4. c.judged = c.id[2]
    BY <2>3 DEF VerdictsAreOwn
  <2>5. l.champion # <<>>
    <3>1. PICK r \in 1..n, m \in Mechs : c.id = <<r, m>>
      BY <2>3
    <3>2. <<r, m>> # <<>>
      OBVIOUS
    <3> QED
      BY <2>1, <3>1, <3>2
  <2>6. c.screen.score >= Floor
    BY <2>2, <2>3, <2>5 DEF Follows
  <2> QED
    BY <2>1, <2>3, <2>4, <2>6 DEF ShippedIsConfirmed, l
<1> QED
  BY <1>1, StableInvariance, PTL
=============================================================================
