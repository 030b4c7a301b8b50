--------------------------- MODULE LineageProofs ---------------------------
(***************************************************************************)
(* What the operators of Lineage compute, for sequences of any length.     *)
(* Induction over the length is by NatSetInduction: the set of lengths of  *)
(* which the claim holds is all of Nat.                                    *)
(***************************************************************************)
EXTENDS Lineage, FiniteSetTheorems, SequenceTheorems, TLAPS

-----------------------------------------------------------------------------
(***************************************************************************)
(* Induction                                                               *)
(***************************************************************************)

\* A set with 0 that is closed under successor holds every natural number.  A
\* least number outside it would have a least initial segment.
LEMMA NatSetInduction ==
  ASSUME NEW S, 0 \in S, \A n \in Nat : n \in S => n + 1 \in S
  PROVE  Nat \subseteq S
<1> DEFINE B == Nat \ S
           T == {0..n : n \in B}
           R == StrictSubsetOrdering(Nat)
           F == FiniteSubsetsOf(Nat)
<1>1. SUFFICES ASSUME B # {} PROVE FALSE
  OBVIOUS
<1>2. IsWellFoundedOn(R, F)
  BY FS_StrictSubsetOrderingWellFounded
<1>3. T \subseteq F
  <2>1. \A n \in Nat : IsFiniteSet(0..n)
    BY FS_Interval
  <2> QED BY <2>1 DEF FiniteSubsetsOf
<1>4. T # {}
  BY <1>1
<1>5. \E x \in T : \A y \in T : ~(<<y, x>> \in R)
  <2> HIDE DEF T, R, F
  <2> QED BY <1>2, <1>3, <1>4, WFMin
<1>6. PICK n \in B : \A m \in B : ~(<<0..m, 0..n>> \in R)
  BY <1>5
<1>7. n - 1 \in B
  BY n # 0
<1>8. <<0..(n - 1), 0..n>> \in R
  BY n - 1 \in Nat, n \in Nat, n \in 0..n, n \notin 0..(n - 1) DEF StrictSubsetOrdering
<1> QED BY <1>6, <1>7, <1>8

\* A recursion on a range of numbers has a solution.
Recurses(f, X, x, a, b, n, F) ==
  f \in [a..n -> X] /\ f[a] = x /\ \A i \in b..n : f[i] = F[i][f[i - 1]]

LEMMA RecursionSolved ==
  ASSUME NEW X, NEW x \in X, NEW a \in Nat, NEW b, b = a + 1, NEW n \in Nat, a <= n,
         NEW F \in [b..n -> [X -> X]]
  PROVE  \E f : Recurses(f, X, x, a, b, n, F)
<1> DEFINE Solves(f, m) == /\ f \in [a..m -> X] /\ f[a] = x
                           /\ \A i \in (a + 1)..m : f[i] = F[i][f[i - 1]]
           G == {k \in Nat : a + k <= n => \E f : Solves(f, a + k)}
<1>1. 0 \in G
  <2>1. Solves([i \in a..a |-> x], a) /\ a + 0 = a
    OBVIOUS
  <2> HIDE DEF Solves
  <2> QED BY <2>1
<1>2. \A k \in Nat : k \in G => k + 1 \in G
  <2> SUFFICES ASSUME NEW k \in Nat, a + (k + 1) <= n, NEW f, Solves(f, a + k)
               PROVE  \E g : Solves(g, a + (k + 1))
    <3>1. \A k \in Nat : a + (k + 1) <= n => a + k <= n
      OBVIOUS
    <3> HIDE DEF Solves
    <3> QED BY <3>1
  <2> DEFINE m == a + k
             g == [i \in a..(m + 1) |-> IF i <= m THEN f[i] ELSE F[i][f[m]]]
  <2>1. m \in Nat /\ a <= m /\ m + 1 = a + (k + 1) /\ m + 1 \in (a + 1)..n
    OBVIOUS
  <2> HIDE DEF m
  <2>2. f \in [a..m -> X] /\ f[a] = x /\ \A i \in (a + 1)..m : f[i] = F[i][f[i - 1]]
    BY DEF m
  <2>3. f[m] \in X /\ F[m + 1][f[m]] \in X
    BY <2>1, <2>2
  <2>4. g \in [a..(m + 1) -> X] /\ g[a] = x
    BY <2>1, <2>2, <2>3
  <2>5. \A i \in (a + 1)..(m + 1) : g[i] = F[i][g[i - 1]]
    <3> TAKE i \in (a + 1)..(m + 1)
    <3>1. CASE i <= m
      <4>1. i \in (a + 1)..m /\ i \in a..(m + 1) /\ i - 1 \in a..(m + 1) /\ i - 1 <= m
        BY <2>1, <3>1
      <4>2. g[i] = f[i] /\ g[i - 1] = f[i - 1]
        BY <3>1, <4>1
      <4> HIDE DEF g
      <4> QED BY <2>2, <4>1, <4>2
    <3>2. CASE i = m + 1
      <4>1. g[i] = F[i][f[m]] /\ g[i - 1] = f[m]
        BY <2>1, <3>2
      <4> HIDE DEF g
      <4> QED BY <4>1
    <3> QED BY <2>1, <3>1, <3>2
  <2> HIDE DEF g
  <2>6. Solves(g, m + 1)
    BY <2>4, <2>5
  <2> HIDE DEF Solves
  <2> QED BY <2>1, <2>6
<1>3. n - a \in Nat /\ a + (n - a) = n
  OBVIOUS
<1>4. n - a \in G
  <2> HIDE DEF G
  <2> QED BY <1>1, <1>2, <1>3, NatSetInduction
<1>5. \E f : Solves(f, n)
  <2> HIDE DEF Solves
  <2> QED BY <1>3, <1>4
<1> QED BY <1>5 DEF Recurses

\* A set of positions has a greatest and a least member.
LEMMA PositionsHaveMax ==
  ASSUME NEW n \in Nat, NEW S, S \subseteq 1..n, S # {}
  PROVE  Max(S) \in S /\ \A y \in S : y <= Max(S)
<1> DEFINE Has(X) == \E x \in X : \A y \in X : x >= y
           G == {k \in Nat : \A X \in SUBSET (1..k) : X # {} => Has(X)}
<1>1. 0 \in G
  BY 1..0 = {}
<1>2. \A k \in Nat : k \in G => k + 1 \in G
  <2> SUFFICES ASSUME NEW k \in Nat, k \in G, NEW X \in SUBSET (1..(k + 1)), X # {}
               PROVE  Has(X)
    <3> HIDE DEF Has
    <3> QED OBVIOUS
  <2>1. CASE k + 1 \in X
    BY <2>1
  <2>2. CASE k + 1 \notin X
    <3>1. X \in SUBSET (1..k)
      BY <2>2
    <3> QED BY <3>1
  <2> QED BY <2>1, <2>2
<1>3. n \in G
  <2> HIDE DEF G
  <2> QED BY <1>1, <1>2, NatSetInduction
<1> QED BY <1>3 DEF Max

LEMMA PositionsHaveMin ==
  ASSUME NEW n \in Nat, NEW S, S \subseteq 1..n, S # {}
  PROVE  Min(S) \in S /\ \A y \in S : Min(S) <= y
<1> DEFINE Has(X) == \E x \in X : \A y \in X : x <= y
           G == {k \in Nat : \A X \in SUBSET (1..k) : X # {} => Has(X)}
<1>1. 0 \in G
  BY 1..0 = {}
<1>2. \A k \in Nat : k \in G => k + 1 \in G
  <2> SUFFICES ASSUME NEW k \in Nat, k \in G, NEW X \in SUBSET (1..(k + 1)), X # {}
               PROVE  Has(X)
    <3> HIDE DEF Has
    <3> QED OBVIOUS
  <2>1. CASE X \cap 1..k = {}
    <3>1. \A x \in X : x = k + 1
      BY <2>1
    <3> QED BY <3>1
  <2>2. CASE X \cap 1..k # {}
    <3>1. PICK x \in X \cap 1..k : \A y \in X \cap 1..k : x <= y
      BY <2>2
    <3> QED BY <3>1
  <2> QED BY <2>1, <2>2
<1>3. n \in G
  <2> HIDE DEF G
  <2> QED BY <1>1, <1>2, NatSetInduction
<1> QED BY <1>3 DEF Min
-----------------------------------------------------------------------------
(***************************************************************************)
(* Ascending                                                               *)
(***************************************************************************)
UpTo(S, i) == Cardinality({j \in S : j <= i})

\* The rank of a position is a bijection between the set and 1..Cardinality.
LEMMA RankProperties ==
  ASSUME NEW n \in Nat, NEW S, S \subseteq 1..n
  PROVE  /\ IsFiniteSet(S) /\ Cardinality(S) \in Nat
         /\ \A i \in S : UpTo(S, i) \in 1..Cardinality(S)
         /\ \A i, j \in S : i < j => UpTo(S, i) < UpTo(S, j)
         /\ \A k \in 1..Cardinality(S) : \E i \in S : UpTo(S, i) = k
<1>1. IsFiniteSet(S) /\ Cardinality(S) \in Nat
  <2>1. IsFiniteSet(1..n)
    BY FS_Interval
  <2>2. IsFiniteSet(S)
    BY <2>1, FS_Subset
  <2> QED BY <2>2, FS_CardinalityType
<1>2. \A i \in S : IsFiniteSet({j \in S : j <= i}) /\ UpTo(S, i) \in 1..Cardinality(S)
  <2> TAKE i \in S
  <2> DEFINE U == {j \in S : j <= i}
  <2>1. U \in SUBSET S /\ i \in U
    OBVIOUS
  <2>2. IsFiniteSet(U) /\ Cardinality(U) <= Cardinality(S) /\ Cardinality(U) \in Nat
    BY <1>1, <2>1, FS_Subset, FS_CardinalityType
  <2>3. Cardinality(U) # 0
    BY <2>1, <2>2, FS_EmptySet
  <2> QED BY <1>1, <2>2, <2>3 DEF UpTo
<1>3. \A i, j \in S : i < j => UpTo(S, i) < UpTo(S, j)
  <2> SUFFICES ASSUME NEW i \in S, NEW j \in S, i < j PROVE UpTo(S, i) < UpTo(S, j)
    OBVIOUS
  <2> DEFINE U == {x \in S : x <= i}
             V == {x \in S : x <= j}
  <2>0. \A x \in S : x \in Int
    OBVIOUS
  <2>1. U \in SUBSET V /\ j \in V /\ j \notin U
    <3>1. \A x \in S : x <= i => x <= j
      BY <2>0
    <3>2. j \in V /\ j \notin U
      BY <2>0
    <3> QED BY <3>1, <3>2
  <2>2. IsFiniteSet(V)
    BY <1>2
  <2>3. Cardinality(U) <= Cardinality(V) /\ Cardinality(U) # Cardinality(V)
    <3> HIDE DEF U, V
    <3> QED BY <2>1, <2>2, FS_Subset
  <2>4. Cardinality(U) \in Nat /\ Cardinality(V) \in Nat
    BY <1>1, <1>2 DEF UpTo
  <2> QED BY <2>3, <2>4 DEF UpTo
<1>4. \A k \in 1..Cardinality(S) : \E i \in S : UpTo(S, i) = k
  <2> DEFINE r == [i \in S |-> UpTo(S, i)]
             C == 1..Cardinality(S)
  <2>1. r \in [S -> C]
    BY <1>2
  <2>2. r \in Injection(S, C)
    <3>1. \A i, j \in S : r[i] = r[j] => i = j
      <4> SUFFICES ASSUME NEW i \in S, NEW j \in S, i # j PROVE r[i] # r[j]
        OBVIOUS
      <4>1. i < j \/ j < i
        OBVIOUS
      <4>2. r[i] \in C /\ r[j] \in C
        BY <2>1
      <4> QED BY <4>1, <4>2, <1>1, <1>3
    <3> QED BY <2>1, <3>1 DEF Injection, IsInjective
  <2>3. IsFiniteSet(C) /\ Cardinality(C) = Cardinality(S)
    BY <1>1, FS_Interval
  <2>4. r \in Surjection(S, C)
    <3> HIDE DEF r, C
    <3> QED BY <2>2, <2>3, FS_Injection
  <2>5. \A k \in C : \E i \in S : r[i] = k
    <3> HIDE DEF r, C
    <3> QED BY <2>4 DEF Surjection
  <2> QED BY <2>5
<1> QED BY <1>1, <1>2, <1>3, <1>4

\* Ascending lists a set of positions by rank: every member once, the smaller
\* before the greater.
LEMMA AscendingProperties ==
  ASSUME NEW n \in Nat, NEW S, S \subseteq 1..n
  PROVE  /\ Cardinality(S) \in Nat
         /\ Ascending(S) \in [1..Cardinality(S) -> S]
         /\ \A i \in S : /\ UpTo(S, i) \in 1..Cardinality(S)
                         /\ Ascending(S)[UpTo(S, i)] = i
         /\ \A k \in 1..Cardinality(S) : UpTo(S, Ascending(S)[k]) = k
         /\ \A k, l \in 1..Cardinality(S) : k < l => Ascending(S)[k] < Ascending(S)[l]
<1> DEFINE c == Cardinality(S)
           A == Ascending(S)
<1>1. c \in Nat /\ \A i \in S : UpTo(S, i) \in 1..c
  BY RankProperties
<1>2. \A i, j \in S : i < j => UpTo(S, i) < UpTo(S, j)
  BY RankProperties
<1>3. \A k \in 1..c : \E i \in S : UpTo(S, i) = k
  BY RankProperties
<1>4. A = [k \in 1..c |-> CHOOSE i \in S : UpTo(S, i) = k]
  BY DEF Ascending, UpTo
<1>5. \A k \in 1..c : A[k] \in S /\ UpTo(S, A[k]) = k
  <2> HIDE DEF A, c
  <2> QED BY <1>3, <1>4
<1>6. \A i, j \in S : UpTo(S, i) = UpTo(S, j) => i = j
  <2> SUFFICES ASSUME NEW i \in S, NEW j \in S, i # j PROVE UpTo(S, i) # UpTo(S, j)
    OBVIOUS
  <2>1. i < j \/ j < i
    OBVIOUS
  <2>2. UpTo(S, i) \in Nat /\ UpTo(S, j) \in Nat
    BY <1>1
  <2> QED BY <2>1, <2>2, <1>2
<1>7. A \in [1..c -> S]
  <2> HIDE DEF A, c
  <2> QED BY <1>4, <1>5
<1>8. \A i \in S : UpTo(S, i) \in 1..c /\ A[UpTo(S, i)] = i
  <2> HIDE DEF A, c
  <2> QED BY <1>1, <1>5, <1>6
<1>9. \A k, l \in 1..c : k < l => A[k] < A[l]
  <2> SUFFICES ASSUME NEW k \in 1..c, NEW l \in 1..c, k < l PROVE A[k] < A[l]
    OBVIOUS
  <2> HIDE DEF A, c
  <2>0. \A i \in S : i \in Int
    OBVIOUS
  <2>1. A[k] \in S /\ A[l] \in S /\ A[k] \in Int /\ A[l] \in Int
    BY <1>5, <2>0
  <2>2. A[k] = A[l] => k = l
    BY <1>5
  <2>3. A[l] < A[k] => l < k
    BY <1>2, <1>5, <2>1
  <2> QED BY <1>1, <2>1, <2>2, <2>3
<1> QED BY <1>1, <1>5, <1>7, <1>8, <1>9

\* Any listing of a set that increases is Ascending's.
LEMMA AscendingUnique ==
  ASSUME NEW n \in Nat, NEW S, S \subseteq 1..n,
         NEW c \in Nat, NEW f \in [1..c -> S],
         \A k, l \in 1..c : k < l => f[k] < f[l],
         \A i \in S : \E k \in 1..c : f[k] = i
  PROVE  Cardinality(S) = c /\ Ascending(S) = f
<1>0. \A k \in 1..c : f[k] \in S /\ f[k] \in Int
  <2>1. \A i \in S : i \in Int
    OBVIOUS
  <2> QED BY <2>1
<1>1. \A k, l \in 1..c : f[k] = f[l] => k = l
  <2> SUFFICES ASSUME NEW k \in 1..c, NEW l \in 1..c, k # l PROVE f[k] # f[l]
    OBVIOUS
  <2>1. k < l \/ l < k
    OBVIOUS
  <2> QED BY <2>1, <1>0
<1>2. \A k \in 1..c : UpTo(S, f[k]) = k
  <2> TAKE k \in 1..c
  <2> DEFINE U == {j \in S : j <= f[k]}
             g == [m \in 1..k |-> f[m]]
  <2>1. g \in [1..k -> U]
    <3> SUFFICES ASSUME NEW m \in 1..k PROVE f[m] \in S /\ f[m] <= f[k]
      OBVIOUS
    <3>1. m \in 1..c /\ (m < k \/ m = k)
      OBVIOUS
    <3> QED BY <3>1, <1>0
  <2>2. \A a, b \in 1..k : g[a] = g[b] => a = b
    BY <1>1
  <2>3. \A u \in U : \E m \in 1..k : g[m] = u
    <3> TAKE u \in U
    <3>1. PICK m \in 1..c : f[m] = u
      OBVIOUS
    <3>2. ~(k < m)
      BY <1>0, <3>1
    <3> QED BY <3>1, <3>2
  <2>4. ExistsBijection(1..k, U)
    <3> HIDE DEF g, U
    <3>1. g \in Injection(1..k, U)
      BY <2>1, <2>2 DEF Injection, IsInjective
    <3>2. g \in Surjection(1..k, U)
      BY <2>1, <2>3 DEF Surjection
    <3> QED BY <3>1, <3>2 DEF ExistsBijection, Bijection
  <2> QED BY <2>4, FS_CountingElements DEF UpTo
<1>3. Cardinality(S) = c
  <2>1. f \in Injection(1..c, S)
    BY <1>1 DEF Injection, IsInjective
  <2>2. f \in Surjection(1..c, S)
    BY DEF Surjection
  <2>3. ExistsBijection(1..c, S)
    BY <2>1, <2>2 DEF ExistsBijection, Bijection
  <2> QED BY <2>3, FS_CountingElements
<1>4. \A k \in 1..c : Ascending(S)[k] = f[k]
  <2>1. \A i \in S : Ascending(S)[UpTo(S, i)] = i
    BY AscendingProperties
  <2> QED BY <1>0, <1>2, <2>1
<1>5. Ascending(S) \in [1..Cardinality(S) -> S]
  BY AscendingProperties
<1> QED BY <1>3, <1>4, <1>5
-----------------------------------------------------------------------------
(***************************************************************************)
(* CollapseNoops                                                           *)
(***************************************************************************)

\* The recursion of Merging has a solution, so that Merging satisfies it.
LEMMA MergingDef ==
  ASSUME NEW rows, Len(rows) \in Nat
  PROVE  Merging(rows) = [n \in 0..Len(rows) |->
                            IF n = 0 THEN <<>> ELSE Merge(Merging(rows)[n - 1], rows[n])]
<1> DEFINE Solves(f, n) ==
             f = [i \in 0..n |-> IF i = 0 THEN <<>> ELSE Merge(f[i - 1], rows[i])]
           G == {n \in Nat : \E f : Solves(f, n)}
<1>1. 0 \in G
  <2>1. Solves([i \in 0..0 |-> <<>>], 0)
    OBVIOUS
  <2> HIDE DEF Solves
  <2> QED BY <2>1
<1>2. \A n \in Nat : n \in G => n + 1 \in G
  <2> SUFFICES ASSUME NEW n \in Nat, NEW f, Solves(f, n)
               PROVE  \E g : Solves(g, n + 1)
    <3> HIDE DEF Solves
    <3> QED OBVIOUS
  <2> DEFINE g == [i \in 0..(n + 1) |-> IF i \in 0..n THEN f[i] ELSE Merge(f[n], rows[n + 1])]
  <2>1. \A i \in 0..(n + 1) :
          g[i] = IF i = 0 THEN <<>> ELSE Merge(g[i - 1], rows[i])
    <3> TAKE i \in 0..(n + 1)
    <3>1. CASE i = 0
      BY <3>1
    <3>2. CASE i \in 1..n
      <4>1. g[i] = f[i] /\ g[i - 1] = f[i - 1]
        BY <3>2
      <4>2. f[i] = Merge(f[i - 1], rows[i])
        BY <3>2
      <4> QED BY <3>2, <4>1, <4>2
    <3>3. CASE i = n + 1
      <4>1. g[i] = Merge(f[n], rows[n + 1]) /\ g[i - 1] = f[n]
        BY <3>3
      <4> QED BY <3>3, <4>1
    <3> QED BY <3>1, <3>2, <3>3
  <2>2. DOMAIN g = 0..(n + 1) /\ g = [i \in 0..(n + 1) |-> g[i]]
    OBVIOUS
  <2>3. Solves(g, n + 1)
    <3> HIDE DEF g
    <3> QED BY <2>1, <2>2
  <2> HIDE DEF Solves, g
  <2> QED BY <2>3
<1>3. Len(rows) \in G
  <2> HIDE DEF G
  <2> QED BY <1>1, <1>2, NatSetInduction
<1>4. \E f : Solves(f, Len(rows))
  <2> HIDE DEF Solves
  <2> QED BY <1>3
<1>5. Merging(rows) = CHOOSE f : Solves(f, Len(rows))
  BY DEF Merging
<1>6. Solves(Merging(rows), Len(rows))
  <2> HIDE DEF Solves
  <2> QED BY <1>4, <1>5
<1> QED BY <1>6

\* What a report's rows are made of, for wasms W.
RowsOf(W) == [wasm : W, from : Nat, until : Nat, current : BOOLEAN]

LEMMA RowFields ==
  ASSUME NEW w, NEW f, NEW u, NEW b
  PROVE  /\ Row(w, f, u, b).wasm = w /\ Row(w, f, u, b).from = f
         /\ Row(w, f, u, b).until = u /\ Row(w, f, u, b).current = b
BY DEF Row

\* d is list c with its last row extended by a row that continues it.
Extends(d, c, row) ==
  /\ Len(d) = Len(c)
  /\ \A k \in 1..(Len(c) - 1) : d[k] = c[k]
  /\ d[Len(c)] = Row(c[Len(c)].wasm, c[Len(c)].from, row.until,
                     (c[Len(c)].current \/ row.current))

\* Merge extends the last row of a list,
LEMMA MergeExtends ==
  ASSUME NEW W, NEW c \in Seq(RowsOf(W)), NEW row \in RowsOf(W),
         c # <<>>, c[Len(c)].wasm = row.wasm
  PROVE  Merge(c, row) \in Seq(RowsOf(W)) /\ Extends(Merge(c, row), c, row)
<1> DEFINE l == Len(c)
           d == Merge(c, row)
           merged == Row(c[l].wasm, c[l].from, row.until, c[l].current \/ row.current)
<1>1. l \in Nat \ {0} /\ l \in 1..l /\ c[l] \in RowsOf(W)
  OBVIOUS
<1>2. merged \in RowsOf(W)
  BY <1>1 DEF RowsOf, Row
<1>3. d = [c EXCEPT ![l] = merged]
  BY DEF Merge, Last
<1> HIDE DEF merged, d
<1>4. d \in Seq(RowsOf(W)) /\ Len(d) = l /\ d[l] = merged
      /\ \A k \in 1..(l - 1) : d[k] = c[k]
  BY <1>1, <1>2, <1>3
<1> QED BY <1>1, <1>4 DEF d, merged, Extends

\* or puts the row behind it.
LEMMA MergeAppends ==
  ASSUME NEW W, NEW c \in Seq(RowsOf(W)), NEW row \in RowsOf(W),
         c = <<>> \/ c[Len(c)].wasm # row.wasm
  PROVE  /\ Merge(c, row) \in Seq(RowsOf(W))
         /\ Len(c) \in Nat
         /\ Len(Merge(c, row)) = Len(c) + 1
         /\ \A k \in 1..Len(c) : Merge(c, row)[k] = c[k]
         /\ Merge(c, row)[Len(c) + 1] = row
<1>1. Merge(c, row) = Append(c, row)
  BY DEF Merge, Last
<1> QED BY <1>1

\* What is left of the first n rows: c is a list of rows whose wasms are those
\* of some of the n, in their order, and whose current ones have the wasms of
\* the current ones of the n.
Condenses(c, rows, n, W) ==
  /\ c \in Seq(RowsOf(W))
  /\ n > 0 => c # <<>>
  /\ \E g \in [1..Len(c) -> 1..n] :
       /\ \A k \in 1..Len(c) : c[k].wasm = rows[g[k]].wasm
       /\ \A k, l \in 1..Len(c) : k < l => g[k] < g[l]
  /\ \A k \in 1..Len(c) : c[k].current =>
       \E r \in 1..n : rows[r].current /\ rows[r].wasm = c[k].wasm
  /\ \A r \in 1..n : rows[r].current =>
       \E k \in 1..Len(c) : c[k].current /\ rows[r].wasm = c[k].wasm

LEMMA MergeCondenses ==
  ASSUME NEW W, NEW rows \in Seq(RowsOf(W)), NEW n \in 0..(Len(rows) - 1),
         NEW c, Condenses(c, rows, n, W)
  PROVE  Condenses(Merge(c, rows[n + 1]), rows, n + 1, W)
<1> DEFINE row == rows[n + 1]
           d == Merge(c, row)
           l == Len(c)
<1>1. c \in Seq(RowsOf(W)) /\ l \in Nat /\ row \in RowsOf(W) /\ n \in Nat
      /\ n + 1 \in 1..(n + 1)
  BY DEF Condenses
<1>2. d \in Seq(RowsOf(W)) /\ Len(d) \in Nat \ {0}
  <2> HIDE DEF row
  <2>1. CASE c # <<>> /\ c[l].wasm = row.wasm
    <3>1. d \in Seq(RowsOf(W)) /\ Extends(d, c, row)
      BY <1>1, <2>1, MergeExtends
    <3>2. l # 0
      BY <2>1
    <3> HIDE DEF d
    <3> QED BY <1>1, <3>1, <3>2 DEF Extends
  <2>2. CASE c = <<>> \/ c[l].wasm # row.wasm
    BY <1>1, <2>2, MergeAppends
  <2> QED BY <2>1, <2>2
<1>3. PICK g \in [1..l -> 1..n] :
        /\ \A k \in 1..l : c[k].wasm = rows[g[k]].wasm
        /\ \A i, j \in 1..l : i < j => g[i] < g[j]
  BY DEF Condenses
<1>4. \A k \in 1..l : c[k].current =>
        \E r \in 1..n : rows[r].current /\ rows[r].wasm = c[k].wasm
  BY DEF Condenses
<1>5. \A r \in 1..n : rows[r].current =>
        \E k \in 1..l : c[k].current /\ rows[r].wasm = c[k].wasm
  BY DEF Condenses
<1>6. CASE c # <<>> /\ c[l].wasm = row.wasm
  <2>1. /\ Len(d) = l /\ l \in 1..l
        /\ \A k \in 1..(l - 1) : d[k] = c[k]
        /\ d[l] = Row(c[l].wasm, c[l].from, row.until, c[l].current \/ row.current)
    <3> HIDE DEF row
    <3>1. l \in 1..l
      BY <1>1, <1>6
    <3>2. Extends(d, c, row)
      BY <1>1, <1>6, MergeExtends
    <3> HIDE DEF d
    <3> QED BY <3>1, <3>2 DEF Extends
  <2>2. d[l].wasm = row.wasm /\ (d[l].current <=> c[l].current \/ row.current)
    <3>1. d[l].wasm = c[l].wasm
      BY <2>1, RowFields
    <3>2. d[l].current = (c[l].current \/ row.current)
      BY <2>1, RowFields
    <3> QED BY <1>6, <3>1, <3>2
  <2>3. \A k \in 1..l : /\ d[k].wasm = c[k].wasm
                        /\ d[k].current <=> c[k].current \/ (k = l /\ row.current)
    <3> TAKE k \in 1..l
    <3>1. CASE k = l
      BY <1>6, <2>2, <3>1
    <3>2. CASE k # l
      <4>1. k \in 1..(l - 1)
        BY <1>1, <3>2
      <4> QED BY <2>1, <3>2, <4>1
    <3> QED BY <3>1, <3>2
  <2>4. g \in [1..l -> 1..(n + 1)]
    BY <1>1
  <2>5. \A k \in 1..l : d[k].current =>
          \E r \in 1..(n + 1) : rows[r].current /\ rows[r].wasm = d[k].wasm
    <3> SUFFICES ASSUME NEW k \in 1..l, d[k].current
                 PROVE  \E r \in 1..(n + 1) : rows[r].current /\ rows[r].wasm = d[k].wasm
      OBVIOUS
    <3>1. CASE c[k].current
      BY <1>1, <1>4, <2>3, <3>1
    <3>2. CASE k = l /\ row.current
      BY <1>1, <2>2, <3>2
    <3> QED BY <2>3, <3>1, <3>2
  <2>6. \A r \in 1..(n + 1) : rows[r].current =>
          \E k \in 1..l : d[k].current /\ rows[r].wasm = d[k].wasm
    <3> SUFFICES ASSUME NEW r \in 1..(n + 1), rows[r].current
                 PROVE  \E k \in 1..l : d[k].current /\ rows[r].wasm = d[k].wasm
      OBVIOUS
    <3>1. CASE r = n + 1
      BY <2>1, <2>2, <3>1
    <3>2. CASE r \in 1..n
      BY <1>5, <2>3, <3>2
    <3> QED BY <1>1, <3>1, <3>2
  <2>7. \A k \in 1..l : d[k].wasm = rows[g[k]].wasm
    BY <1>3, <2>3
  <2>8. d # <<>>
    BY <1>2
  <2> HIDE DEF d, row, l
  <2>9. \E f \in [1..Len(d) -> 1..(n + 1)] :
          /\ \A k \in 1..Len(d) : d[k].wasm = rows[f[k]].wasm
          /\ \A i, j \in 1..Len(d) : i < j => f[i] < f[j]
    BY <1>3, <2>1, <2>4, <2>7
  <2> QED BY <1>2, <2>1, <2>5, <2>6, <2>8, <2>9 DEF Condenses, d, row
<1>7. CASE c = <<>> \/ c[l].wasm # row.wasm
  <2>1. /\ Len(d) = l + 1 /\ l + 1 \in 1..(l + 1)
        /\ \A k \in 1..l : d[k] = c[k]
        /\ d[l + 1] = row
    <3> HIDE DEF row
    <3>1. l + 1 \in 1..(l + 1)
      BY <1>1
    <3> QED BY <1>1, <1>7, <3>1, MergeAppends
  <2> DEFINE h == [k \in 1..(l + 1) |-> IF k = l + 1 THEN n + 1 ELSE g[k]]
  <2>2. h \in [1..(l + 1) -> 1..(n + 1)]
    BY <1>1
  <2>3. \A k \in 1..(l + 1) : d[k].wasm = rows[h[k]].wasm
    BY <1>1, <1>3, <2>1
  <2>4. \A i, j \in 1..(l + 1) : i < j => h[i] < h[j]
    <3> SUFFICES ASSUME NEW i \in 1..(l + 1), NEW j \in 1..(l + 1), i < j
                 PROVE  h[i] < h[j]
      OBVIOUS
    <3>1. i \in 1..l /\ h[i] = g[i] /\ g[i] \in 1..n
      BY <1>1
    <3>2. CASE j = l + 1
      BY <1>1, <3>1, <3>2
    <3>3. CASE j # l + 1
      <4>1. j \in 1..l
        BY <1>1, <3>3
      <4> QED BY <1>3, <3>1, <3>3, <4>1
    <3> QED BY <3>2, <3>3
  <2>5. \A k \in 1..(l + 1) : d[k].current =>
          \E r \in 1..(n + 1) : rows[r].current /\ rows[r].wasm = d[k].wasm
    <3> SUFFICES ASSUME NEW k \in 1..(l + 1), d[k].current
                 PROVE  \E r \in 1..(n + 1) : rows[r].current /\ rows[r].wasm = d[k].wasm
      OBVIOUS
    <3>1. CASE k = l + 1
      BY <1>1, <2>1, <3>1
    <3>2. CASE k # l + 1
      <4>1. k \in 1..l
        BY <1>1, <3>2
      <4> QED BY <1>1, <1>4, <2>1, <4>1
    <3> QED BY <3>1, <3>2
  <2>6. \A r \in 1..(n + 1) : rows[r].current =>
          \E k \in 1..(l + 1) : d[k].current /\ rows[r].wasm = d[k].wasm
    <3> SUFFICES ASSUME NEW r \in 1..(n + 1), rows[r].current
                 PROVE  \E k \in 1..(l + 1) : d[k].current /\ rows[r].wasm = d[k].wasm
      OBVIOUS
    <3>1. CASE r = n + 1
      BY <2>1, <3>1
    <3>2. CASE r \in 1..n
      <4>1. PICK k \in 1..l : c[k].current /\ rows[r].wasm = c[k].wasm
        BY <1>5, <3>2
      <4>2. k \in 1..(l + 1) /\ d[k] = c[k]
        BY <1>1, <2>1
      <4> QED BY <4>1, <4>2
    <3> QED BY <1>1, <3>1, <3>2
  <2>7. d # <<>>
    BY <1>1, <2>1
  <2> HIDE DEF d, row, l, h
  <2>8. \E f \in [1..Len(d) -> 1..(n + 1)] :
          /\ \A k \in 1..Len(d) : d[k].wasm = rows[f[k]].wasm
          /\ \A i, j \in 1..Len(d) : i < j => f[i] < f[j]
    BY <2>1, <2>2, <2>3, <2>4
  <2> QED BY <1>2, <2>1, <2>5, <2>6, <2>7, <2>8 DEF Condenses, d, row
<1> QED BY <1>6, <1>7

LEMMA MergingCondenses ==
  ASSUME NEW W, NEW rows \in Seq(RowsOf(W))
  PROVE  \A n \in 0..Len(rows) : Condenses(Merging(rows)[n], rows, n, W)
<1> DEFINE L == Len(rows)
           m == Merging(rows)
           G == {n \in Nat : n <= L => Condenses(m[n], rows, n, W)}
<1>1. L \in Nat
  OBVIOUS
<1>2. m = [n \in 0..L |-> IF n = 0 THEN <<>> ELSE Merge(m[n - 1], rows[n])]
  BY <1>1, MergingDef
<1> HIDE DEF m, L
<1>3. 0 \in G
  <2>1. m[0] = <<>>
    BY <1>1, <1>2
  <2>2. 1..0 = {} /\ Len(<<>>) = 0
    OBVIOUS
  <2>3. \E g \in [1..Len(<<>>) -> 1..0] : \A k, l \in 1..Len(<<>>) : k < l => g[k] < g[l]
    <3>1. [k \in {} |-> 0] \in [{} -> {}]
      OBVIOUS
    <3> QED BY <2>2, <3>1
  <2>4. <<>> \in Seq(RowsOf(W))
    OBVIOUS
  <2>5. Condenses(<<>>, rows, 0, W)
    <3>1. \E g \in [1..Len(<<>>) -> 1..0] :
            /\ \A k \in 1..Len(<<>>) : <<>>[k].wasm = rows[g[k]].wasm
            /\ \A k, l \in 1..Len(<<>>) : k < l => g[k] < g[l]
      BY <2>2, <2>3
    <3>2. \A k \in 1..Len(<<>>) : FALSE
      BY <2>2
    <3>3. \A r \in 1..0 : FALSE
      BY <2>2
    <3>4. ~(0 > 0)
      OBVIOUS
    <3> QED BY <2>4, <3>1, <3>2, <3>3, <3>4 DEF Condenses
  <2> QED BY <2>1, <2>5
<1>4. \A n \in Nat : n \in G => n + 1 \in G
  <2> SUFFICES ASSUME NEW n \in Nat, n + 1 <= L, Condenses(m[n], rows, n, W)
               PROVE  Condenses(m[n + 1], rows, n + 1, W)
    BY <1>1
  <2>1. m[n + 1] = Merge(m[n], rows[n + 1])
    BY <1>1, <1>2
  <2>2. n \in 0..(Len(rows) - 1)
    BY <1>1 DEF L
  <2> QED BY <2>1, <2>2, MergeCondenses
<1>5. Nat \subseteq G
  <2> HIDE DEF G
  <2> QED BY <1>3, <1>4, NatSetInduction
<1> QED BY <1>1, <1>5 DEF m, L

\* collapse_noops drops rows and reorders none, and the wasm it shows as
\* current is the one that was (audit.rs:476-489).
THEOREM CollapseCondenses ==
  ASSUME NEW W, NEW rows \in Seq(RowsOf(W))
  PROVE  Condenses(CollapseNoops(rows), rows, Len(rows), W)
<1>1. Len(rows) \in 0..Len(rows)
  BY LenProperties
<1> QED BY <1>1, MergingCondenses DEF CollapseNoops
-----------------------------------------------------------------------------
(***************************************************************************)
(* Rows and Versions                                                       *)
(***************************************************************************)

\* An event between wasms of W.
EventOf(e, W) == e.ledger \in Nat /\ e.old \in W /\ e.new \in W

LEMMA RowInRowsOf ==
  ASSUME NEW W, NEW w \in W, NEW f \in Nat, NEW u \in Nat, NEW b \in BOOLEAN
  PROVE  Row(w, f, u, b) \in RowsOf(W)
BY DEF Row, RowsOf

LEMMA RowsOfNoEvents ==
  ASSUME NEW W, NEW cur \in W
  PROVE  /\ Rows(<<>>, cur) = <<Row(cur, 0, 0, TRUE)>>
         /\ Rows(<<>>, cur) \in Seq(RowsOf(W))
<1>1. Rows(<<>>, cur) = <<Row(cur, 0, 0, TRUE)>>
  BY DEF Rows
<1> DEFINE r == Row(cur, 0, 0, TRUE)
<1>2. r \in RowsOf(W)
  BY RowInRowsOf
<1> HIDE DEF r
<1>3. <<r>> \in Seq(RowsOf(W))
  BY <1>2
<1> QED BY <1>1, <1>3 DEF r

\* The rows of n events: one for what was there before them, one for each of
\* them, and one for a deployed wasm that the last one did not deploy.
RowPerEvent(rows, events, cur, W) ==
  LET n == Len(events)
  IN  /\ rows \in Seq(RowsOf(W))
      /\ Len(rows) = n + (IF events[n].new = cur THEN 1 ELSE 2)
      /\ rows[1] = Row(events[1].old, 0, events[1].ledger, FALSE)
      /\ \A i \in 1..n : /\ rows[i + 1].wasm = events[i].new
                        /\ rows[i + 1].from = events[i].ledger
                        /\ rows[i + 1].until = (IF i = n THEN 0 ELSE events[i + 1].ledger)
                        /\ (rows[i + 1].current <=> (i = n /\ events[i].new = cur))
      /\ events[n].new # cur => rows[n + 2] = Row(cur, 0, 0, TRUE)

LEMMA RowsOfEvents ==
  ASSUME NEW W, NEW cur \in W, NEW E, NEW events \in Seq(E), events # <<>>,
         \A e \in E : EventOf(e, W)
  PROVE  RowPerEvent(Rows(events, cur), events, cur, W)
<1> DEFINE n == Len(events)
           until(i) == IF i = n THEN 0 ELSE events[i + 1].ledger
           up(i) == Row(events[i].new, events[i].ledger, until(i),
                        i = n /\ events[i].new = cur)
           upgraded == [i \in 1..n |-> up(i)]
           before == Row(events[1].old, 0, events[1].ledger, FALSE)
           unseen == IF events[n].new = cur THEN <<>> ELSE <<Row(cur, 0, 0, TRUE)>>
           rows == Rows(events, cur)
<1>1. n \in Nat \ {0} /\ \A i \in 1..n : EventOf(events[i], W)
  OBVIOUS
<1>2. rows = <<before>> \o upgraded \o unseen
  BY DEF Rows, Last
<1>3. before \in RowsOf(W)
  <2>1. events[1].old \in W /\ events[1].ledger \in Nat
    BY <1>1 DEF EventOf
  <2> QED BY <2>1, RowInRowsOf
<1>4. Row(cur, 0, 0, TRUE) \in RowsOf(W)
  BY RowInRowsOf
<1>5. upgraded \in Seq(RowsOf(W)) /\ Len(upgraded) = n
  <2>1. \A i \in 1..n : up(i) \in RowsOf(W)
    <3> TAKE i \in 1..n
    <3>1. until(i) \in Nat
      BY <1>1 DEF EventOf
    <3>2. events[i].new \in W /\ events[i].ledger \in Nat
      BY <1>1 DEF EventOf
    <3>3. (i = n /\ events[i].new = cur) \in BOOLEAN
      OBVIOUS
    <3> HIDE DEF until, n
    <3> QED BY <3>1, <3>2, <3>3, RowInRowsOf
  <2> HIDE DEF up
  <2> QED BY <1>1, <2>1
<1>6. unseen \in Seq(RowsOf(W)) /\ Len(unseen) = (IF events[n].new = cur THEN 0 ELSE 1)
      /\ (events[n].new # cur => unseen[1] = Row(cur, 0, 0, TRUE))
  <2> DEFINE r == Row(cur, 0, 0, TRUE)
  <2> HIDE DEF r
  <2>1. r \in RowsOf(W)
    BY <1>4 DEF r
  <2>2. <<r>> \in Seq(RowsOf(W)) /\ Len(<<r>>) = 1 /\ <<r>>[1] = r
    BY <2>1
  <2>3. <<>> \in Seq(RowsOf(W)) /\ Len(<<>>) = 0
    OBVIOUS
  <2>4. unseen = IF events[n].new = cur THEN <<>> ELSE <<r>>
    BY DEF r
  <2> DEFINE same == events[n].new = cur
  <2> HIDE DEF n, unseen
  <2>5. CASE same
    BY <2>3, <2>4, <2>5
  <2>6. CASE ~same
    BY <2>2, <2>4, <2>6 DEF r
  <2> QED BY <2>5, <2>6
<1>7. \A i \in 1..n : upgraded[i] = up(i)
  OBVIOUS
<1> HIDE DEF upgraded, before, unseen
<1>8. /\ rows \in Seq(RowsOf(W)) /\ Len(rows) = 1 + n + Len(unseen)
      /\ rows[1] = before
      /\ \A i \in 1..n : rows[i + 1] = upgraded[i]
      /\ Len(unseen) = 1 => rows[n + 2] = unseen[1]
  <2>1. <<before>> \o upgraded \in Seq(RowsOf(W)) /\ Len(<<before>> \o upgraded) = 1 + n
    BY <1>1, <1>3, <1>5
  <2>2. /\ (<<before>> \o upgraded)[1] = before
        /\ \A i \in 1..n : (<<before>> \o upgraded)[i + 1] = upgraded[i]
    BY <1>1, <1>3, <1>5
  <2> DEFINE front == <<before>> \o upgraded
  <2>3. rows = front \o unseen
    BY <1>2
  <2>4. unseen \in Seq(RowsOf(W)) /\ Len(unseen) \in Nat
    BY <1>6
  <2>5. n \in Nat
    BY <1>1
  <2> HIDE DEF front, n, rows
  <2>6. front \in Seq(RowsOf(W)) /\ Len(front) = 1 + n
    BY <2>1 DEF front
  <2>7. rows \in Seq(RowsOf(W)) /\ Len(rows) = 1 + n + Len(unseen)
    BY <2>3, <2>4, <2>6, ConcatProperties
  <2>8. \A i \in 1..Len(rows) :
          rows[i] = IF i <= Len(front) THEN front[i] ELSE unseen[i - Len(front)]
    BY <2>3, <2>4, <2>5, <2>6, <2>7, ConcatProperties
  <2>9. Len(unseen) = 1 => rows[n + 2] = unseen[1]
    BY <2>4, <2>5, <2>6, <2>7, <2>8
  <2>10. front[1] = before /\ \A i \in 1..n : front[i + 1] = upgraded[i]
    BY <2>2 DEF front
  <2>11. rows[1] = front[1] /\ \A i \in 1..n : rows[i + 1] = front[i + 1]
    BY <2>4, <2>5, <2>6, <2>7, <2>8
  <2> QED BY <2>7, <2>9, <2>10, <2>11
<1>9. Len(rows) = n + (IF events[n].new = cur THEN 1 ELSE 2)
  BY <1>1, <1>6, <1>8
<1>10. events[n].new # cur => rows[n + 2] = Row(cur, 0, 0, TRUE)
  BY <1>6, <1>8
<1>11. ASSUME NEW i \in 1..n
       PROVE  /\ rows[i + 1].wasm = events[i].new
              /\ rows[i + 1].from = events[i].ledger
              /\ rows[i + 1].until = until(i)
              /\ (rows[i + 1].current <=> (i = n /\ events[i].new = cur))
  <2> DEFINE b == (i = n /\ events[i].new = cur)
  <2>1. rows[i + 1] = Row(events[i].new, events[i].ledger, until(i), b)
    BY <1>7, <1>8
  <2> HIDE DEF b, n, rows, until
  <2>2. rows[i + 1].wasm = events[i].new /\ rows[i + 1].from = events[i].ledger
        /\ rows[i + 1].until = until(i) /\ rows[i + 1].current = b
    BY <2>1, RowFields
  <2> QED BY <2>2 DEF b
<1> QED BY <1>8, <1>9, <1>10, <1>11 DEF before, RowPerEvent

\* The rows of any events: the current ones are of the deployed wasm, and there
\* is one.
LEMMA RowsNameCurrent ==
  ASSUME NEW W, NEW cur \in W, NEW E, NEW events \in Seq(E),
         \A e \in E : EventOf(e, W)
  PROVE  /\ Rows(events, cur) \in Seq(RowsOf(W))
         /\ \A r \in 1..Len(Rows(events, cur)) :
              Rows(events, cur)[r].current => Rows(events, cur)[r].wasm = cur
         /\ \E r \in 1..Len(Rows(events, cur)) :
              Rows(events, cur)[r].current /\ Rows(events, cur)[r].wasm = cur
<1> DEFINE rows == Rows(events, cur)
           n == Len(events)
           own == Row(cur, 0, 0, TRUE)
<1>1. own.current = TRUE /\ own.wasm = cur
  BY DEF Row
<1> HIDE DEF own
<1>2. CASE events = <<>>
  <2>1. rows = <<own>> /\ rows \in Seq(RowsOf(W))
    BY <1>2, RowsOfNoEvents DEF own
  <2> HIDE DEF rows
  <2>2. Len(rows) = 1 /\ rows[1] = own
    BY <2>1
  <2> QED BY <1>1, <2>1, <2>2 DEF rows
<1>3. CASE events # <<>>
  <2> DEFINE same == events[n].new = cur
  <2>1. RowPerEvent(rows, events, cur, W)
    BY <1>3, RowsOfEvents
  <2>2. n \in Nat \ {0}
    BY <1>3
  <2> HIDE DEF rows
  <2>3. /\ rows \in Seq(RowsOf(W)) /\ Len(rows) = n + (IF same THEN 1 ELSE 2)
        /\ rows[1] = Row(events[1].old, 0, events[1].ledger, FALSE)
        /\ \A i \in 1..n : /\ rows[i + 1].wasm = events[i].new
                          /\ (rows[i + 1].current <=> (i = n /\ same))
        /\ ~same => rows[n + 2] = own
    BY <2>1 DEF RowPerEvent, own
  <2>4. rows[1].current = FALSE
    BY <2>3 DEF Row
  <2>5. same => events[n].new = cur
    OBVIOUS
  <2> HIDE DEF n, same
  <2>6. ASSUME NEW r \in 1..Len(rows), rows[r].current PROVE rows[r].wasm = cur
    <3>1. r # 1
      BY <2>4, <2>6
    <3>2. CASE r \in 2..(n + 1)
      <4>1. r - 1 \in 1..n /\ r = (r - 1) + 1
        BY <2>2, <3>2
      <4>2. rows[r].wasm = events[r - 1].new /\ r - 1 = n /\ same
        BY <2>3, <2>6, <4>1
      <4> QED BY <2>5, <4>2
    <3>3. CASE r = n + 2 /\ ~same
      BY <1>1, <2>3, <3>3
    <3> QED BY <2>2, <2>3, <3>1, <3>2, <3>3
  <2>7. \E r \in 1..Len(rows) : rows[r].current /\ rows[r].wasm = cur
    <3>1. CASE same
      BY <2>2, <2>3, <2>5, <3>1
    <3>2. CASE ~same
      BY <1>1, <2>2, <2>3, <3>2
    <3> QED BY <3>1, <3>2
  <2> QED BY <2>3, <2>6, <2>7 DEF rows
<1> QED BY <1>2, <1>3

\* Whatever the events, and whatever of them is missing: the report says that
\* the deployed version is attested exactly when the deployed wasm is sealed
\* (audit.rs:429-441).
THEOREM CurrentIsDeployed ==
  ASSUME NEW W, NEW cur \in W, NEW E, NEW events \in Seq(E),
         \A e \in E : EventOf(e, W), NEW sealed
  PROVE  CurrentAttested(events, cur, sealed) <=> cur \in sealed
<1> DEFINE rows == Rows(events, cur)
           v == Versions(events, cur)
<1>1. /\ rows \in Seq(RowsOf(W))
      /\ \A r \in 1..Len(rows) : rows[r].current => rows[r].wasm = cur
      /\ \E r \in 1..Len(rows) : rows[r].current /\ rows[r].wasm = cur
  BY RowsNameCurrent
<1>2. Condenses(v, rows, Len(rows), W)
  <2> HIDE DEF rows
  <2>1. Condenses(CollapseNoops(rows), rows, Len(rows), W)
    BY <1>1, CollapseCondenses
  <2> QED BY <2>1 DEF Versions, rows
<1>3. CurrentAttested(events, cur, sealed) <=>
        \E k \in 1..Len(v) : v[k].current /\ v[k].wasm \in sealed
  BY DEF CurrentAttested
<1> HIDE DEF rows, v
<1>4. \A k \in 1..Len(v) : v[k].current => v[k].wasm = cur
  BY <1>1, <1>2 DEF Condenses
<1>5. \E k \in 1..Len(v) : v[k].current /\ v[k].wasm = cur
  <2>1. PICK r \in 1..Len(rows) : rows[r].current /\ rows[r].wasm = cur
    BY <1>1
  <2>2. \E k \in 1..Len(v) : v[k].current /\ rows[r].wasm = v[k].wasm
    BY <1>2, <2>1 DEF Condenses
  <2> QED BY <2>1, <2>2
<1> QED BY <1>3, <1>4, <1>5

\* The rows of a consistent chain: each event's, and the one before it.
RowsLinked(rows, events, W) ==
  LET n == Len(events)
  IN  /\ rows \in Seq(RowsOf(W)) /\ Len(rows) = n + 1
      /\ rows[1] = Row(events[1].old, 0, events[1].ledger, FALSE)
      /\ \A j \in 1..n : /\ rows[j].wasm = events[j].old
                        /\ rows[j].until = events[j].ledger
                        /\ rows[j].current = FALSE
                        /\ rows[j + 1].wasm = events[j].new
                        /\ rows[j + 1].from = events[j].ledger
      /\ rows[n + 1].until = 0 /\ rows[n + 1].current = TRUE

LEMMA RowsOfChain ==
  ASSUME NEW W, NEW cur \in W, NEW E, NEW events \in Seq(E), events # <<>>,
         \A e \in E : EventOf(e, W), ChainConsistent(events, cur)
  PROVE  RowsLinked(Rows(events, cur), events, W)
<1> DEFINE n == Len(events)
           rows == Rows(events, cur)
<1>1. n \in Nat \ {0}
  OBVIOUS
<1>2. events[n].new = cur /\ \A i \in 1..(n - 1) : events[i].new = events[i + 1].old
  BY DEF ChainConsistent, Last
<1>3. RowPerEvent(rows, events, cur, W)
  BY RowsOfEvents
<1> HIDE DEF rows
<1>4. rows \in Seq(RowsOf(W)) /\ Len(rows) = n + 1
  BY <1>2, <1>3 DEF RowPerEvent
<1>5. rows[1] = Row(events[1].old, 0, events[1].ledger, FALSE)
  BY <1>3 DEF RowPerEvent
<1>6. \A i \in 1..n : /\ rows[i + 1].wasm = events[i].new
                     /\ rows[i + 1].from = events[i].ledger
                     /\ rows[i + 1].until = (IF i = n THEN 0 ELSE events[i + 1].ledger)
                     /\ (rows[i + 1].current <=> (i = n /\ events[i].new = cur))
  BY <1>3 DEF RowPerEvent
<1>7. \A i \in 1..n : rows[i].current \in BOOLEAN /\ rows[i + 1].current \in BOOLEAN
  <2>1. \A i \in 1..(n + 1) : rows[i] \in RowsOf(W)
    BY <1>4
  <2> QED BY <1>1, <2>1 DEF RowsOf
<1>8. rows[n + 1].until = 0 /\ rows[n + 1].current = TRUE
  BY <1>1, <1>2, <1>6, <1>7
<1>9. rows[1].wasm = events[1].old /\ rows[1].until = events[1].ledger
      /\ rows[1].current = FALSE
  BY <1>5 DEF Row
<1> HIDE DEF n
<1>10. ASSUME NEW j \in 1..n
       PROVE  /\ rows[j].wasm = events[j].old
              /\ rows[j].until = events[j].ledger
              /\ rows[j].current = FALSE
  <2>1. CASE j = 1
    BY <1>9, <2>1
  <2>2. CASE j # 1
    <3>1. j - 1 \in 1..n /\ (j - 1) + 1 = j /\ j - 1 \in 1..(n - 1) /\ j - 1 # n
      BY <1>1, <2>2
    <3>2. /\ rows[j].wasm = events[j - 1].new
          /\ rows[j].until = events[j].ledger
          /\ ~rows[j].current
      BY <1>6, <3>1
    <3>3. rows[j].current \in BOOLEAN /\ events[j - 1].new = events[j].old
      BY <1>2, <1>7, <3>1
    <3> QED BY <3>2, <3>3
  <2> QED BY <2>1, <2>2
<1> QED BY <1>4, <1>5, <1>6, <1>8, <1>10 DEF n, rows, RowsLinked

\* The events that change the wasm; a row per change: its wasm, and since when.
Turns(events) == {i \in 1..Len(events) : events[i].old # events[i].new}
TurnWasm(events, cur, k) ==
  IF k = 1 THEN IF events = <<>> THEN cur ELSE events[1].old
           ELSE events[Ascending(Turns(events))[k - 1]].new
TurnFrom(events, k) == IF k = 1 THEN 0 ELSE events[Ascending(Turns(events))[k - 1]].ledger

\* What is left of the first j rows of a consistent chain: the rows between the
\* changes among the first j - 1 events, the last of them open.
OneRowPerTurn(c, events, cur, j, W) ==
  LET m == Cardinality({i \in Turns(events) : i <= j - 1})
      row == Rows(events, cur)[j]
  IN  /\ c \in Seq(RowsOf(W))
      /\ Len(c) = m + 1
      /\ c[m + 1] = Row(row.wasm, TurnFrom(events, m + 1), row.until, row.current)
      /\ row.wasm = TurnWasm(events, cur, m + 1)
      /\ \A k \in 1..m :
           c[k] = Row(TurnWasm(events, cur, k), TurnFrom(events, k),
                      events[Ascending(Turns(events))[k]].ledger, FALSE)

LEMMA MergeTurn ==
  ASSUME NEW W, NEW cur \in W, NEW E, NEW events \in Seq(E), events # <<>>,
         \A e \in E : EventOf(e, W), ChainConsistent(events, cur),
         NEW j \in 1..Len(events), NEW c, OneRowPerTurn(c, events, cur, j, W)
  PROVE  OneRowPerTurn(Merge(c, Rows(events, cur)[j + 1]), events, cur, j + 1, W)
<1> DEFINE n == Len(events)
           rows == Rows(events, cur)
           row == rows[j]
           next == rows[j + 1]
           D == Turns(events)
           turn == Ascending(D)
           U == {i \in D : i <= j - 1}
           V == {i \in D : i <= (j + 1) - 1}
           m == Cardinality(U)
           d == Merge(c, next)
<1>1. n \in Nat \ {0} /\ D \subseteq 1..n /\ j \in 1..n
  BY DEF Turns
<1>2. \A i \in 1..n : EventOf(events[i], W)
  OBVIOUS
<1>3. IsFiniteSet(U) /\ m \in Nat
  <2>1. U \subseteq 1..n
    BY <1>1
  <2> HIDE DEF U, n
  <2> QED BY <1>1, <2>1, RankProperties
<1>4. /\ rows \in Seq(RowsOf(W))
      /\ Len(rows) = n + 1
      /\ row.until = events[j].ledger /\ row.current = FALSE /\ row.wasm = events[j].old
      /\ next.wasm = events[j].new /\ next.from = events[j].ledger
  <2>1. RowsLinked(rows, events, W)
    BY RowsOfChain
  <2> HIDE DEF rows
  <2> QED BY <2>1 DEF RowsLinked
<1>5. /\ c \in Seq(RowsOf(W)) /\ Len(c) = m + 1 /\ c # <<>>
      /\ c[m + 1] = Row(row.wasm, TurnFrom(events, m + 1), row.until, row.current)
      /\ row.wasm = TurnWasm(events, cur, m + 1)
      /\ \A k \in 1..m : c[k] = Row(TurnWasm(events, cur, k), TurnFrom(events, k),
                                    events[turn[k]].ledger, FALSE)
  <2>1. /\ c \in Seq(RowsOf(W)) /\ Len(c) = m + 1
        /\ c[m + 1] = Row(row.wasm, TurnFrom(events, m + 1), row.until, row.current)
        /\ row.wasm = TurnWasm(events, cur, m + 1)
        /\ \A k \in 1..m : c[k] = Row(TurnWasm(events, cur, k), TurnFrom(events, k),
                                      events[turn[k]].ledger, FALSE)
    BY DEF OneRowPerTurn
  <2> HIDE DEF m
  <2>2. c # <<>>
    BY <1>3, <2>1
  <2> QED BY <2>1, <2>2
<1>6. next \in RowsOf(W)
  BY <1>1, <1>4
<1>7. c[m + 1].wasm = events[j].old /\ c[m + 1].current = FALSE
      /\ c[m + 1].from = TurnFrom(events, m + 1)
  BY <1>4, <1>5, RowFields
<1>8. next = Row(next.wasm, next.from, next.until, next.current)
  BY <1>6 DEF RowsOf, Row
<1>9. CASE events[j].old = events[j].new
  <2>1. V = U
    <3>1. j \notin D
      BY <1>9 DEF Turns
    <3> QED BY <1>1, <3>1
  <2>2. /\ d \in Seq(RowsOf(W)) /\ Len(d) = m + 1
        /\ \A k \in 1..m : d[k] = c[k]
        /\ d[m + 1] = Row(c[m + 1].wasm, c[m + 1].from, next.until,
                          c[m + 1].current \/ next.current)
    <3>1. c[Len(c)].wasm = next.wasm
      BY <1>4, <1>5, <1>7, <1>9
    <3> HIDE DEF next, m
    <3>2. c \in Seq(RowsOf(W)) /\ c # <<>> /\ Len(c) = m + 1 /\ Len(c) - 1 = m
      BY <1>3, <1>5
    <3>3. d \in Seq(RowsOf(W)) /\ Extends(d, c, next)
      BY <1>6, <3>1, <3>2, MergeExtends
    <3> HIDE DEF d
    <3> QED BY <3>2, <3>3 DEF Extends
  <2>3. (c[m + 1].current \/ next.current) = next.current
    <3>1. next.current \in BOOLEAN
      BY <1>6 DEF RowsOf
    <3> HIDE DEF next, m
    <3> QED BY <1>7, <3>1
  <2>4. d[m + 1] = Row(next.wasm, TurnFrom(events, m + 1), next.until, next.current)
    BY <1>4, <1>7, <1>9, <2>2, <2>3
  <2>5. next.wasm = TurnWasm(events, cur, m + 1)
    BY <1>4, <1>5, <1>9
  <2> HIDE DEF d, rows, next, m, turn, D, row
  <2>6. Cardinality({i \in Turns(events) : i <= (j + 1) - 1}) = m
    BY <2>1 DEF D, m
  <2>7. \A k \in 1..m : d[k] = Row(TurnWasm(events, cur, k), TurnFrom(events, k),
                                   events[turn[k]].ledger, FALSE)
    BY <1>5, <2>2
  <2> QED BY <2>2, <2>4, <2>5, <2>6, <2>7 DEF OneRowPerTurn, d, next, rows, turn, D
<1>10. CASE events[j].old # events[j].new
  <2>1. j \in D /\ V = U \cup {j} /\ j \notin U
    <3>1. j \in D
      BY <1>10 DEF Turns
    <3> QED BY <1>1, <3>1
  <2>2. Cardinality(V) = m + 1
    BY <1>3, <2>1, FS_AddElement
  <2>3. UpTo(D, j) = m + 1
    <3>1. V = {i \in D : i <= j}
      BY <1>1
    <3> QED BY <2>2, <3>1 DEF UpTo
  <2>4. turn[m + 1] = j
    BY <1>1, <2>1, <2>3, AscendingProperties
  <2>5. /\ d \in Seq(RowsOf(W)) /\ Len(d) = m + 2
        /\ \A k \in 1..(m + 1) : d[k] = c[k]
        /\ d[m + 2] = next
    <3>1. c[Len(c)].wasm # next.wasm
      BY <1>4, <1>5, <1>7, <1>10
    <3> HIDE DEF next, m
    <3> QED BY <1>3, <1>5, <1>6, <3>1, MergeAppends
  <2>6. TurnWasm(events, cur, m + 2) = events[j].new /\ TurnFrom(events, m + 2) = events[j].ledger
    BY <1>3, <2>4 DEF TurnWasm, TurnFrom
  <2>8. next = Row(next.wasm, TurnFrom(events, m + 2), next.until, next.current)
    BY <1>4, <1>8, <2>6
  <2>9. next.wasm = TurnWasm(events, cur, m + 2)
    BY <1>4, <2>6
  <2>10. \A k \in 1..(m + 1) : d[k] = Row(TurnWasm(events, cur, k), TurnFrom(events, k),
                                          events[turn[k]].ledger, FALSE)
    <3> TAKE k \in 1..(m + 1)
    <3>1. CASE k \in 1..m
      <4>1. d[k] = c[k]
        BY <2>5
      <4> HIDE DEF m, d, row, turn
      <4> QED BY <1>5, <3>1, <4>1
    <3>2. CASE k = m + 1
      <4>1. d[m + 1] = c[m + 1]
        BY <2>5, <3>2
      <4> HIDE DEF m, d, row, turn
      <4> QED BY <1>4, <1>5, <2>4, <3>2, <4>1
    <3>3. k \in 1..m \/ k = m + 1
      <4> HIDE DEF m
      <4> QED BY <1>3
    <3> QED BY <3>1, <3>2, <3>3
  <2> HIDE DEF d, rows, next, m, turn, D, row
  <2>11. Cardinality({i \in Turns(events) : i <= (j + 1) - 1}) = m + 1
    BY <2>2 DEF D
  <2>12. (m + 1) + 1 = m + 2
    BY <1>3
  <2> QED
    BY <2>5, <2>8, <2>9, <2>10, <2>11, <2>12 DEF OneRowPerTurn, d, next, rows, turn, D
<1> QED BY <1>9, <1>10

OneVersionPerTurn(events, cur) ==
  LET m == Cardinality(Turns(events))
  IN  [k \in 1..(m + 1) |->
         Row(TurnWasm(events, cur, k), TurnFrom(events, k),
             IF k = m + 1 THEN 0 ELSE events[Ascending(Turns(events))[k]].ledger,
             k = m + 1)]

\* A consistent chain has one version per change of the wasm, each with when it
\* went live and when it was replaced, the last one current, and one before the
\* first change (build_audit, audit.rs:364-427).
THEOREM ConsistentLineage ==
  ASSUME NEW W, NEW cur \in W, NEW E, NEW events \in Seq(E),
         \A e \in E : EventOf(e, W), ChainConsistent(events, cur)
  PROVE  /\ Cardinality(Turns(events)) \in Nat
         /\ Versions(events, cur) = OneVersionPerTurn(events, cur)
<1> DEFINE n == Len(events)
           rows == Rows(events, cur)
           L == Len(rows)
           D == Turns(events)
           turn == Ascending(D)
           m == Cardinality(D)
           c == Merging(rows)
           v(k) == Row(TurnWasm(events, cur, k), TurnFrom(events, k),
                       IF k = m + 1 THEN 0 ELSE events[turn[k]].ledger, k = m + 1)
           G == {j \in Nat : j + 1 <= L => OneRowPerTurn(c[j + 1], events, cur, j + 1, W)}
<1>1. n \in Nat /\ D \subseteq 1..n
  BY DEF Turns
<1>2. m \in Nat
  BY <1>1, AscendingProperties
<1>3. L \in Nat /\ rows \in Seq(RowsOf(W)) /\ L = n + 1
      /\ rows[n + 1].until = 0 /\ rows[n + 1].current = TRUE
  <2>1. CASE events = <<>>
    <3> DEFINE r == Row(cur, 0, 0, TRUE)
    <3>1. rows = <<r>>
      BY <2>1, RowsOfNoEvents
    <3>2. rows \in Seq(RowsOf(W))
      BY <2>1, RowsOfNoEvents
    <3>3. r.until = 0 /\ r.current = TRUE
      BY DEF Row
    <3>4. n = 0
      BY <2>1
    <3> HIDE DEF rows, r, n
    <3>5. L = 1 /\ rows[1] = r
      BY <3>1
    <3>6. rows[1].until = 0 /\ rows[1].current = TRUE
      BY <3>3, <3>5
    <3>7. n + 1 = 1
      BY <3>4
    <3> HIDE DEF L
    <3> QED BY <3>2, <3>5, <3>6, <3>7
  <2>2. CASE events # <<>>
    <3>1. RowsLinked(rows, events, W)
      BY <2>2, RowsOfChain
    <3> HIDE DEF rows
    <3> QED BY <1>1, <3>1 DEF RowsLinked
  <2> QED BY <2>1, <2>2
<1>4. c = [i \in 0..L |-> IF i = 0 THEN <<>> ELSE Merge(c[i - 1], rows[i])]
  BY <1>3, MergingDef
<1>5. 0 \in G
  <2>1. rows[1] \in RowsOf(W)
    BY <1>1, <1>3
  <2>2. c[1] = Merge(<<>>, rows[1])
    <3> HIDE DEF c, rows, L
    <3> QED BY <1>1, <1>3, <1>4
  <2>3. c[1] = <<rows[1]>>
    BY <2>2 DEF Merge
  <2>4. {i \in D : i <= 1 - 1} = {}
    BY <1>1
  <2>5. rows[1] = Row(rows[1].wasm, 0, rows[1].until, rows[1].current)
        /\ rows[1].wasm = TurnWasm(events, cur, 1)
    <3>1. CASE events = <<>>
      <4>1. rows[1] = Row(cur, 0, 0, TRUE)
        <5>1. rows = <<Row(cur, 0, 0, TRUE)>>
          BY <3>1, RowsOfNoEvents
        <5> HIDE DEF rows
        <5> QED BY <5>1
      <4> HIDE DEF rows
      <4> QED BY <3>1, <4>1 DEF Row, TurnWasm
    <3>2. CASE events # <<>>
      <4>1. RowsLinked(rows, events, W)
        BY <3>2, RowsOfChain
      <4> HIDE DEF rows
      <4>2. rows[1] = Row(events[1].old, 0, events[1].ledger, FALSE)
        BY <4>1 DEF RowsLinked
      <4> QED BY <3>2, <4>2 DEF Row, TurnWasm
    <3> QED BY <3>1, <3>2
  <2>6. Cardinality({i \in Turns(events) : i <= 1 - 1}) = 0
    BY <2>4, FS_EmptySet
  <2>7. TurnFrom(events, 1) = 0
    BY DEF TurnFrom
  <2> HIDE DEF c, rows, L, D
  <2>8. c[1] \in Seq(RowsOf(W)) /\ Len(c[1]) = 1 /\ c[1][1] = rows[1]
    BY <2>1, <2>3
  <2>9. /\ c[1] \in Seq(RowsOf(W)) /\ Len(c[1]) = 0 + 1
        /\ c[1][0 + 1] = Row(rows[1].wasm, TurnFrom(events, 0 + 1), rows[1].until,
                             rows[1].current)
        /\ rows[1].wasm = TurnWasm(events, cur, 0 + 1)
        /\ \A k \in 1..0 : FALSE
    BY <2>5, <2>7, <2>8
  <2>10. OneRowPerTurn(c[1], events, cur, 1, W)
    BY <2>6, <2>9 DEF OneRowPerTurn, rows
  <2> QED BY <2>10
<1>6. \A j \in Nat : j \in G => j + 1 \in G
  <2> SUFFICES ASSUME NEW j \in Nat, (j + 1) + 1 <= L,
                      OneRowPerTurn(c[j + 1], events, cur, j + 1, W)
               PROVE  OneRowPerTurn(c[(j + 1) + 1], events, cur, (j + 1) + 1, W)
    <3> HIDE DEF c, L
    <3> QED BY <1>3
  <2>1. c[(j + 1) + 1] = Merge(c[j + 1], rows[(j + 1) + 1])
    <3> HIDE DEF c, rows, L
    <3> QED BY <1>3, <1>4
  <2>2. j + 1 \in 1..n /\ events # <<>>
    <3> HIDE DEF L
    <3> QED BY <1>1, <1>3
  <2> HIDE DEF c
  <2> QED BY <2>1, <2>2, MergeTurn
<1>7. n \in G
  <2> HIDE DEF G
  <2> QED BY <1>1, <1>5, <1>6, NatSetInduction
<1>8. OneRowPerTurn(c[L], events, cur, n + 1, W)
  <2> HIDE DEF c, L
  <2> QED BY <1>1, <1>3, <1>7
<1>9. Versions(events, cur) = c[L]
  BY DEF Versions, CollapseNoops
<1>10. {i \in D : i <= (n + 1) - 1} = D
  BY <1>1
<1>11. /\ c[L] \in Seq(RowsOf(W)) /\ Len(c[L]) = m + 1
       /\ c[L][m + 1] = Row(rows[n + 1].wasm, TurnFrom(events, m + 1), rows[n + 1].until,
                            rows[n + 1].current)
       /\ rows[n + 1].wasm = TurnWasm(events, cur, m + 1)
       /\ \A k \in 1..m : c[L][k] = Row(TurnWasm(events, cur, k), TurnFrom(events, k),
                                        events[turn[k]].ledger, FALSE)
  <2>1. Cardinality({i \in Turns(events) : i <= (n + 1) - 1}) = m
    BY <1>10
  <2> HIDE DEF m, c, L
  <2> QED BY <1>8, <2>1 DEF OneRowPerTurn
<1>12. c[L][m + 1] = v(m + 1)
  <2>1. c[L][m + 1] = Row(TurnWasm(events, cur, m + 1), TurnFrom(events, m + 1), 0, TRUE)
    BY <1>3, <1>11
  <2>2. (m + 1 = m + 1) = TRUE
    OBVIOUS
  <2> HIDE DEF m, c, L
  <2> QED BY <2>1, <2>2
<1>13. ASSUME NEW k \in 1..m PROVE c[L][k] = v(k)
  <2>1. (k = m + 1) = FALSE
    BY <1>2
  <2> HIDE DEF m, c, L, turn
  <2> QED BY <1>11, <2>1
<1>14. \A k \in 1..(m + 1) : c[L][k] = v(k)
  <2> HIDE DEF m, c, L, v
  <2> QED BY <1>2, <1>12, <1>13
<1>15. c[L] = [k \in 1..(m + 1) |-> v(k)]
  <2> DEFINE s == c[L]
  <2>1. s \in Seq(RowsOf(W)) /\ Len(s) = m + 1 /\ \A k \in 1..(m + 1) : s[k] = v(k)
    BY <1>11, <1>14
  <2> HIDE DEF m, s, v
  <2>2. s = [k \in 1..(m + 1) |-> s[k]]
    BY <1>2, <2>1
  <2>3. s = [k \in 1..(m + 1) |-> v(k)]
    BY <2>1, <2>2
  <2> QED BY <2>3 DEF s
<1> QED BY <1>2, <1>9, <1>15 DEF OneVersionPerTurn
=============================================================================
