----------------------------- MODULE TreeProofs ------------------------------
(***************************************************************************)
(* Theorems about the walks of MCTrees: AnalyzeTree says of each artifact  *)
(* what its sources and its binary say, whatever order the directories are *)
(* read in, and passes none of them over, TreeDigest covers the sources it *)
(* should whoever writes into the tree meanwhile and tells any two of them *)
(* apart, and Scaffold finds every contract of a workspace.                *)
(***************************************************************************)
EXTENDS Scaffold, AnalyzeTree, TreeDigest, LineageProofs

-----------------------------------------------------------------------------
(***************************************************************************)
(* AnalyzeTree: the order of findings                                      *)
(***************************************************************************)

\* R is a total order of the positions up to n; p counts those that come up to each.
Orders(R, n) ==
  /\ \A i \in 1..n : <<i, i>> \in R
  /\ \A i, j \in 1..n : <<i, j>> \in R \/ <<j, i>> \in R
  /\ \A i, j \in 1..n : <<i, j>> \in R /\ <<j, i>> \in R => i = j
  /\ \A i, j, k \in 1..n : <<i, j>> \in R /\ <<j, k>> \in R => <<i, k>> \in R
Counts(p, U, R, n) ==
  \A i \in 1..n :
    /\ p[i] = Cardinality(U[i]) /\ U[i] \in SUBSET (1..n)
    /\ \A j \in 1..n : j \in U[i] <=> <<j, i>> \in R
Numbers(p, R, n) ==
  /\ \A i \in 1..n : p[i] \in 1..n
  /\ \A i, j \in 1..n : <<i, j>> \in R /\ i # j => p[i] < p[j]
  /\ \A k \in 1..n : \E i \in 1..n : p[i] = k

\* Such a count numbers the positions in order, one to one.
LEMMA PlacesOnce ==
  ASSUME NEW n \in Nat, NEW R, NEW U, NEW p, Orders(R, n), Counts(p, U, R, n)
  PROVE  Numbers(p, R, n)
<1> DEFINE N == 1..n
<1>1. IsFiniteSet(N) /\ Cardinality(N) = n
  BY FS_Interval
<1>2. \A i \in N : p[i] = Cardinality(U[i]) /\ U[i] \in SUBSET N /\ i \in U[i]
  BY DEF Orders, Counts
<1>3. \A i, j \in N : <<i, j>> \in R /\ i # j => U[i] \in SUBSET U[j] /\ U[i] # U[j]
  <2> SUFFICES ASSUME NEW i \in N, NEW j \in N, <<i, j>> \in R, i # j
               PROVE  U[i] \in SUBSET U[j] /\ U[i] # U[j]
    OBVIOUS
  <2>1. U[i] \in SUBSET U[j] /\ j \in U[j] /\ j \notin U[i]
    BY DEF Orders, Counts
  <2> QED BY <2>1
<1>4. \A i \in N : IsFiniteSet(U[i]) /\ p[i] \in N
  <2> SUFFICES ASSUME NEW i \in N PROVE IsFiniteSet(U[i]) /\ p[i] \in N
    OBVIOUS
  <2> HIDE DEF N
  <2>1. IsFiniteSet(U[i]) /\ p[i] <= n /\ p[i] \in Nat
    BY <1>1, <1>2, FS_Subset, FS_CardinalityType
  <2>2. p[i] # 0
    BY <1>2, <2>1, FS_EmptySet
  <2> QED BY <2>1, <2>2 DEF N
<1>5. \A i \in N : p[i] \in Int
  BY <1>4
<1>7. \A i, j \in N : <<i, j>> \in R /\ i # j => p[i] < p[j]
  <2> SUFFICES ASSUME NEW i \in N, NEW j \in N, <<i, j>> \in R, i # j PROVE p[i] < p[j]
    OBVIOUS
  <2>1. U[i] \in SUBSET U[j] /\ U[i] # U[j] /\ IsFiniteSet(U[j])
    BY <1>3, <1>4
  <2>2. p[i] = Cardinality(U[i]) /\ p[j] = Cardinality(U[j])
    BY <1>2
  <2> HIDE DEF N
  <2>3. Cardinality(U[i]) <= Cardinality(U[j]) /\ Cardinality(U[i]) # Cardinality(U[j])
    BY <2>1, FS_Subset
  <2>4. p[i] \in Int /\ p[j] \in Int
    BY <1>5
  <2> QED BY <2>2, <2>3, <2>4
<1>8. \A k \in N : \E i \in N : p[i] = k
  <2>1. \A i, j \in N : p[i] = p[j] => i = j
    <3> SUFFICES ASSUME NEW i \in N, NEW j \in N, i # j PROVE p[i] # p[j]
      OBVIOUS
    <3>1. <<i, j>> \in R \/ <<j, i>> \in R
      BY DEF Orders
    <3>2. p[i] < p[j] \/ p[j] < p[i]
      BY <1>7, <3>1
    <3> QED BY <1>5, <3>2
  <2> DEFINE q == [i \in N |-> p[i]]
  <2>2. q \in [N -> N] /\ \A i \in N : q[i] = p[i]
    BY <1>4
  <2> HIDE DEF q, N
  <2>3. q \in Injection(N, N)
    BY <2>1, <2>2 DEF Injection, IsInjective
  <2>4. q \in Surjection(N, N)
    BY <1>1, <2>3, FS_Injection
  <2> QED BY <2>2, <2>4 DEF Surjection
<1> QED BY <1>4, <1>7, <1>8 DEF Numbers

\* The findings are ordered by Before.
LEMMA BeforeOrders ==
  ASSUME NEW f \in Findings, NEW g \in Findings, NEW h \in Findings
  PROVE  /\ ~Before(f, f)
         /\ ~(Before(f, g) /\ Before(g, f))
         /\ f = g \/ Before(f, g) \/ Before(g, f)
         /\ Before(f, g) /\ Before(g, h) => Before(f, h)
<1>1. \A x \in {f, g, h} : x.file \in Files /\ x.line \in Nat /\ x.rule \in Rules
  BY DEF Findings
<1>2. /\ \A x, y \in Files : Rank[x] \in Nat /\ (Rank[x] = Rank[y] => x = y)
      /\ \A x, y \in Rules : Rank[x] \in Nat /\ (Rank[x] = Rank[y] => x = y)
  BY AnalyzeAssumption
<1>3. f.file = g.file /\ f.line = g.line /\ f.rule = g.rule => f = g
  BY DEF Findings
<1> QED BY <1>1, <1>2, <1>3 DEF Before

\* Sorting keeps what is sorted and puts it in order.
LEMMA SortedIs ==
  ASSUME NEW s \in Seq(Findings)
  PROVE  /\ Sorted(s) \in Seq(Findings) /\ ToSet(Sorted(s)) = ToSet(s)
         /\ IsInjective(s) =>
              /\ IsInjective(Sorted(s))
              /\ \A i, j \in 1..Len(Sorted(s)) : i < j => Before(Sorted(s)[i], Sorted(s)[j])
<1> DEFINE n == Len(s)
           N == 1..n
           R == {r \in N \X N : \/ Before(s[r[1]], s[r[2]])
                                \/ r[1] <= r[2] /\ ~Before(s[r[2]], s[r[1]])}
           U(i) == {j \in N : Before(s[j], s[i]) \/ (j <= i /\ ~Before(s[i], s[j]))}
           place(i) == Cardinality(U(i))
           At(k) == CHOOSE i \in N : place(i) = k
           t == Sorted(s)
<1>1. n \in Nat /\ DOMAIN s = N /\ \A i \in N : s[i] \in Findings
  BY LenProperties, ElementOfSeq
<1> HIDE DEF n
<1>2. \A i, j \in N : <<i, j>> \in R <=> Before(s[i], s[j]) \/ (i <= j /\ ~Before(s[j], s[i]))
  OBVIOUS
<1> HIDE DEF R
<1>3. \A i \in N : <<i, i>> \in R
  BY <1>1, <1>2, BeforeOrders
<1>4. \A i, j \in N : <<i, j>> \in R \/ <<j, i>> \in R
  <2> SUFFICES ASSUME NEW i \in N, NEW j \in N PROVE <<i, j>> \in R \/ <<j, i>> \in R
    OBVIOUS
  <2>1. i <= j \/ j <= i
    BY <1>1
  <2> QED BY <1>1, <1>2, <2>1
<1>5. \A i, j \in N : <<i, j>> \in R /\ <<j, i>> \in R => i = j
  <2> SUFFICES ASSUME NEW i \in N, NEW j \in N, <<i, j>> \in R, <<j, i>> \in R PROVE i = j
    OBVIOUS
  <2>1. ~(Before(s[i], s[j]) /\ Before(s[j], s[i]))
    BY <1>1, BeforeOrders
  <2>2. i <= j /\ j <= i
    BY <1>2, <2>1
  <2> QED BY <1>1, <2>2
<1>6. \A i, j, k \in N : <<i, j>> \in R /\ <<j, k>> \in R => <<i, k>> \in R
  <2> SUFFICES ASSUME NEW i \in N, NEW j \in N, NEW k \in N, <<i, j>> \in R, <<j, k>> \in R
               PROVE  <<i, k>> \in R
    OBVIOUS
  <2>1. s[i] \in Findings /\ s[j] \in Findings /\ s[k] \in Findings
    BY <1>1
  <2>2. \/ Before(s[i], s[j])
        \/ i <= j /\ s[i] = s[j]
    BY <1>2, <2>1, BeforeOrders
  <2>3. \/ Before(s[j], s[k])
        \/ j <= k /\ s[j] = s[k]
    BY <1>2, <2>1, BeforeOrders
  <2>4. CASE Before(s[i], s[j]) /\ Before(s[j], s[k])
    BY <1>2, <2>1, <2>4, BeforeOrders
  <2>5. CASE Before(s[i], s[j]) /\ s[j] = s[k]
    BY <1>2, <2>5
  <2>6. CASE s[i] = s[j] /\ Before(s[j], s[k])
    BY <1>2, <2>6
  <2>7. CASE i <= j /\ s[i] = s[j] /\ j <= k /\ s[j] = s[k]
    <3>1. i <= k /\ s[i] = s[k] /\ ~Before(s[k], s[i])
      BY <1>1, <2>1, <2>7, BeforeOrders
    <3> QED BY <1>2, <3>1
  <2> QED BY <2>2, <2>3, <2>4, <2>5, <2>6, <2>7
<1>7. \A i \in N : U(i) = {j \in N : <<j, i>> \in R}
  BY <1>2
<1> DEFINE p == [i \in N |-> place(i)]
<1>8. \A i \in N : p[i] = place(i)
  OBVIOUS
<1>9. Numbers(p, R, n)
  <2> DEFINE V == [i \in N |-> U(i)]
  <2>1. Orders(R, n)
    BY <1>3, <1>4, <1>5, <1>6 DEF Orders
  <2>2. Counts(p, V, R, n)
    BY <1>7 DEF Counts
  <2>3. n \in Nat
    BY <1>1
  <2> HIDE DEF p, V
  <2> QED BY <2>1, <2>2, <2>3, PlacesOnce
<1> HIDE DEF p
<1> DEFINE at == [k \in N |-> At(k)]
<1>10. t = [k \in N |-> s[at[k]]]
  <2>1. t = [k \in N |-> s[At(k)]]
    BY DEF Sorted, n
  <2>2. \A k \in N : at[k] = At(k)
    OBVIOUS
  <2> HIDE DEF at, At, t
  <2> QED BY <2>1, <2>2
<1> HIDE DEF U
<1>11. /\ \A i, j \in N : <<i, j>> \in R /\ i # j => p[i] < p[j]
       /\ \A i \in N : p[i] \in N
       /\ \A k \in N : \E i \in N : p[i] = k
  BY <1>9 DEF Numbers
<1>12. \A k \in N : at[k] \in N /\ p[at[k]] = k
  <2> SUFFICES ASSUME NEW k \in N PROVE at[k] \in N /\ p[at[k]] = k
    OBVIOUS
  <2>1. \E i \in N : place(i) = k
    BY <1>8, <1>11
  <2> HIDE DEF place
  <2>2. At(k) \in N /\ place(At(k)) = k
    BY <2>1
  <2> HIDE DEF At
  <2>3. at[k] = At(k)
    OBVIOUS
  <2> QED BY <1>8, <2>2, <2>3
<1> HIDE DEF at
<1>13. \A i \in N : at[p[i]] = i
  <2> SUFFICES ASSUME NEW i \in N PROVE at[p[i]] = i
    OBVIOUS
  <2> DEFINE j == at[p[i]]
  <2>1. p[i] \in N /\ j \in N /\ p[j] = p[i]
    BY <1>11, <1>12
  <2>2. p[i] \in Nat
    BY <1>11
  <2> HIDE DEF j
  <2>3. i = j
    <3> SUFFICES ASSUME i # j PROVE FALSE
      OBVIOUS
    <3>1. p[i] < p[j] \/ p[j] < p[i]
      BY <1>4, <1>11, <2>1
    <3> QED BY <2>1, <2>2, <3>1
  <2> QED BY <2>3 DEF j
<1> HIDE DEF t
<1>14. t \in [N -> Findings] /\ DOMAIN t = N
  BY <1>1, <1>10, <1>12
<1>15. t \in Seq(Findings) /\ Len(t) = n
  <2>1. t \in Seq(Findings)
    BY <1>1, <1>14, SeqDef
  <2> QED BY <1>1, <1>14, <2>1, LenProperties
<1>16. ToSet(t) = ToSet(s)
  <2>1. ASSUME NEW x \in ToSet(t) PROVE x \in ToSet(s)
    <3>1. PICK k \in N : x = t[k]
      BY <1>14 DEF ToSet
    <3> QED BY <1>1, <1>10, <1>12, <3>1 DEF ToSet
  <2>2. ASSUME NEW x \in ToSet(s) PROVE x \in ToSet(t)
    <3>1. PICK i \in N : x = s[i]
      BY <1>1 DEF ToSet
    <3>2. p[i] \in N /\ t[p[i]] = x
      BY <1>11, <1>10, <1>13, <3>1
    <3> QED BY <1>14, <3>2 DEF ToSet
  <2> QED BY <2>1, <2>2
<1>17. ASSUME IsInjective(s), NEW i \in N, NEW j \in N, i < j
       PROVE  Before(t[i], t[j])
  <2>1. at[i] \in N /\ at[j] \in N /\ p[at[i]] = i /\ p[at[j]] = j
    BY <1>12
  <2>2. at[i] # at[j]
    BY <1>1, <1>17, <2>1
  <2>3. s[at[i]] # s[at[j]] /\ s[at[i]] \in Findings /\ s[at[j]] \in Findings
    BY <1>1, <1>17, <2>1, <2>2 DEF IsInjective
  <2>4. ~Before(s[at[j]], s[at[i]])
    <3> SUFFICES ASSUME Before(s[at[j]], s[at[i]]) PROVE FALSE
      OBVIOUS
    <3>1. <<at[j], at[i]>> \in R
      BY <1>2, <2>1
    <3>2. p[at[j]] < p[at[i]]
      BY <1>11, <2>1, <2>2, <3>1
    <3>3. j < i
      BY <2>1, <3>2
    <3> QED BY <1>1, <1>17, <3>3
  <2>5. Before(s[at[i]], s[at[j]])
    BY <2>3, <2>4, BeforeOrders
  <2> QED BY <1>10, <2>5
<1>18. ASSUME IsInjective(s) PROVE IsInjective(t)
  <2> SUFFICES ASSUME NEW i \in N, NEW j \in N, i # j PROVE t[i] # t[j]
    BY <1>14 DEF IsInjective
  <2>1. i < j \/ j < i
    BY <1>1
  <2>2. Before(t[i], t[j]) \/ Before(t[j], t[i])
    BY <1>17, <1>18, <2>1
  <2>3. t[i] \in Findings /\ t[j] \in Findings
    BY <1>14
  <2> QED BY <2>2, <2>3, BeforeOrders
<1> QED BY <1>15, <1>16, <1>17, <1>18 DEF t, n

-----------------------------------------------------------------------------
(***************************************************************************)
(* AnalyzeTree: the findings of a file                                     *)
(***************************************************************************)

\* What is in a sequence that goes on as another does, and when it is there once.
LEMMA ConcatHolds ==
  ASSUME NEW S, NEW s \in Seq(S), NEW t \in Seq(S)
  PROVE  /\ s \o t \in Seq(S) /\ ToSet(s \o t) = ToSet(s) \cup ToSet(t)
         /\ IsInjective(s) /\ IsInjective(t) /\ ToSet(s) \cap ToSet(t) = {} =>
              IsInjective(s \o t)
<1> DEFINE m == Len(s)
           n == Len(t)
           u == s \o t
<1>1. /\ m \in Nat /\ n \in Nat /\ DOMAIN s = 1..m /\ DOMAIN t = 1..n
  BY LenProperties
<1>2. /\ u \in Seq(S) /\ Len(u) = m + n
      /\ \A k \in 1..(m + n) : u[k] = IF k <= m THEN s[k] ELSE t[k - m]
  BY ConcatProperties
<1>3. DOMAIN u = 1..(m + n)
  BY <1>2, LenProperties
<1> HIDE DEF m, n, u
<1>4. \A k \in 1..(m + n) : \/ k \in 1..m /\ u[k] = s[k] /\ u[k] \in ToSet(s)
                            \/ k - m \in 1..n /\ u[k] = t[k - m] /\ u[k] \in ToSet(t)
  <2> SUFFICES ASSUME NEW k \in 1..(m + n)
               PROVE  \/ k \in 1..m /\ u[k] = s[k] /\ u[k] \in ToSet(s)
                      \/ k - m \in 1..n /\ u[k] = t[k - m] /\ u[k] \in ToSet(t)
    OBVIOUS
  <2>1. CASE k <= m
    <3>1. k \in 1..m /\ u[k] = s[k]
      BY <1>1, <1>2, <2>1
    <3> QED BY <1>1, <3>1 DEF ToSet
  <2>2. CASE ~(k <= m)
    <3>1. k - m \in 1..n /\ u[k] = t[k - m]
      BY <1>1, <1>2, <2>2
    <3> QED BY <1>1, <3>1 DEF ToSet
  <2> QED BY <2>1, <2>2
<1>5. ToSet(u) = ToSet(s) \cup ToSet(t)
  <2>1. ASSUME NEW x \in ToSet(u) PROVE x \in ToSet(s) \cup ToSet(t)
    <3>1. PICK k \in 1..(m + n) : x = u[k]
      BY <1>3 DEF ToSet
    <3> QED BY <1>4, <3>1
  <2>2. ASSUME NEW x \in ToSet(s) PROVE x \in ToSet(u)
    <3>1. PICK k \in 1..m : x = s[k]
      BY <1>1 DEF ToSet
    <3>2. k \in 1..(m + n) /\ u[k] = x
      BY <1>1, <1>2, <3>1
    <3> QED BY <1>3, <3>2 DEF ToSet
  <2>3. ASSUME NEW x \in ToSet(t) PROVE x \in ToSet(u)
    <3>1. PICK k \in 1..n : x = t[k]
      BY <1>1 DEF ToSet
    <3>2. m + k \in 1..(m + n) /\ ~(m + k <= m) /\ (m + k) - m = k
      BY <1>1
    <3>3. u[m + k] = x
      BY <1>2, <3>1, <3>2
    <3> QED BY <1>3, <3>2, <3>3 DEF ToSet
  <2> QED BY <2>1, <2>2, <2>3
<1>6. ASSUME IsInjective(s), IsInjective(t), ToSet(s) \cap ToSet(t) = {}
      PROVE  IsInjective(u)
  <2> SUFFICES ASSUME NEW k \in 1..(m + n), NEW l \in 1..(m + n), u[k] = u[l] PROVE k = l
    BY <1>3 DEF IsInjective
  <2>1. CASE u[k] \in ToSet(s)
    <3>1. k \in 1..m /\ l \in 1..m /\ s[k] = s[l]
      BY <1>4, <1>6, <2>1
    <3> QED BY <1>1, <1>6, <3>1 DEF IsInjective
  <2>2. CASE u[k] \in ToSet(t)
    <3>1. k - m \in 1..n /\ l - m \in 1..n /\ t[k - m] = t[l - m]
      BY <1>4, <1>6, <2>2
    <3>2. k - m = l - m
      BY <1>1, <1>6, <3>1 DEF IsInjective
    <3> QED BY <1>1, <3>2
  <2> QED BY <1>4, <2>1, <2>2
<1> QED BY <1>2, <1>5, <1>6 DEF u

LEMMA AppendHolds ==
  ASSUME NEW S, NEW s \in Seq(S), NEW x \in S
  PROVE  /\ Append(s, x) \in Seq(S) /\ ToSet(Append(s, x)) = ToSet(s) \cup {x}
         /\ IsInjective(s) /\ x \notin ToSet(s) => IsInjective(Append(s, x))
<1> DEFINE t == <<x>>
<1>1. t \in Seq(S) /\ Append(s, x) = s \o t
  BY AppendIsConcat
<1>2. ToSet(t) = {x} /\ IsInjective(t)
  BY DEF ToSet, IsInjective
<1> HIDE DEF t
<1> QED BY <1>1, <1>2, ConcatHolds

\* Kept leaves out what is ignored, and nothing else.
LEMMA KeptIs ==
  ASSUME NEW e \in Entries
  PROVE  /\ Kept(e) \in Seq([line : Nat, rule : Rules]) /\ IsInjective(Kept(e))
         /\ ToSet(Kept(e)) = {f \in ToSet(Raw[e]) : ~Ignored(e, f)}
<1> DEFINE raw == Raw[e]
           L == Len(raw)
           Found == [line : Nat, rule : Rules]
           Solves(g, n) ==
             g = [i \in 0..n |-> IF i = 0 THEN <<>> ELSE Retain(e, g[i - 1], raw[i])]
           G == {n \in Nat : \E g : Solves(g, n)}
<1>1. /\ raw \in Seq(Found) /\ L \in Nat /\ DOMAIN raw = 1..L
      /\ \A k \in 1..L : raw[k] \in Found
      /\ \A k, l \in 1..L : raw[k] = raw[l] => k = l
  <2>1. raw \in Seq(Found) /\ IsInjective(raw)
    BY AnalyzeAssumption
  <2>2. L \in Nat /\ DOMAIN raw = 1..L
    BY <2>1, LenProperties
  <2>3. \A k \in 1..L : raw[k] \in Found
    BY <2>1, ElementOfSeq
  <2> HIDE DEF raw, L, Found
  <2> QED BY <2>1, <2>2, <2>3 DEF IsInjective
<1>2. 0 \in G
  <2>1. Solves([i \in 0..0 |-> <<>>], 0)
    OBVIOUS
  <2> HIDE DEF Solves
  <2> QED BY <2>1
<1>3. \A n \in Nat : n \in G => n + 1 \in G
  <2> SUFFICES ASSUME NEW n \in Nat, NEW f, Solves(f, n)
               PROVE  \E g : Solves(g, n + 1)
    <3> HIDE DEF Solves
    <3> QED OBVIOUS
  <2> DEFINE g == [i \in 0..(n + 1) |-> IF i \in 0..n THEN f[i] ELSE Retain(e, f[n], raw[n + 1])]
  <2>1. \A i \in 0..(n + 1) : g[i] = IF i = 0 THEN <<>> ELSE Retain(e, g[i - 1], raw[i])
    <3> TAKE i \in 0..(n + 1)
    <3>1. CASE i = 0
      BY <3>1
    <3>2. CASE i \in 1..n
      <4>1. g[i] = f[i] /\ g[i - 1] = f[i - 1]
        BY <3>2
      <4>2. f[i] = Retain(e, f[i - 1], raw[i])
        BY <3>2
      <4> QED BY <3>2, <4>1, <4>2
    <3>3. CASE i = n + 1
      <4>1. g[i] = Retain(e, f[n], raw[n + 1]) /\ g[i - 1] = f[n]
        BY <3>3
      <4> QED BY <3>3, <4>1
    <3> QED BY <3>1, <3>2, <3>3
  <2>2. DOMAIN g = 0..(n + 1) /\ g = [i \in 0..(n + 1) |-> g[i]]
    OBVIOUS
  <2>3. Solves(g, n + 1)
    <3> HIDE DEF g
    <3> QED BY <2>1, <2>2
  <2> HIDE DEF Solves, g
  <2> QED BY <2>3
<1>4. \E f : Solves(f, L)
  <2>1. L \in G
    <3> HIDE DEF G, L
    <3> QED BY <1>1, <1>2, <1>3, NatSetInduction
  <2> HIDE DEF Solves
  <2> QED BY <2>1
<1> DEFINE r == CHOOSE f : Solves(f, L)
<1>5. Solves(r, L)
  <2> HIDE DEF Solves
  <2> QED BY <1>4
<1>6. Kept(e) = r[L]
  BY DEF Kept
<1> HIDE DEF r, L, raw, Found
<1>7. /\ r[0] = <<>>
      /\ \A n \in 1..L : r[n] = Retain(e, r[n - 1], raw[n])
  BY <1>1, <1>5
<1> HIDE DEF Solves
<1> DEFINE Holds(n) == {f \in Found : \E k \in 1..n : f = raw[k] /\ ~Ignored(e, f)}
           H == {n \in Nat : n <= L => r[n] \in Seq(Found) /\ IsInjective(r[n]) /\ ToSet(r[n]) = Holds(n)}
<1>8. 0 \in H
  <2>1. <<>> \in Seq(Found) /\ IsInjective(<<>>) /\ ToSet(<<>>) = {}
    BY EmptySeq DEF IsInjective, ToSet
  <2>2. Holds(0) = {}
    OBVIOUS
  <2> QED BY <1>7, <2>1, <2>2
<1>9. \A n \in Nat : n \in H => n + 1 \in H
  <2> SUFFICES ASSUME NEW n \in Nat, n \in H, n + 1 <= L
               PROVE  /\ r[n + 1] \in Seq(Found) /\ IsInjective(r[n + 1])
                      /\ ToSet(r[n + 1]) = Holds(n + 1)
    <3> HIDE DEF Holds
    <3> QED OBVIOUS
  <2>1. r[n] \in Seq(Found) /\ IsInjective(r[n]) /\ ToSet(r[n]) = Holds(n)
    BY <1>1
  <2>2. /\ n + 1 \in 1..L /\ raw[n + 1] \in Found
        /\ r[n + 1] = IF Ignored(e, raw[n + 1]) THEN r[n] ELSE Append(r[n], raw[n + 1])
    <3>1. n + 1 \in 1..L /\ (n + 1) - 1 = n
      BY <1>1
    <3> QED BY <1>1, <1>7, <3>1 DEF Retain
  <2> HIDE DEF H
  <2>3. CASE Ignored(e, raw[n + 1])
    <3>1. Holds(n + 1) = Holds(n)
      BY <2>3
    <3> HIDE DEF Holds
    <3> QED BY <2>1, <2>2, <2>3, <3>1
  <2>4. CASE ~Ignored(e, raw[n + 1])
    <3>1. Holds(n + 1) = Holds(n) \cup {raw[n + 1]}
      BY <2>2, <2>4
    <3>2. raw[n + 1] \notin Holds(n)
      BY <1>1, <2>2
    <3> HIDE DEF Holds
    <3>3. r[n + 1] = Append(r[n], raw[n + 1])
      BY <2>2, <2>4
    <3>4. /\ Append(r[n], raw[n + 1]) \in Seq(Found)
          /\ ToSet(Append(r[n], raw[n + 1])) = ToSet(r[n]) \cup {raw[n + 1]}
          /\ IsInjective(Append(r[n], raw[n + 1]))
      BY <2>1, <2>2, <3>2, AppendHolds
    <3> QED BY <2>1, <3>1, <3>3, <3>4
  <2> QED BY <2>3, <2>4
<1>10. L \in H
  <2> HIDE DEF H
  <2> QED BY <1>1, <1>8, <1>9, NatSetInduction
<1>11. r[L] \in Seq(Found) /\ IsInjective(r[L]) /\ ToSet(r[L]) = Holds(L)
  BY <1>1, <1>10
<1>12. Holds(L) = {f \in ToSet(raw) : ~Ignored(e, f)}
  BY <1>1 DEF ToSet
<1> QED BY <1>6, <1>11, <1>12 DEF raw, Found

\* What analyze_file says of file e.
Said(e) ==
  {[file |-> e, line |-> f.line, rule |-> f.rule] : f \in {g \in ToSet(Raw[e]) : ~Ignored(e, g)}}

LEMMA InIs ==
  ASSUME NEW e \in Entries, Kind[e] = "rs"
  PROVE  /\ In(e, Kept(e)) \in Seq(Findings) /\ IsInjective(In(e, Kept(e)))
         /\ ToSet(In(e, Kept(e))) = Said(e)
<1> DEFINE k == Kept(e)
           n == Len(k)
           s == In(e, k)
           Found == [line : Nat, rule : Rules]
           As(f) == [file |-> e, line |-> f.line, rule |-> f.rule]
<1>1. k \in Seq(Found) /\ IsInjective(k) /\ ToSet(k) = {f \in ToSet(Raw[e]) : ~Ignored(e, f)}
  BY KeptIs
<1> HIDE DEF k
<1>2. n \in Nat /\ DOMAIN k = 1..n /\ \A i \in 1..n : k[i] \in Found
  BY <1>1, LenProperties, ElementOfSeq
<1>3. s = [i \in 1..n |-> As(k[i])]
  BY DEF In
<1>4. \A f \in Found : As(f) \in Findings
  BY DEF Findings, Files
<1>5. \A f, g \in Found : As(f) = As(g) => f = g
  <2> SUFFICES ASSUME NEW f \in Found, NEW g \in Found, As(f) = As(g) PROVE f = g
    OBVIOUS
  <2>1. f.line = g.line /\ f.rule = g.rule
    <3>1. As(f).line = As(g).line /\ As(f).rule = As(g).rule
      OBVIOUS
    <3> QED BY <3>1
  <2> QED BY <2>1
<1>6. Said(e) = {As(f) : f \in ToSet(k)}
  BY <1>1 DEF Said
<1> HIDE DEF As, s, n, Found
<1>7. s \in [1..n -> Findings] /\ DOMAIN s = 1..n
  BY <1>2, <1>3, <1>4
<1>8. s \in Seq(Findings)
  BY <1>2, <1>7, SeqDef
<1>9. IsInjective(s)
  BY <1>1, <1>2, <1>3, <1>5, <1>7 DEF IsInjective
<1>10. ToSet(s) = {As(f) : f \in ToSet(k)}
  BY <1>2, <1>3, <1>7 DEF ToSet
<1> QED BY <1>6, <1>8, <1>9, <1>10 DEF s, k

-----------------------------------------------------------------------------
(***************************************************************************)
(* AnalyzeTree: what a walk reaches                                        *)
(***************************************************************************)

\* What walk goes on to from entry e.
Heads(e) == IF Kind[e] = "dir" /\ ~Skipped(e) THEN Listing(e) ELSE {}

\* What is reached from the entries S: the least set with them that is closed.
Closed(T) == \A d \in T : Heads(d) \subseteq T
Reach(S) == {e \in Entries : \A T \in SUBSET Entries : S \subseteq T /\ Closed(T) => e \in T}

\* What waits when e of the entries S has been visited.
Opened(S, e) == (S \ {e}) \cup Heads(e)

\* No entry of S is reached again once it was visited.
Apart(S) == \A e \in S : e \notin Reach(Opened(S, e))

LEMMA HeadsAre ==
  ASSUME present \in Trees, NEW e \in Entries
  PROVE  Heads(e) \subseteq Children[e] /\ Heads(e) \subseteq Entries /\ Listing(e) \subseteq Entries
<1>1. Children[e] \subseteq Entries /\ present \subseteq Entries
  BY AnalyzeAssumption
<1> QED BY <1>1 DEF Heads, Listing

LEMMA ReachIs ==
  ASSUME present \in Trees, NEW S \in SUBSET Entries
  PROVE  /\ S \subseteq Reach(S) /\ Reach(S) \subseteq Entries /\ Closed(Reach(S))
         /\ \A T \in SUBSET Entries : S \subseteq T /\ Closed(T) => Reach(S) \subseteq T
         /\ \A e \in Reach(S) : e \in S \/ \E d \in Reach(S) : e \in Heads(d)
<1>1. S \subseteq Reach(S) /\ Reach(S) \subseteq Entries
  BY DEF Reach
<1>2. \A T \in SUBSET Entries : S \subseteq T /\ Closed(T) => Reach(S) \subseteq T
  BY DEF Reach
<1>3. Closed(Reach(S))
  <2> SUFFICES ASSUME NEW d \in Reach(S), NEW e \in Heads(d) PROVE e \in Reach(S)
    BY DEF Closed
  <2>1. e \in Entries
    BY <1>1, HeadsAre
  <2>2. ASSUME NEW T \in SUBSET Entries, S \subseteq T, Closed(T) PROVE e \in T
    <3>1. d \in T
      BY <1>2, <2>2
    <3> QED BY <2>2, <3>1 DEF Closed
  <2> QED BY <2>1, <2>2 DEF Reach
<1>4. ASSUME NEW e \in Reach(S) PROVE e \in S \/ \E d \in Reach(S) : e \in Heads(d)
  <2> DEFINE T == {f \in Reach(S) : f \in S \/ \E d \in Reach(S) : f \in Heads(d)}
  <2>1. T \in SUBSET Entries /\ S \subseteq T
    BY <1>1
  <2>2. \A d \in T : d \in Reach(S)
    OBVIOUS
  <2>3. \A d \in T : \A f \in Heads(d) : f \in T
    BY <1>3 DEF Closed
  <2>4. Closed(T)
    <3> HIDE DEF T
    <3> QED BY <2>3 DEF Closed
  <2>5. e \in T
    <3> HIDE DEF T
    <3> QED BY <1>2, <1>4, <2>1, <2>4
  <2> QED BY <2>5
<1> QED BY <1>1, <1>2, <1>3, <1>4

LEMMA ReachOfReached ==
  ASSUME present \in Trees, NEW S \in SUBSET Entries, NEW T \in SUBSET Entries, S \subseteq Reach(T)
  PROVE  Reach(S) \subseteq Reach(T)
<1>1. Reach(T) \in SUBSET Entries /\ Closed(Reach(T))
  BY ReachIs
<1> QED BY <1>1, ReachIs

\* A visit takes its entry from what is reached; the rest stays.
LEMMA ReachOpened ==
  ASSUME present \in Trees, NEW S \in SUBSET Entries, NEW e \in S
  PROVE  Opened(S, e) \in SUBSET Entries /\ Reach(S) = {e} \cup Reach(Opened(S, e))
<1> DEFINE O == Opened(S, e)
<1>1. O \in SUBSET Entries /\ Heads(e) \subseteq O /\ S \subseteq {e} \cup O
  BY HeadsAre DEF Opened
<1>2. S \subseteq Reach(S) /\ Closed(Reach(S)) /\ Reach(S) \subseteq Entries
  BY ReachIs
<1>3. O \subseteq Reach(S)
  BY <1>2 DEF Opened, Closed
<1>4. O \subseteq Reach(O) /\ Closed(Reach(O)) /\ Reach(O) \subseteq Entries
  BY <1>1, ReachIs
<1> HIDE DEF O
<1>5. Reach(O) \subseteq Reach(S)
  BY <1>1, <1>3, ReachOfReached
<1> DEFINE T == {e} \cup Reach(O)
<1>6. T \in SUBSET Entries /\ S \subseteq T /\ Closed(T)
  BY <1>1, <1>4 DEF Closed
<1>7. Reach(S) \subseteq T
  <2> HIDE DEF T
  <2> QED BY <1>6, ReachIs
<1> QED BY <1>1, <1>2, <1>5, <1>7 DEF O

\* Visits keep what waits apart, and what a directory holds did not wait before.
LEMMA ApartOpened ==
  ASSUME present \in Trees, NEW S \in SUBSET Entries, Apart(S), NEW e \in S
  PROVE  Apart(Opened(S, e)) /\ Heads(e) \cap S = {}
<1> DEFINE O == Opened(S, e)
<1>1. O \in SUBSET Entries /\ O \subseteq Reach(O) /\ Closed(Reach(O))
  BY ReachOpened, ReachIs
<1>2. e \notin Reach(O)
  BY DEF Apart
<1>3. Heads(e) \subseteq O /\ S \ {e} \subseteq O
  BY DEF Opened
<1> HIDE DEF O
<1>4. e \notin Heads(e)
  BY <1>1, <1>2, <1>3
<1>5. ASSUME NEW x \in S, x # e
      PROVE  LET P == Opened(S, x)
             IN  /\ x \notin Reach(P) /\ P \in SUBSET Entries /\ P \subseteq Reach(P)
                 /\ Closed(Reach(P)) /\ e \in Reach(P) /\ Heads(e) \subseteq Reach(P)
  <2> DEFINE P == Opened(S, x)
  <2>1. P \in SUBSET Entries /\ P \subseteq Reach(P) /\ Closed(Reach(P))
    BY ReachOpened, ReachIs
  <2>2. x \notin Reach(P)
    BY DEF Apart
  <2>3. e \in P
    BY <1>5 DEF Opened
  <2> HIDE DEF P
  <2>4. e \in Reach(P) /\ Heads(e) \subseteq Reach(P)
    BY <2>1, <2>3 DEF Closed
  <2> QED BY <2>1, <2>2, <2>4 DEF P
<1>6. Heads(e) \cap S = {}
  <2> SUFFICES ASSUME NEW x \in S, x \in Heads(e) PROVE FALSE
    OBVIOUS
  <2>1. x # e
    BY <1>4
  <2> QED BY <1>5, <2>1
<1>7. ASSUME NEW x \in O PROVE x \notin Reach(Opened(O, x))
  <2> DEFINE Q == Opened(O, x)
  <2>1. Q \in SUBSET Entries /\ Q \subseteq Reach(Q) /\ Closed(Reach(Q)) /\ Reach(Q) \subseteq Entries
    BY <1>1, ReachOpened, ReachIs
  <2>2. CASE x \in S /\ x # e
    <3> DEFINE P == Opened(S, x)
    <3>1. /\ x \notin Reach(P) /\ P \in SUBSET Entries /\ P \subseteq Reach(P)
          /\ Heads(e) \subseteq Reach(P)
      BY <1>5, <2>2
    <3>2. Q \subseteq P \cup Heads(e)
      BY DEF Opened, O
    <3> HIDE DEF P, Q
    <3>3. Q \subseteq Reach(P)
      BY <3>1, <3>2
    <3>4. Reach(Q) \subseteq Reach(P)
      BY <2>1, <3>1, <3>3, ReachOfReached
    <3> QED BY <3>1, <3>4 DEF Q
  <2>3. CASE x \in Heads(e)
    <3> SUFFICES ASSUME x \in Reach(Q) PROVE FALSE
      BY DEF Q
    <3>1. x \notin S /\ x \in Reach(O) /\ Heads(x) \subseteq Reach(O)
      BY <1>1, <1>3, <1>6, <2>3 DEF Closed
    <3>2. Q \subseteq O \cup Heads(x) /\ (x \in Q => x \in Heads(x))
      BY DEF Opened
    <3> HIDE DEF Q
    <3>3. Reach(Q) \subseteq Reach(O)
      <4>1. Q \subseteq Reach(O)
        BY <1>1, <3>1, <3>2
      <4> QED BY <1>1, <2>1, <4>1, ReachOfReached
    <3>4. \E d \in Reach(Q) : x \in Heads(d)
      <4>1. x \in Q \/ \E d \in Reach(Q) : x \in Heads(d)
        BY <2>1, ReachIs
      <4> QED BY <3>2, <4>1
    <3>5. PICK d \in Reach(Q) : x \in Heads(d)
      BY <3>4
    <3>6. d \in Entries /\ x \in Children[d] /\ x \in Children[e]
      BY <2>1, <2>3, <3>5, HeadsAre
    <3>7. d = e
      BY <3>6, AnalyzeAssumption
    <3> QED BY <1>2, <3>3, <3>5, <3>7
  <2>4. x \in Heads(e) \/ (x \in S /\ x # e)
    BY DEF Opened, O
  <2> QED BY <2>2, <2>3, <2>4
<1> QED BY <1>6, <1>7 DEF Apart, O

\* The entries of a root are apart.
LEMMA RootApart ==
  ASSUME present \in Trees, NEW a \in Artifacts
  PROVE  Listing(Root[a]) \in SUBSET Entries /\ Apart(Listing(Root[a]))
<1> DEFINE r == Root[a]
           L == Listing(r)
<1>1. r \in Entries /\ \E S \in SUBSET (Entries \ {r}) :
                         Children[r] \subseteq S /\ \A d \in S : Children[d] \subseteq S
  BY AnalyzeAssumption
<1>2. L \in SUBSET Entries /\ L \subseteq Children[r]
  BY <1>1, HeadsAre DEF Listing
<1> HIDE DEF L, r
<1>3. r \notin Reach(L) /\ r \notin L
  <2>1. PICK S \in SUBSET (Entries \ {r}) :
               Children[r] \subseteq S /\ \A d \in S : Children[d] \subseteq S
    BY <1>1
  <2>2. Closed(S)
    BY <2>1, HeadsAre DEF Closed
  <2>3. L \subseteq S /\ S \in SUBSET Entries
    BY <1>2, <2>1
  <2>4. Reach(L) \subseteq S
    BY <1>2, <2>2, <2>3, ReachIs
  <2> QED BY <2>1, <2>3, <2>4
<1>4. ASSUME NEW x \in L, x \in Reach(Opened(L, x)) PROVE FALSE
  <2> DEFINE Q == Opened(L, x)
  <2>1. Q \in SUBSET Entries /\ Reach(Q) \subseteq Entries /\ Reach(Q) \subseteq Reach(L)
    BY <1>2, ReachOpened, ReachIs
  <2>2. x \in Q => x \in Heads(x)
    BY DEF Opened
  <2> HIDE DEF Q
  <2>3. x \in Q \/ \E d \in Reach(Q) : x \in Heads(d)
    BY <1>4, <2>1, ReachIs DEF Q
  <2>4. PICK d \in Reach(Q) : x \in Heads(d)
    BY <1>4, <2>2, <2>3 DEF Q
  <2>5. d \in Entries /\ x \in Children[d] /\ x \in Children[r]
    BY <1>2, <2>1, <2>4, HeadsAre
  <2>6. d = r
    BY <1>1, <2>5, AnalyzeAssumption
  <2> QED BY <1>3, <2>1, <2>4, <2>6
<1> QED BY <1>2, <1>4 DEF Apart, L, r

-----------------------------------------------------------------------------
\* As many goes down as there are entries reach them all.
LEMMA ReachedIs ==
  ASSUME present \in Trees, NEW a \in Artifacts
  PROVE  Reached(a) = Reach(Listing(Root[a]))
<1> DEFINE L == Listing(Root[a])
           N == Cardinality(Entries)
           Solves(g, n) == g = [i \in 0..n |-> IF i = 0 THEN L ELSE Deeper(g[i - 1])]
           G == {n \in Nat : \E g : Solves(g, n)}
<1>1. N \in Nat /\ IsFiniteSet(Entries)
  BY AnalyzeAssumption, FS_CardinalityType
<1>2. 0 \in G
  <2>1. Solves([i \in 0..0 |-> L], 0)
    OBVIOUS
  <2> HIDE DEF Solves
  <2> QED BY <2>1
<1>3. \A n \in Nat : n \in G => n + 1 \in G
  <2> SUFFICES ASSUME NEW n \in Nat, NEW f, Solves(f, n)
               PROVE  \E g : Solves(g, n + 1)
    <3> HIDE DEF Solves
    <3> QED OBVIOUS
  <2> DEFINE g == [i \in 0..(n + 1) |-> IF i \in 0..n THEN f[i] ELSE Deeper(f[n])]
  <2> HIDE DEF L
  <2>1. \A i \in 0..(n + 1) : g[i] = IF i = 0 THEN L ELSE Deeper(g[i - 1])
    <3> TAKE i \in 0..(n + 1)
    <3>1. CASE i = 0
      BY <3>1
    <3>2. CASE i \in 1..n
      <4>1. g[i] = f[i] /\ g[i - 1] = f[i - 1]
        BY <3>2
      <4>2. f[i] = Deeper(f[i - 1])
        BY <3>2
      <4> QED BY <3>2, <4>1, <4>2
    <3>3. CASE i = n + 1
      <4>1. g[i] = Deeper(f[n]) /\ g[i - 1] = f[n]
        BY <3>3
      <4> QED BY <3>3, <4>1
    <3> QED BY <3>1, <3>2, <3>3
  <2>2. DOMAIN g = 0..(n + 1) /\ g = [i \in 0..(n + 1) |-> g[i]]
    OBVIOUS
  <2>3. Solves(g, n + 1)
    <3> HIDE DEF g
    <3> QED BY <2>1, <2>2
  <2> HIDE DEF Solves, g
  <2> QED BY <2>3
<1>4. \E f : Solves(f, N)
  <2>1. N \in G
    <3> HIDE DEF G, N
    <3> QED BY <1>1, <1>2, <1>3, NatSetInduction
  <2> HIDE DEF Solves
  <2> QED BY <2>1
<1> DEFINE B == CHOOSE f : Solves(f, N)
<1>5. Solves(B, N)
  <2> HIDE DEF Solves
  <2> QED BY <1>4
<1>6. Reached(a) = B[N]
  BY DEF Reached
<1> HIDE DEF B
<1>7. B[0] = L /\ \A n \in 1..N : B[n] = Deeper(B[n - 1])
  <2> HIDE DEF L, N
  <2> QED BY <1>1, <1>5
<1> HIDE DEF Solves
<1>8. L \in SUBSET Entries /\ L \subseteq Reach(L) /\ Reach(L) \in SUBSET Entries /\ Closed(Reach(L))
  BY RootApart, ReachIs
<1> HIDE DEF L, N
<1>9. ASSUME NEW S \in SUBSET Reach(L)
      PROVE  /\ Deeper(S) \in SUBSET Reach(L) /\ S \subseteq Deeper(S)
             /\ Closed(S) => Deeper(S) = S
             /\ Deeper(S) = S => Closed(S)
  <2>1. \A d \in S : (Kind[d] = "dir" /\ ~Skipped(d) => Heads(d) = Listing(d))
                     /\ (~(Kind[d] = "dir" /\ ~Skipped(d)) => Heads(d) = {})
    BY DEF Heads
  <2>2. Deeper(S) = S \cup UNION {Heads(d) : d \in S}
    <3>1. UNION {Listing(d) : d \in {e \in S : Kind[e] = "dir" /\ ~Skipped(e)}}
            = UNION {Heads(d) : d \in S}
      BY <2>1
    <3> QED BY <3>1 DEF Deeper
  <2>3. \A d \in S : Heads(d) \subseteq Reach(L)
    BY <1>8 DEF Closed
  <2> QED BY <2>2, <2>3 DEF Closed
<1> DEFINE H == {n \in Nat : n <= N => /\ L \subseteq B[n] /\ B[n] \in SUBSET Reach(L)
                                       /\ Closed(B[n]) \/ Cardinality(B[n]) >= n}
<1>10. \A S \in SUBSET Entries : IsFiniteSet(S) /\ Cardinality(S) \in Nat
  BY <1>1, FS_Subset, FS_CardinalityType
<1>11. 0 \in H
  BY <1>7, <1>8, <1>10
<1>12. \A n \in Nat : n \in H => n + 1 \in H
  <2> SUFFICES ASSUME NEW n \in Nat, n \in H, n + 1 <= N
               PROVE  /\ L \subseteq B[n + 1] /\ B[n + 1] \in SUBSET Reach(L)
                      /\ Closed(B[n + 1]) \/ Cardinality(B[n + 1]) >= n + 1
    OBVIOUS
  <2>1. /\ L \subseteq B[n] /\ B[n] \in SUBSET Reach(L)
        /\ Closed(B[n]) \/ Cardinality(B[n]) >= n
    BY <1>1
  <2>2. B[n + 1] = Deeper(B[n])
    <3>1. n + 1 \in 1..N /\ (n + 1) - 1 = n
      BY <1>1
    <3> QED BY <1>7, <3>1
  <2> HIDE DEF H
  <2> DEFINE S == B[n]
             D == B[n + 1]
  <2>3. /\ D \in SUBSET Reach(L) /\ S \subseteq D
        /\ Closed(S) => D = S
        /\ D = S => Closed(S)
    BY <1>9, <2>1, <2>2
  <2>4. /\ S \in SUBSET Entries /\ D \in SUBSET Entries /\ IsFiniteSet(D)
        /\ Cardinality(S) \in Nat /\ Cardinality(D) \in Nat
    BY <1>8, <1>10, <2>1, <2>3
  <2> HIDE DEF S, D
  <2>5. CASE D = S
    BY <2>1, <2>3, <2>5 DEF S, D
  <2>6. CASE D # S
    <3>1. Cardinality(S) <= Cardinality(D) /\ Cardinality(S) # Cardinality(D)
      BY <2>3, <2>4, <2>6, FS_Subset
    <3>2. Cardinality(S) >= n
      BY <2>1, <2>3, <2>6 DEF S
    <3>3. Cardinality(D) >= n + 1
      BY <2>4, <3>1, <3>2
    <3> QED BY <2>1, <2>3, <3>3 DEF S, D
  <2> QED BY <2>5, <2>6
<1>13. N \in H
  <2> HIDE DEF H
  <2> QED BY <1>1, <1>11, <1>12, NatSetInduction
<1>14. B[N] = Reach(L)
  <2>1. /\ L \subseteq B[N] /\ B[N] \in SUBSET Reach(L)
        /\ Closed(B[N]) \/ Cardinality(B[N]) >= N
    BY <1>1, <1>13
  <2>2. Closed(B[N])
    <3>1. CASE ~(Cardinality(B[N]) >= N)
      BY <2>1, <3>1
    <3>2. CASE Cardinality(B[N]) >= N
      <4>1. B[N] \in SUBSET Entries /\ Cardinality(B[N]) \in Nat
        BY <1>8, <1>10, <2>1
      <4>2. Cardinality(B[N]) <= N
        BY <1>1, <4>1, FS_Subset DEF N
      <4>3. B[N] = Entries
        BY <1>1, <3>2, <4>1, <4>2, FS_Subset DEF N
      <4> QED BY <4>3, HeadsAre DEF Closed
    <3> QED BY <3>1, <3>2
  <2> QED BY <1>8, <2>1, <2>2, ReachIs
<1> QED BY <1>6, <1>14 DEF L

LEMMA SourcesReached ==
  ASSUME present \in Trees, NEW a \in Artifacts
  PROVE  Sources(a) = {e \in Reach(Listing(Root[a])) : Kind[e] = "rs" /\ ~Skipped(e)}
BY ReachedIs DEF Sources

-----------------------------------------------------------------------------
(***************************************************************************)
(* AnalyzeTree: the stack of the walk                                      *)
(***************************************************************************)

\* What waits on the stack, and that it waits in one directory only.
Spread(s) == UNION ToSet(s)
Levels(s) == \A i, j \in 1..Len(s) : i # j => s[i] \cap s[j] = {}

LEMMA SpreadIs ==
  ASSUME NEW s \in Seq(SUBSET Entries)
  PROVE  /\ Len(s) \in Nat /\ Spread(s) \in SUBSET Entries
         /\ \A i \in 1..Len(s) : s[i] \in SUBSET Entries /\ s[i] \subseteq Spread(s)
         /\ \A e : e \in Spread(s) <=> \E i \in 1..Len(s) : e \in s[i]
<1>1. /\ Len(s) \in Nat /\ DOMAIN s = 1..Len(s)
      /\ \A i \in 1..Len(s) : s[i] \in SUBSET Entries
  BY LenProperties, ElementOfSeq
<1>2. ToSet(s) = {s[i] : i \in 1..Len(s)}
  BY <1>1 DEF ToSet
<1>3. \A e : e \in Spread(s) <=> \E i \in 1..Len(s) : e \in s[i]
  BY <1>2 DEF Spread
<1> QED BY <1>1, <1>3

LEMMA SpreadOfNone == Spread(<<>>) = {} /\ Levels(<<>>)
BY DEF Spread, Levels, ToSet

\* Taking entry e from the innermost directory.
LEMMA SpreadWithout ==
  ASSUME stack \in Seq(SUBSET Entries), stack # <<>>, Levels(stack), NEW e \in Innermost
  PROVE  /\ Without(e) \in Seq(SUBSET Entries) /\ Levels(Without(e))
         /\ e \in Spread(stack) /\ Spread(Without(e)) = Spread(stack) \ {e}
<1> DEFINE s == stack
           n == Len(s)
           t == Without(e)
<1>1. /\ n \in Nat /\ n # 0 /\ s \in [1..n -> SUBSET Entries]
      /\ \A x : x \in Spread(s) <=> \E i \in 1..n : x \in s[i]
  BY SpreadIs, LenProperties, EmptySeq
<1>2. t = [s EXCEPT ![n] = s[n] \ {e}]
  BY DEF Without
<1>3. e \in s[n] /\ n \in 1..n
  BY <1>1 DEF Innermost
<1>4. \A i, j \in 1..n : i # j => s[i] \cap s[j] = {}
  BY DEF Levels
<1> HIDE DEF n, s, t
<1>5. /\ t \in [1..n -> SUBSET Entries] /\ t[n] = s[n] \ {e}
      /\ \A i \in 1..n : i # n => t[i] = s[i]
  BY <1>1, <1>2, <1>3
<1>6. t \in Seq(SUBSET Entries) /\ Len(t) = n
  <2>1. t \in Seq(SUBSET Entries)
    BY <1>1, <1>5, SeqDef
  <2> QED BY <1>1, <1>5, <2>1, LenProperties
<1>7. \A i \in 1..n : t[i] = s[i] \ {e}
  <2> TAKE i \in 1..n
  <2>1. CASE i = n
    BY <1>5, <2>1
  <2>2. CASE i # n
    <3>1. s[i] \cap s[n] = {}
      BY <1>3, <1>4, <2>2
    <3> QED BY <1>3, <1>5, <2>2, <3>1
  <2> QED BY <2>1, <2>2
<1>8. Levels(t)
  BY <1>4, <1>6, <1>7 DEF Levels
<1>9. \A x : x \in Spread(t) <=> \E i \in 1..n : x \in t[i]
  BY <1>6, SpreadIs
<1>10. Spread(t) = Spread(s) \ {e}
  BY <1>1, <1>7, <1>9
<1> QED BY <1>1, <1>3, <1>6, <1>8, <1>10 DEF s, t

\* Going down into a directory, and coming back up from one that is done with.
LEMMA SpreadDown ==
  ASSUME NEW s \in Seq(SUBSET Entries), Levels(s), NEW S \in SUBSET Entries, S \cap Spread(s) = {}
  PROVE  /\ Append(s, S) \in Seq(SUBSET Entries) /\ Levels(Append(s, S))
         /\ Spread(Append(s, S)) = Spread(s) \cup S
<1> DEFINE n == Len(s)
           t == Append(s, S)
<1>1. /\ n \in Nat /\ \A x : x \in Spread(s) <=> \E i \in 1..n : x \in s[i]
  BY SpreadIs
<1>2. /\ t \in Seq(SUBSET Entries) /\ Len(t) = n + 1 /\ t[n + 1] = S
      /\ \A i \in 1..n : t[i] = s[i]
  BY AppendProperties
<1>3. \A i, j \in 1..n : i # j => s[i] \cap s[j] = {}
  BY DEF Levels
<1>4. \A i \in 1..n : s[i] \cap S = {}
  BY SpreadIs
<1> HIDE DEF n, t
<1>5. \A i \in 1..(n + 1) : i \in 1..n \/ i = n + 1
  BY <1>1
<1>6. Levels(t)
  <2> SUFFICES ASSUME NEW i \in 1..(n + 1), NEW j \in 1..(n + 1), i # j PROVE t[i] \cap t[j] = {}
    BY <1>2 DEF Levels
  <2> QED BY <1>2, <1>3, <1>4, <1>5
<1>7. \A x : x \in Spread(t) <=> \E i \in 1..(n + 1) : x \in t[i]
  BY <1>2, SpreadIs
<1>8. Spread(t) = Spread(s) \cup S
  <2>1. \A x : (\E i \in 1..(n + 1) : x \in t[i]) <=> (\E i \in 1..n : x \in s[i]) \/ x \in S
    BY <1>1, <1>2, <1>5
  <2> QED BY <1>1, <1>7, <2>1
<1> QED BY <1>2, <1>6, <1>8 DEF t

LEMMA SpreadUp ==
  ASSUME stack \in Seq(SUBSET Entries), stack # <<>>, Levels(stack), Innermost = {}
  PROVE  /\ Front(stack) \in Seq(SUBSET Entries) /\ Levels(Front(stack))
         /\ Spread(Front(stack)) = Spread(stack)
<1> DEFINE s == stack
           n == Len(s)
           t == Front(s)
<1>1. /\ n \in Nat /\ n # 0
      /\ \A x : x \in Spread(s) <=> \E i \in 1..n : x \in s[i]
  BY SpreadIs, EmptySeq
<1>2. /\ t \in Seq(SUBSET Entries) /\ Len(t) = n - 1
      /\ \A i \in 1..(n - 1) : t[i] = s[i]
  <2>1. 1 \in Int /\ n - 1 \in Int /\ \A i \in 1..(n - 1) : s[i] \in SUBSET Entries
    BY <1>1, SpreadIs
  <2>2. t = SubSeq(s, 1, n - 1)
    BY DEF Front
  <2> HIDE DEF n, t, s
  <2>3. /\ t \in Seq(SUBSET Entries)
        /\ Len(t) = IF 1 <= n - 1 THEN (n - 1) - 1 + 1 ELSE 0
        /\ \A i \in 1..(n - 1) - 1 + 1 : t[i] = s[1 + i - 1]
    BY <2>1, <2>2, SubSeqProperties
  <2>4. Len(t) = n - 1
    BY <1>1, <2>3
  <2>5. \A i \in 1..(n - 1) : i \in 1..(n - 1) - 1 + 1 /\ 1 + i - 1 = i
    BY <1>1
  <2> QED BY <2>3, <2>4, <2>5
<1>3. \A i, j \in 1..n : i # j => s[i] \cap s[j] = {}
  BY DEF Levels
<1>4. s[n] = {}
  BY DEF Innermost
<1> HIDE DEF n, s, t
<1>5. \A i \in 1..n : i \in 1..(n - 1) \/ i = n
  BY <1>1
<1>6. \A i \in 1..(n - 1) : i \in 1..n
  BY <1>1
<1>7. Levels(t)
  BY <1>2, <1>3, <1>6 DEF Levels
<1>8. \A x : x \in Spread(t) <=> \E i \in 1..(n - 1) : x \in t[i]
  BY <1>2, SpreadIs
<1>9. \A x : x \in Spread(t) <=> x \in Spread(s)
  BY <1>1, <1>2, <1>4, <1>5, <1>6, <1>8
<1> QED BY <1>2, <1>7, <1>9 DEF s, t

-----------------------------------------------------------------------------
(***************************************************************************)
(* AnalyzeTree: what an artifact adds                                      *)
(***************************************************************************)
LEMMA MaxIs ==
  ASSUME NEW S \in SUBSET (-1..3), S # {}
  PROVE  Max(S) \in S /\ \A y \in S : Max(S) >= y
<1>1. \E x \in S : \A y \in S : x >= y
  <2>1. CASE 3 \in S
    BY <2>1
  <2>2. CASE 3 \notin S /\ 2 \in S
    BY <2>2
  <2>3. CASE 3 \notin S /\ 2 \notin S /\ 1 \in S
    BY <2>3
  <2>4. CASE 3 \notin S /\ 2 \notin S /\ 1 \notin S /\ 0 \in S
    BY <2>4
  <2>5. CASE S \subseteq {-1}
    <3>1. -1 \in S /\ \A y \in S : y = -1
      BY <2>5
    <3>2. \A y \in S : -1 >= y
      BY <3>1
    <3> QED BY <3>1, <3>2
  <2>6. \A x \in S : x = 3 \/ x = 2 \/ x = 1 \/ x = 0 \/ x = -1
    OBVIOUS
  <2> QED BY <2>1, <2>2, <2>3, <2>4, <2>5, <2>6
<1> QED BY <1>1 DEF Max

LEMMA WorstIs ==
  ASSUME NEW S \in SUBSET Findings
  PROVE  Worst(S) \in -1..3
<1> DEFINE G == {Grade[f.rule] : f \in S} \cup {-1}
<1>1. \A f \in S : f.rule \in Rules
  BY DEF Findings
<1>2. G \in SUBSET (-1..3) /\ G # {}
  BY <1>1, AnalyzeAssumption
<1> HIDE DEF G
<1>3. Max(G) \in -1..3
  BY <1>2, MaxIs
<1> QED BY <1>3 DEF Worst, G

LEMMA RaisedIs ==
  ASSUME exit \in 0..2, NEW c \in 0..2
  PROVE  Raised(c) = IF exit >= c THEN exit ELSE c
<1>1. {exit, c} \in SUBSET (-1..3) /\ {exit, c} # {}
  OBVIOUS
<1>2. Max({exit, c}) \in {exit, c} /\ \A y \in {exit, c} : Max({exit, c}) >= y
  BY <1>1, MaxIs
<1> QED BY <1>2 DEF Raised

\* Its findings are those expected, in order, each once.
LEMMA AllIsExpected ==
  ASSUME present \in Trees, NEW a \in Artifacts, NEW s \in Seq(Findings), IsInjective(s),
         ToSet(s) = UNION {Said(e) : e \in Sources(a)}
  PROVE  LET all == Sorted(Sorted(s) \o BinaryFindings(a))
         IN  /\ all \in Seq(Findings) /\ ToSet(all) = Expected(a)
             /\ \A i, j \in 1..Len(all) : i < j => Before(all[i], all[j])
<1> DEFINE b == BinaryFindings(a)
           t == Sorted(s)
           u == t \o b
           all == Sorted(u)
<1>1. t \in Seq(Findings) /\ ToSet(t) = ToSet(s) /\ IsInjective(t)
  BY SortedIs
<1>2. b \in Seq(Findings) /\ IsInjective(b) /\ \A f \in ToSet(b) : f.file = Wasm
  <2>1. CASE b = <<>>
    BY <2>1, EmptySeq DEF IsInjective, ToSet
  <2>2. CASE b # <<>>
    <3> DEFINE InWasm == [file : {Wasm}, line : Nat, rule : Rules]
    <3>1. b = Binary[a] /\ Binary[a] # Unread
      BY <2>2 DEF BinaryFindings
    <3>2. b \in Seq(InWasm) /\ IsInjective(b)
      <4>1. Binary[a] \in Seq([file : {Wasm}, line : Nat, rule : Rules]) /\ IsInjective(Binary[a])
        BY <3>1, AnalyzeAssumption
      <4> HIDE DEF b
      <4> QED BY <3>1, <4>1
    <3>3. InWasm \subseteq Findings /\ \A f \in InWasm : f.file = Wasm
      BY DEF Findings, Files
    <3> HIDE DEF b, InWasm
    <3>4. DOMAIN b = 1..Len(b) /\ Len(b) \in Nat /\ \A i \in 1..Len(b) : b[i] \in InWasm
      BY <3>2, LenProperties, ElementOfSeq
    <3>5. b \in [1..Len(b) -> Findings]
      BY <3>2, <3>3, <3>4, LenProperties
    <3>6. b \in Seq(Findings)
      BY <3>4, <3>5, SeqDef
    <3>7. \A f \in ToSet(b) : f \in InWasm
      BY <3>4 DEF ToSet
    <3> QED BY <3>2, <3>3, <3>6, <3>7
  <2> QED BY <2>1, <2>2
<1>3. \A e : \A f \in Said(e) : f.file = e
  BY DEF Said
<1>4. Sources(a) \subseteq Entries /\ Wasm \notin Entries
  BY SourcesReached, RootApart, ReachIs, AnalyzeAssumption
<1>5. ToSet(t) \cap ToSet(b) = {}
  BY <1>1, <1>2, <1>3, <1>4
<1>6. Expected(a) = ToSet(s) \cup ToSet(b)
  BY DEF Expected, Said
<1> HIDE DEF t, b
<1>7. u \in Seq(Findings) /\ ToSet(u) = ToSet(t) \cup ToSet(b) /\ IsInjective(u)
  BY <1>1, <1>2, <1>5, ConcatHolds
<1> HIDE DEF u
<1>8. /\ all \in Seq(Findings) /\ ToSet(all) = ToSet(u)
      /\ \A i, j \in 1..Len(all) : i < j => Before(all[i], all[j])
  BY <1>7, SortedIs
<1> HIDE DEF all
<1> QED BY <1>1, <1>6, <1>7, <1>8 DEF all, u, t, b

-----------------------------------------------------------------------------
(***************************************************************************)
(* AnalyzeTree: the invariant                                              *)
(***************************************************************************)

\* The artifacts passed so far, those of them that were analysed, and the exit
\* code that is theirs.
Gone == Len(Manifest) - Len(queue)
Judged == {Manifest[i] : i \in {j \in 1..Gone : Selected(Manifest[j])}}
Verdict(A) ==
  IF \E a \in A : Sources(a) = {} THEN 2
  ELSE IF \E a \in A : Gate(Expected(a)) THEN 1 ELSE 0

QueueIsTheRest ==
  Gone \in Nat /\ \A i \in 1..Len(queue) : queue[i] = Manifest[Gone + i]

EntriesFollow ==
  IF ~opts.seal THEN pending = <<>>
  ELSE IF opts.artifact = Default
       THEN Len(pending) = Gone /\ \A i \in 1..Gone : pending[i].id = Manifest[i]
  ELSE IF opts.artifact \in Judged THEN Len(pending) = 1 /\ pending[1].id = opts.artifact
  ELSE pending = <<>>

NoneSealedYet == pc # "done" => sealed = <<>> /\ exit = Verdict(Judged)

\* Half way through a tree: the sources visited are those the stack leads to no
\* more, and what is found is what they say.
Ahead == Reach(Spread(stack))
Visited == Sources(Head(queue)) \ Ahead
HalfWay ==
  pc = "walk" =>
    /\ queue # <<>> /\ Selected(Head(queue))
    /\ Levels(stack) /\ Apart(Spread(stack))
    /\ {e \in Ahead : Kind[e] = "rs" /\ ~Skipped(e)} \subseteq Sources(Head(queue))
    /\ walked <=> Visited # {}
    /\ ToSet(findings) = UNION {Said(e) : e \in Visited} /\ IsInjective(findings)

TreeInv ==
  TypeOK /\ SealsTheTree /\ QueueIsTheRest /\ EntriesFollow /\ NoneSealedYet /\ HalfWay

LEMMA Unmoved ==
  ASSUME opts' = opts, present' = present, NEW a
  PROVE  /\ Sources(a)' = Sources(a) /\ Expected(a)' = Expected(a) /\ Said(a)' = Said(a)
         /\ Reached(a)' = Reached(a) /\ Readable(a)' = Readable(a) /\ Legible(a)' = Legible(a)
         /\ Reach(a)' = Reach(a) /\ Apart(a)' = Apart(a) /\ Skipped(a)' = Skipped(a)
         /\ Selected(a)' = Selected(a) /\ Verdict(a)' = Verdict(a)
<1>1. Skipped(a)' = Skipped(a) /\ Selected(a)' = Selected(a)
  BY DEF Skipped, Selected
<1>2. \A S : Reach(S)' = Reach(S)
  BY DEF Reach, Closed, Heads, Skipped, Listing
<1>3. Apart(a)' = Apart(a)
  BY DEF Apart, Opened, Reach, Closed, Heads, Skipped, Listing
<1>4. Said(a)' = Said(a)
  BY DEF Said, Ignored
<1>8. \A b : Reached(b)' = Reached(b)
  BY DEF Reached, Deeper, Skipped, Listing
<1>5. \A b : Sources(b)' = Sources(b)
  BY <1>8 DEF Sources, Skipped
<1>6. \A b : Expected(b)' = Expected(b)
  BY <1>5 DEF Expected, Ignored, BinaryFindings
<1>9. \A b : Readable(b)' = Readable(b)
  BY DEF Readable
<1>10. Legible(a)' = Legible(a)
  BY <1>8, <1>9 DEF Legible, Skipped
<1>7. Verdict(a)' = Verdict(a)
  <2>1. \A S : Gate(S)' = Gate(S)
    BY DEF Gate
  <2> QED BY <1>5, <1>6, <2>1 DEF Verdict, Gate
<1> QED BY <1>1, <1>2, <1>3, <1>4, <1>5, <1>6, <1>7, <1>8, <1>9, <1>10

LEMMA SourcesAre ==
  ASSUME present \in Trees, NEW a \in Artifacts
  PROVE  /\ Sources(a) \in SUBSET Entries
         /\ \A e \in Sources(a) : Kind[e] = "rs" /\ ~Skipped(e)
BY SourcesReached, RootApart, ReachIs

LEMMA ManifestIs ==
  /\ Len(Manifest) \in Nat /\ Manifest \in Seq(Artifacts)
  /\ \A i \in 1..Len(Manifest) : Manifest[i] \in Artifacts
  /\ \A a \in Artifacts : \E i \in 1..Len(Manifest) : a = Manifest[i]
  /\ \A i, j \in 1..Len(Manifest) : Manifest[i] = Manifest[j] => i = j
<1>1. /\ Len(Manifest) \in Nat /\ DOMAIN Manifest = 1..Len(Manifest)
      /\ Manifest \in [1..Len(Manifest) -> STRING]
  BY AnalyzeAssumption, LenProperties
<1>2. /\ \A i \in 1..Len(Manifest) : Manifest[i] \in Artifacts
      /\ \A a \in Artifacts : \E i \in 1..Len(Manifest) : a = Manifest[i]
  BY <1>1 DEF Artifacts, ToSet
<1>3. \A i, j \in 1..Len(Manifest) : Manifest[i] = Manifest[j] => i = j
  BY <1>1, AnalyzeAssumption DEF IsInjective
<1>4. Manifest \in [1..Len(Manifest) -> Artifacts]
  BY <1>1, <1>2
<1> QED BY <1>1, <1>2, <1>3, <1>4, SeqDef

\* What is next in the queue, and what has passed when it has.
LEMMA PassedOne ==
  ASSUME queue \in Seq(Artifacts), QueueIsTheRest, queue # <<>>, queue' = Tail(queue),
         opts' = opts
  PROVE  /\ Head(queue) \in Artifacts /\ queue' \in Seq(Artifacts)
         /\ QueueIsTheRest' /\ Gone' = Gone + 1
         /\ Gone + 1 \in 1..Len(Manifest) /\ Head(queue) = Manifest[Gone + 1]
         /\ Judged' = Judged \cup (IF Selected(Head(queue)) THEN {Head(queue)} ELSE {})
         /\ Head(queue) \notin Judged /\ Judged \subseteq Artifacts
<1> DEFINE n == Len(queue)
           N == Len(Manifest)
           m == Gone
<1>1. /\ n \in Nat /\ n # 0 /\ N \in Nat /\ m = N - n /\ m \in Nat
      /\ Head(queue) = queue[1] /\ queue[1] \in Artifacts
      /\ \A i \in 1..n : queue[i] = Manifest[m + i]
  BY ManifestIs, LenProperties, EmptySeq, ElementOfSeq, HeadTailProperties DEF QueueIsTheRest, Gone
<1>2. /\ queue' \in Seq(Artifacts) /\ Len(queue') = n - 1
      /\ \A i \in 1..(n - 1) : queue'[i] = queue[i + 1]
  BY HeadTailProperties
<1>3. Gone' = N - Len(queue')
  BY DEF Gone
<1>4. \A i, j \in 1..N : Manifest[i] = Manifest[j] => i = j
  BY ManifestIs
<1>5. Judged = {Manifest[i] : i \in {j \in 1..m : Selected(Manifest[j])}}
  BY DEF Judged
<1>6. Judged' = {Manifest[i] : i \in {j \in 1..Gone' : Selected(Manifest[j])}}
  BY DEF Judged, Selected
<1>7. QueueIsTheRest' <=> /\ Gone' \in Nat
                          /\ \A i \in 1..Len(queue') : queue'[i] = Manifest[Gone' + i]
  BY DEF QueueIsTheRest
<1> HIDE DEF n, N, m
<1>8. Gone' = m + 1 /\ m + 1 \in 1..N /\ Head(queue) = Manifest[m + 1]
  BY <1>1, <1>2, <1>3
<1>9. QueueIsTheRest'
  <2>1. \A i \in 1..(n - 1) : i + 1 \in 1..n /\ m + (i + 1) = (m + 1) + i
    BY <1>1
  <2>2. \A i \in 1..(n - 1) : queue'[i] = Manifest[(m + 1) + i]
    BY <1>1, <1>2, <2>1
  <2>3. Gone' \in Nat
    BY <1>1, <1>8
  <2>4. \A i \in 1..Len(queue') : queue'[i] = Manifest[Gone' + i]
    BY <1>2, <1>8, <2>2
  <2> QED BY <1>7, <2>3, <2>4
<1>10. \A i \in 1..(m + 1) : i \in 1..m \/ i = m + 1
  BY <1>1
<1>11. Judged' = Judged \cup (IF Selected(Head(queue)) THEN {Head(queue)} ELSE {})
  <2>1. \A i : i \in 1..(m + 1) <=> i \in 1..m \/ i = m + 1
    BY <1>1, <1>10
  <2> QED BY <1>5, <1>6, <1>8, <2>1
<1>12. Judged \subseteq Artifacts /\ Head(queue) \notin Judged
  <2>1. \A i \in 1..m : i \in 1..N /\ i # m + 1
    BY <1>1, <1>8
  <2>2. \A i \in 1..m : Manifest[i] \in Artifacts
    BY <2>1, ManifestIs DEF N
  <2>3. \A i \in 1..m : Manifest[i] # Head(queue)
    BY <1>4, <1>8, <2>1
  <2> QED BY <1>5, <2>2, <2>3
<1> QED BY <1>1, <1>2, <1>8, <1>9, <1>11, <1>12 DEF m, N

-----------------------------------------------------------------------------
LEMMA TreeInit == Init => TreeInv
<1> SUFFICES ASSUME Init PROVE TreeInv
  OBVIOUS
<1> USE DEF Init
<1>1. TypeOK
  <2>1. <<>> \in Seq(SUBSET Entries) /\ <<>> \in Seq(Findings)
        /\ <<>> \in Seq([id : Artifacts, digest : Seq(Findings), worst : -1..3])
    BY EmptySeq
  <2>2. queue \in Seq(Artifacts)
    BY ManifestIs
  <2>3. sealed \in {<<>>, pending} /\ exit \in 0..2
    OBVIOUS
  <2>4. walked \in BOOLEAN
    BY Zenon
  <2>5. pc \in {"artifact", "walk", "done"}
    OBVIOUS
  <2> QED BY <2>1, <2>2, <2>3, <2>4, <2>5 DEF TypeOK
<1>2. SealsTheTree
  BY DEF SealsTheTree
<1>3. Gone = 0
  BY ManifestIs DEF Gone
<1>4. QueueIsTheRest
  BY <1>3 DEF QueueIsTheRest
<1>5. Judged = {}
  BY <1>3 DEF Judged
<1>6. EntriesFollow
  BY <1>3, <1>5 DEF EntriesFollow
<1>7. NoneSealedYet
  BY <1>5 DEF NoneSealedYet, Verdict
<1>8. HalfWay
  BY DEF HalfWay
<1> QED BY <1>1, <1>2, <1>4, <1>6, <1>7, <1>8 DEF TreeInv

LEMMA TreeArtifact ==
  ASSUME TreeInv, Artifact
  PROVE  TreeInv'
<1> DEFINE a == Head(queue)
<1>1. TypeOK /\ SealsTheTree /\ QueueIsTheRest /\ EntriesFollow /\ NoneSealedYet
  BY DEF TreeInv
<1>2. /\ pc = "artifact" /\ queue # <<>>
      /\ opts' = opts /\ present' = present /\ pending' = pending /\ sealed' = sealed
      /\ \/ /\ Selected(a) /\ queue' = queue /\ pc' = "walk" /\ exit' = exit
            /\ stack' = <<Listing(Root[a])>> /\ walked' = FALSE /\ findings' = <<>>
         \/ /\ Selected(a) /\ queue' = queue /\ pc' = "done" /\ exit' = 2
            /\ stack' = stack /\ walked' = walked /\ findings' = findings
         \/ /\ ~Selected(a) /\ queue' = Tail(queue) /\ pc' = pc /\ exit' = exit
            /\ stack' = stack /\ walked' = walked /\ findings' = findings
  BY DEF Artifact, Fail
<1>3. a \in Artifacts /\ present \in Trees /\ queue \in Seq(Artifacts)
  BY <1>1, <1>2, ElementOfSeq, HeadTailProperties DEF TypeOK
<1>4. Listing(Root[a]) \in SUBSET Entries /\ Apart(Listing(Root[a]))
  BY <1>3, RootApart
<1>5. SealsTheTree'
  BY <1>1, <1>2, Unmoved DEF SealsTheTree
<1> HIDE DEF a
<1>6. CASE Selected(a) /\ pc' = "walk"
  <2> DEFINE L == Listing(Root[a])
  <2>1. /\ queue' = queue /\ stack' = <<L>> /\ walked' = FALSE /\ findings' = <<>> /\ exit' = exit
    BY <1>2, <1>6
  <2>2. <<L>> \in Seq(SUBSET Entries) /\ Levels(<<L>>) /\ Spread(<<L>>) = L
    BY <1>4, SpreadIs DEF Levels, Spread, ToSet
  <2>3. TypeOK'
    BY <1>1, <1>2, <1>6, <2>1, <2>2, EmptySeq DEF TypeOK
  <2>4. Gone' = Gone /\ Judged' = Judged
    BY <1>2, <2>1 DEF Gone, Judged, Selected
  <2>5. QueueIsTheRest'
    BY <1>1, <2>1, <2>4 DEF QueueIsTheRest
  <2>6. EntriesFollow'
    BY <1>1, <1>2, <2>4 DEF EntriesFollow
  <2>7. NoneSealedYet'
    <3>1. Verdict(Judged)' = Verdict(Judged)
      BY <1>2, <2>4, Unmoved
    <3> QED BY <1>1, <1>2, <2>1, <2>4, <3>1 DEF NoneSealedYet
  <2>8. HalfWay'
    <3>1. /\ Ahead' = Reach(L) /\ Visited' = Sources(a) \ Reach(L)
      <4>1. Reach(Spread(stack))' = Reach(Spread(stack'))
        BY <1>2, Unmoved DEF Spread
      <4>2. Sources(Head(queue))' = Sources(a)
        BY <1>2, <2>1, Unmoved DEF a
      <4> QED BY <2>1, <2>2, <4>1, <4>2 DEF Ahead, Visited
    <3>2. Sources(a) = {e \in Reach(L) : Kind[e] = "rs" /\ ~Skipped(e)}
      BY <1>3, SourcesReached
    <3> HIDE DEF L
    <3>3. /\ queue' # <<>> /\ Selected(Head(queue))' /\ Levels(stack)' /\ Apart(Spread(stack))'
      <4>1. Apart(Spread(stack))' = Apart(Spread(stack'))
        BY <1>2, Unmoved DEF Spread
      <4> QED BY <1>2, <1>4, <1>6, <2>1, <2>2, <4>1, Unmoved DEF L, a, Levels
    <3>4. {e \in Ahead' : Kind[e] = "rs" /\ ~Skipped(e)'} \subseteq Sources(Head(queue))'
      BY <1>2, <2>1, <3>1, <3>2, Unmoved DEF a
    <3>5. Visited' = {}
      BY <3>1, <3>2
    <3>6. ToSet(<<>>) = {} /\ IsInjective(<<>>)
      BY DEF ToSet, IsInjective
    <3>7. UNION {Said(e)' : e \in Visited'} = {}
      BY <3>5
    <3> QED BY <2>1, <3>3, <3>4, <3>5, <3>6, <3>7 DEF HalfWay
  <2> QED BY <1>5, <2>3, <2>5, <2>6, <2>7, <2>8 DEF TreeInv
<1>7. CASE ~Selected(a) /\ pc' = pc
  <2>1. /\ queue' = Tail(queue) /\ stack' = stack /\ walked' = walked /\ findings' = findings
    BY <1>2, <1>7
  <2>2. /\ queue' \in Seq(Artifacts) /\ QueueIsTheRest' /\ Gone' = Gone + 1
        /\ Judged' = Judged /\ Gone + 1 \in 1..Len(Manifest) /\ a = Manifest[Gone + 1]
    BY <1>1, <1>2, <1>3, <1>7, <2>1, PassedOne DEF a
  <2>3. TypeOK'
    BY <1>1, <1>2, <1>7, <2>1, <2>2 DEF TypeOK
  <2>4. EntriesFollow'
    BY <1>1, <1>2, <1>7, <2>2 DEF EntriesFollow, Selected
  <2>5. NoneSealedYet'
    <3>1. Verdict(Judged)' = Verdict(Judged)
      BY <1>2, <2>2, Unmoved
    <3> QED BY <1>1, <1>2, <1>7, <2>2, <3>1 DEF NoneSealedYet
  <2>6. HalfWay'
    BY <1>2, <1>7 DEF HalfWay
  <2> QED BY <1>5, <2>2, <2>3, <2>4, <2>5, <2>6 DEF TreeInv
<1>8. CASE Selected(a) /\ pc' = "done" /\ exit' = 2
  <2>1. queue' = queue /\ stack' = stack /\ walked' = walked /\ findings' = findings
    BY <1>2, <1>8
  <2>2. Gone' = Gone /\ Judged' = Judged
    BY <1>2, <2>1 DEF Gone, Judged, Selected
  <2>3. TypeOK'
    BY <1>1, <1>2, <1>8, <2>1 DEF TypeOK
  <2>4. QueueIsTheRest' /\ EntriesFollow'
    BY <1>1, <1>2, <2>1, <2>2 DEF QueueIsTheRest, EntriesFollow
  <2>5. NoneSealedYet' /\ HalfWay'
    BY <1>8 DEF NoneSealedYet, HalfWay
  <2> QED BY <1>5, <2>3, <2>4, <2>5 DEF TreeInv
<1> QED BY <1>2, <1>6, <1>7, <1>8

-----------------------------------------------------------------------------
\* One entry more: what waits is what it opens, and a source file is visited.
LEMMA TreeVisit ==
  ASSUME TreeInv, pc = "walk", stack # <<>>, NEW e \in Innermost, Visit(e)
  PROVE  TreeInv'
<1> DEFINE a == Head(queue)
           W == Spread(stack)
           O == Opened(W, e)
           found == [id : Artifacts, digest : Seq(Findings), worst : -1..3]
<1>1. TypeOK /\ SealsTheTree /\ QueueIsTheRest /\ EntriesFollow /\ NoneSealedYet /\ HalfWay
  BY DEF TreeInv
<1>2. /\ opts' = opts /\ present' = present /\ queue' = queue
      /\ pending' = pending /\ sealed' = sealed
  BY DEF Visit
<1>3. /\ present \in Trees /\ queue \in Seq(Artifacts) /\ stack \in Seq(SUBSET Entries)
      /\ walked \in BOOLEAN /\ findings \in Seq(Findings) /\ exit \in 0..2
  BY <1>1 DEF TypeOK
<1>4. /\ queue # <<>> /\ Selected(a) /\ Levels(stack) /\ Apart(W)
      /\ {x \in Reach(W) : Kind[x] = "rs" /\ ~Skipped(x)} \subseteq Sources(a)
      /\ walked <=> Visited # {}
      /\ ToSet(findings) = UNION {Said(x) : x \in Visited} /\ IsInjective(findings)
      /\ Visited = Sources(a) \ Reach(W)
  BY <1>1 DEF HalfWay, Ahead, Visited
<1>5. /\ Without(e) \in Seq(SUBSET Entries) /\ Levels(Without(e))
      /\ e \in W /\ Spread(Without(e)) = W \ {e}
  BY <1>3, <1>4, SpreadWithout
<1>6. a \in Artifacts /\ W \in SUBSET Entries /\ e \in Entries
  BY <1>3, <1>4, <1>5, SpreadIs, ElementOfSeq, HeadTailProperties
<1>7. /\ O \in SUBSET Entries /\ Reach(W) = {e} \cup Reach(O) /\ e \notin Reach(O)
      /\ Apart(O) /\ Heads(e) \cap W = {} /\ Heads(e) \in SUBSET Entries
  BY <1>3, <1>4, <1>5, <1>6, ReachOpened, ApartOpened, HeadsAre DEF Apart
<1>8. SealsTheTree' /\ QueueIsTheRest' /\ EntriesFollow'
  <2>1. Gone' = Gone /\ Judged' = Judged
    BY <1>2 DEF Gone, Judged, Selected
  <2>2. SealsTheTree'
    BY <1>1, <1>2, Unmoved DEF SealsTheTree
  <2>3. QueueIsTheRest'
    BY <1>1, <1>2, <2>1 DEF QueueIsTheRest
  <2>4. EntriesFollow'
    BY <1>1, <1>2, <2>1 DEF EntriesFollow
  <2> QED BY <2>2, <2>3, <2>4
<1>9. NoneSealedYet /\ sealed = <<>> /\ exit = Verdict(Judged)
  BY <1>1 DEF NoneSealedYet
<1> HIDE DEF a, W
\* Where the visit does not fail.
<1>10. ASSUME pc' = pc, exit' = exit, stack' \in Seq(SUBSET Entries), Levels(stack'),
              Spread(stack') = O, walked' \in BOOLEAN, findings' \in Seq(Findings),
              NEW V, V = Sources(a) \ Reach(O), walked' <=> V # {},
              ToSet(findings') = UNION {Said(x) : x \in V}, IsInjective(findings')
       PROVE  TreeInv'
  <2> HIDE DEF O
  <2>1. TypeOK'
    BY <1>1, <1>2, <1>10 DEF TypeOK
  <2>2. NoneSealedYet'
    <3>1. Judged' = Judged
      BY <1>2 DEF Gone, Judged, Selected
    <3>2. Verdict(Judged)' = Verdict(Judged)
      BY <1>2, <3>1, Unmoved
    <3> QED BY <1>2, <1>9, <1>10, <3>1, <3>2 DEF NoneSealedYet
  <2>3. HalfWay'
    <3>1. Ahead' = Reach(O) /\ Visited' = V
      <4>1. Reach(Spread(stack))' = Reach(Spread(stack'))
        BY <1>2, Unmoved DEF Spread
      <4>2. Sources(Head(queue))' = Sources(a)
        BY <1>2, Unmoved DEF a
      <4> QED BY <1>10, <4>1, <4>2 DEF Ahead, Visited
    <3>2. /\ queue' # <<>> /\ Selected(Head(queue))' /\ Levels(stack)' /\ Apart(Spread(stack))'
      <4>1. Apart(Spread(stack))' = Apart(Spread(stack'))
        BY <1>2, Unmoved DEF Spread
      <4> QED BY <1>2, <1>4, <1>7, <1>10, <4>1, Unmoved DEF a, Levels
    <3>3. {x \in Ahead' : Kind[x] = "rs" /\ ~Skipped(x)'} \subseteq Sources(Head(queue))'
      <4>1. {x \in Reach(O) : Kind[x] = "rs" /\ ~Skipped(x)} \subseteq Sources(a)
        BY <1>4, <1>7
      <4> QED BY <1>2, <3>1, <4>1, Unmoved DEF a
    <3>4. ToSet(findings') = UNION {Said(x)' : x \in Visited'}
      BY <1>2, <1>10, <3>1, Unmoved
    <3> QED BY <1>10, <3>1, <3>2, <3>3, <3>4 DEF HalfWay
  <2> QED BY <1>8, <2>1, <2>2, <2>3 DEF TreeInv
<1>11. Sources(a) \in SUBSET Entries /\ \A x \in Sources(a) : Kind[x] = "rs" /\ ~Skipped(x)
  BY <1>3, <1>6, SourcesAre
<1>12. ~(Kind[e] = "rs" /\ ~Skipped(e)) => Sources(a) \ Reach(O) = Visited
  BY <1>4, <1>7, <1>11
<1>13. ~(Kind[e] = "dir" /\ ~Skipped(e)) => O = W \ {e}
  BY DEF Opened, Heads
<1>14. CASE (Skipped(e) \/ Kind[e] = "other") /\ stack' = Without(e)
            /\ walked' = walked /\ findings' = findings /\ pc' = pc /\ exit' = exit
  <2>1. Sources(a) \ Reach(O) = Visited /\ O = W \ {e}
    BY <1>12, <1>13, <1>14
  <2> HIDE DEF O
  <2> QED BY <1>3, <1>4, <1>5, <1>10, <1>14, <2>1
<1>15. CASE ~Skipped(e) /\ Kind[e] = "dir" /\ stack' = Append(Without(e), Listing(e))
            /\ walked' = walked /\ findings' = findings /\ pc' = pc /\ exit' = exit
  <2>1. Sources(a) \ Reach(O) = Visited /\ Heads(e) = Listing(e) /\ O = (W \ {e}) \cup Listing(e)
    BY <1>12, <1>15 DEF Heads, Opened
  <2> HIDE DEF O
  <2>2. Listing(e) \in SUBSET Entries /\ Listing(e) \cap (W \ {e}) = {}
    BY <1>7, <2>1
  <2>3. /\ stack' \in Seq(SUBSET Entries) /\ Levels(stack')
        /\ Spread(stack') = (W \ {e}) \cup Listing(e)
    BY <1>5, <1>15, <2>2, SpreadDown
  <2> QED BY <1>3, <1>4, <1>10, <1>15, <2>1, <2>3
<1>16. CASE ~Skipped(e) /\ Kind[e] = "rs" /\ stack' = Without(e)
            /\ walked' = TRUE /\ findings' = AnalyzeFile(e) /\ pc' = pc /\ exit' = exit
  <2> DEFINE V == Sources(a) \ Reach(O)
             more == In(e, Kept(e))
  <2>1. V = Visited \cup {e} /\ e \notin Visited /\ O = W \ {e}
    <3>1. e \in Sources(a)
      BY <1>4, <1>7, <1>16
    <3> QED BY <1>4, <1>7, <1>13, <1>16, <3>1
  <2> HIDE DEF O, V
  <2>2. more \in Seq(Findings) /\ IsInjective(more) /\ ToSet(more) = Said(e)
    BY <1>6, <1>16, InIs
  <2>3. \A x : \A f \in Said(x) : f.file = x
    BY DEF Said
  <2>4. ToSet(findings) \cap ToSet(more) = {}
    BY <1>4, <2>1, <2>2, <2>3
  <2>5. findings' = findings \o more
    BY <1>16 DEF AnalyzeFile
  <2> HIDE DEF more
  <2>6. /\ findings' \in Seq(Findings) /\ IsInjective(findings')
        /\ ToSet(findings') = ToSet(findings) \cup Said(e)
    BY <1>3, <1>4, <2>2, <2>4, <2>5, ConcatHolds
  <2>7. ToSet(findings') = UNION {Said(x) : x \in V}
    BY <1>4, <2>1, <2>6
  <2> QED BY <1>5, <1>10, <1>16, <2>1, <2>6, <2>7 DEF V
<1>17. CASE /\ pc' = "done" /\ exit' = 2 /\ findings' = findings
            /\ stack' \in {stack, Without(e)} /\ walked' \in {walked, TRUE}
  <2>1. TypeOK'
    <3>1. stack' \in Seq(SUBSET Entries)
      BY <1>3, <1>5, <1>17
    <3>2. walked' \in BOOLEAN
      BY <1>3, <1>17, Zenon
    <3> QED BY <1>1, <1>2, <1>17, <3>1, <3>2 DEF TypeOK
  <2>2. NoneSealedYet' /\ HalfWay'
    BY <1>17 DEF NoneSealedYet, HalfWay
  <2> QED BY <1>8, <2>1, <2>2 DEF TreeInv
<1> QED BY <1>14, <1>15, <1>16, <1>17 DEF Visit, Fail

LEMMA TreeWalk ==
  ASSUME TreeInv, Walk
  PROVE  TreeInv'
<1> DEFINE a == Head(queue)
<1>1. CASE \E e \in Innermost : Visit(e)
  BY <1>1, TreeVisit DEF Walk
<1>2. CASE Innermost = {} /\ stack' = Front(stack)
           /\ UNCHANGED <<opts, present, pc, queue, walked, findings, pending, sealed, exit>>
  <2>1. TypeOK /\ SealsTheTree /\ QueueIsTheRest /\ EntriesFollow /\ NoneSealedYet /\ HalfWay
    BY DEF TreeInv
  <2>2. /\ pc = "walk" /\ stack # <<>> /\ stack \in Seq(SUBSET Entries)
        /\ opts' = opts /\ present' = present /\ pc' = pc /\ queue' = queue /\ walked' = walked
        /\ findings' = findings /\ pending' = pending /\ sealed' = sealed /\ exit' = exit
    BY <1>2, <2>1 DEF Walk, TypeOK
  <2>3. Levels(stack)
    BY <2>1, <2>2 DEF HalfWay
  <2>4. /\ stack' \in Seq(SUBSET Entries) /\ Levels(stack') /\ Spread(stack') = Spread(stack)
    BY <1>2, <2>2, <2>3, SpreadUp
  <2>5. TypeOK'
    BY <2>1, <2>2, <2>4 DEF TypeOK
  <2>6. Gone' = Gone /\ Judged' = Judged
    BY <2>2 DEF Gone, Judged, Selected
  <2>7. SealsTheTree' /\ QueueIsTheRest' /\ EntriesFollow'
    <3>1. SealsTheTree'
      BY <2>1, <2>2, Unmoved DEF SealsTheTree
    <3>2. QueueIsTheRest'
      BY <2>1, <2>2, <2>6 DEF QueueIsTheRest
    <3>3. EntriesFollow'
      BY <2>1, <2>2, <2>6 DEF EntriesFollow
    <3> QED BY <3>1, <3>2, <3>3
  <2>8. NoneSealedYet'
    <3>1. Verdict(Judged)' = Verdict(Judged)
      BY <2>2, <2>6, Unmoved
    <3> QED BY <2>1, <2>2, <2>6, <3>1 DEF NoneSealedYet
  <2>9. HalfWay'
    <3>1. /\ Reach(Spread(stack))' = Reach(Spread(stack)) /\ Apart(Spread(stack))' = Apart(Spread(stack))
      <4>1. Reach(Spread(stack))' = Reach(Spread(stack')) /\ Apart(Spread(stack))' = Apart(Spread(stack'))
        BY <2>2, Unmoved DEF Spread
      <4> QED BY <2>4, <4>1
    <3>2. Sources(Head(queue))' = Sources(a) /\ Selected(Head(queue))' = Selected(a)
      BY <2>2, Unmoved
    <3>3. Ahead' = Ahead /\ Visited' = Visited
      BY <3>1, <3>2 DEF Ahead, Visited
    <3>4. /\ queue # <<>> /\ Selected(a) /\ Apart(Spread(stack))
          /\ {x \in Ahead : Kind[x] = "rs" /\ ~Skipped(x)} \subseteq Sources(a)
          /\ walked <=> Visited # {}
          /\ ToSet(findings) = UNION {Said(x) : x \in Visited} /\ IsInjective(findings)
      BY <2>1, <2>2 DEF HalfWay
    <3>5. /\ {x \in Ahead' : Kind[x] = "rs" /\ ~Skipped(x)'} \subseteq Sources(Head(queue))'
          /\ ToSet(findings') = UNION {Said(x)' : x \in Visited'}
      BY <2>2, <3>2, <3>3, <3>4, Unmoved
    <3>6. Levels(stack)'
      BY <2>4 DEF Levels
    <3> HIDE DEF a
    <3>7. queue' # <<>> /\ Selected(Head(queue))' /\ Apart(Spread(stack))' 
      BY <2>2, <3>1, <3>2, <3>4
    <3>8. (walked <=> Visited # {})' /\ IsInjective(findings)'
      BY <2>2, <3>3, <3>4
    <3> QED BY <3>5, <3>6, <3>7, <3>8 DEF HalfWay
  <2> QED BY <2>5, <2>7, <2>8, <2>9 DEF TreeInv
<1> QED BY <1>1, <1>2 DEF Walk

-----------------------------------------------------------------------------
\* The verdict of one artifact more is the worse of the two.
LEMMA VerdictRises ==
  ASSUME exit \in 0..2, NEW A, exit = Verdict(A), NEW a
  PROVE  Verdict(A \cup {a}) = IF Sources(a) = {} THEN Raised(2)
                               ELSE IF Gate(Expected(a)) THEN Raised(1) ELSE exit
<1>1. Raised(2) = 2 /\ Raised(1) = IF exit >= 1 THEN exit ELSE 1
  BY RaisedIs
<1>2. /\ (\E b \in A \cup {a} : Sources(b) = {}) <=> (\E b \in A : Sources(b) = {}) \/ Sources(a) = {}
      /\ (\E b \in A \cup {a} : Gate(Expected(b))) <=>
           (\E b \in A : Gate(Expected(b))) \/ Gate(Expected(a))
  OBVIOUS
<1> QED BY <1>1, <1>2 DEF Verdict

LEMMA TreeArtifactDone ==
  ASSUME TreeInv, ArtifactDone
  PROVE  TreeInv'
<1> DEFINE a == Head(queue)
           all == Sorted(Sorted(findings) \o BinaryFindings(a))
           entry == Sealable(a, all)
           Entry == [id : Artifacts, digest : Seq(Findings), worst : -1..3]
<1>1. TypeOK /\ SealsTheTree /\ QueueIsTheRest /\ EntriesFollow /\ NoneSealedYet /\ HalfWay
  BY DEF TreeInv
<1>2. /\ pc = "walk" /\ stack = <<>> /\ findings' = all
      /\ pending' = IF opts.seal THEN Append(pending, entry) ELSE pending
      /\ exit' = IF ~walked THEN Raised(2) ELSE IF Gate(ToSet(all)) THEN Raised(1) ELSE exit
      /\ queue' = Tail(queue) /\ pc' = "artifact"
      /\ opts' = opts /\ present' = present /\ stack' = stack /\ walked' = walked /\ sealed' = sealed
  BY DEF ArtifactDone
<1>3. /\ present \in Trees /\ queue \in Seq(Artifacts) /\ walked \in BOOLEAN
      /\ findings \in Seq(Findings) /\ exit \in 0..2 /\ pending \in Seq(Entry)
  BY <1>1 DEF TypeOK
<1>4. /\ queue # <<>> /\ Selected(a)
      /\ walked <=> Visited # {}
      /\ ToSet(findings) = UNION {Said(x) : x \in Visited} /\ IsInjective(findings)
      /\ Visited = Sources(a) \ Reach(Spread(stack))
  BY <1>1, <1>2 DEF HalfWay, Ahead, Visited
<1>5. sealed = <<>> /\ exit = Verdict(Judged)
  BY <1>1, <1>2 DEF NoneSealedYet
<1>13. queue # <<>> /\ Selected(a)
  BY <1>4
<1> HIDE DEF all, entry
<1>6. /\ a \in Artifacts /\ queue' \in Seq(Artifacts)
      /\ QueueIsTheRest' /\ Gone' = Gone + 1
      /\ Gone + 1 \in 1..Len(Manifest) /\ a = Manifest[Gone + 1]
      /\ Judged' = Judged \cup {a}
      /\ a \notin Judged /\ Judged \subseteq Artifacts
  <2>1. queue' = Tail(queue) /\ opts' = opts /\ queue \in Seq(Artifacts) /\ QueueIsTheRest
    BY <1>1, <1>2, <1>3
  <2> QED BY <1>13, <2>1, PassedOne
<1>7. Visited = Sources(a)
  <2>1. Reach({}) = {}
    BY <1>3, ReachIs DEF Closed
  <2> QED BY <1>2, <1>4, <2>1, SpreadOfNone
<1>8. /\ all \in Seq(Findings) /\ ToSet(all) = Expected(a)
      /\ \A i, j \in 1..Len(all) : i < j => Before(all[i], all[j])
  BY <1>3, <1>4, <1>6, <1>7, AllIsExpected DEF all
<1>9. entry \in Entry /\ entry.id = a /\ entry.digest = all /\ entry.worst = Worst(Expected(a))
  <2> HIDE DEF a
  <2>1. entry = [id |-> a, digest |-> all, worst |-> Worst(ToSet(all))]
    BY DEF Sealable, entry
  <2>2. ToSet(all) \in SUBSET Findings
    <3>1. DOMAIN all = 1..Len(all) /\ \A i \in 1..Len(all) : all[i] \in Findings
      BY <1>8, LenProperties, ElementOfSeq
    <3> QED BY <3>1 DEF ToSet
  <2>3. Worst(ToSet(all)) \in -1..3
    BY <2>2, WorstIs
  <2> QED BY <1>6, <1>8, <2>1, <2>3
<1> DEFINE n == Len(pending)
<1>10. ASSUME opts.seal PROVE pending' \in Seq(Entry) /\ SealsTheTree' /\ EntriesFollow'
  <2> HIDE DEF Entry
  <2>1. pending' = Append(pending, entry)
    BY <1>2, <1>10
  <2>2. /\ pending' \in Seq(Entry) /\ n \in Nat /\ Len(pending') = n + 1
        /\ \A i \in 1..n : pending'[i] = pending[i]
        /\ pending'[n + 1] = entry
    BY <1>3, <1>9, <2>1, AppendProperties, LenProperties
  <2>3. SealsTheTree'
    <3> HIDE DEF n, a
    <3>1. \A i \in 1..(n + 1) : i \in 1..n \/ i = n + 1
      BY <2>2
    <3>2. \A i \in 1..n :
            /\ ToSet(pending[i].digest) = Expected(pending[i].id)
            /\ \A k, l \in 1..Len(pending[i].digest) :
                 k < l => Before(pending[i].digest[k], pending[i].digest[l])
            /\ pending[i].worst = Worst(Expected(pending[i].id))
      BY <1>1 DEF SealsTheTree, n
    <3>3. \A i \in 1..(n + 1) :
            /\ ToSet(pending'[i].digest) = Expected(pending'[i].id)
            /\ \A k, l \in 1..Len(pending'[i].digest) :
                 k < l => Before(pending'[i].digest[k], pending'[i].digest[l])
            /\ pending'[i].worst = Worst(Expected(pending'[i].id))
      BY <1>8, <1>9, <2>2, <3>1, <3>2
    <3> QED BY <1>2, <2>2, <3>3, Unmoved DEF SealsTheTree
  <2>4. EntriesFollow'
    <3> HIDE DEF n, a
    <3>1. CASE opts.artifact = Default
      <4>1. n = Gone /\ \A i \in 1..Gone : pending[i].id = Manifest[i]
        BY <1>1, <1>10, <3>1 DEF EntriesFollow, n
      <4>2. \A i \in 1..(n + 1) : i \in 1..n \/ i = n + 1
        BY <2>2
      <4>3. \A i \in 1..(n + 1) : pending'[i].id = Manifest[i]
        BY <1>6, <1>9, <2>2, <4>1, <4>2
      <4> QED BY <1>2, <1>6, <1>10, <2>2, <3>1, <4>1, <4>3 DEF EntriesFollow
    <3>2. CASE opts.artifact # Default
      <4>1. opts.artifact = a
        BY <1>13, <3>2 DEF Selected
      <4>2. pending = <<>>
        BY <1>1, <1>6, <1>10, <3>2, <4>1 DEF EntriesFollow
      <4>3. n = 0
        BY <4>2 DEF n
      <4>4. opts'.artifact \in Judged' /\ Len(pending') = 1 /\ pending'[1].id = a
        BY <1>2, <1>6, <1>9, <2>2, <4>1, <4>3
      <4> QED BY <1>2, <1>10, <3>2, <4>1, <4>4 DEF EntriesFollow
    <3> QED BY <3>1, <3>2
  <2> QED BY <2>2, <2>3, <2>4
<1>11. ASSUME ~opts.seal PROVE pending' \in Seq(Entry) /\ SealsTheTree' /\ EntriesFollow'
  <2>1. pending' = pending
    BY <1>2, <1>11
  <2>2. SealsTheTree'
    BY <1>1, <1>2, <2>1, Unmoved DEF SealsTheTree
  <2>3. EntriesFollow'
    BY <1>1, <1>2, <1>11, <2>1 DEF EntriesFollow
  <2> QED BY <1>3, <2>1, <2>2, <2>3
<1>12. pending' \in Seq(Entry) /\ SealsTheTree' /\ EntriesFollow'
  BY <1>10, <1>11
<1>14. exit' = Verdict(Judged') /\ exit' \in 0..2
  <2>1. walked <=> Sources(a) # {}
    BY <1>4, <1>7
  <2>2. exit' = IF Sources(a) = {} THEN Raised(2)
                ELSE IF Gate(Expected(a)) THEN Raised(1) ELSE exit
    BY <1>2, <1>8, <2>1
  <2> HIDE DEF a
  <2>3. exit' = Verdict(Judged \cup {a})
    BY <1>3, <1>5, <2>2, VerdictRises
  <2>4. exit' \in 0..2
    BY <1>3, <2>2, RaisedIs
  <2> QED BY <1>6, <2>3, <2>4
<1>15. TypeOK'
  <2>1. findings' \in Seq(Findings)
    BY <1>2, <1>8
  <2> HIDE DEF a, n
  <2> QED BY <1>1, <1>2, <1>5, <1>6, <1>12, <1>14, <2>1 DEF TypeOK
<1>16. NoneSealedYet'
  <2>1. Verdict(Judged)' = Verdict(Judged')
    BY <1>2, Unmoved
  <2> QED BY <1>2, <1>5, <1>14, <2>1 DEF NoneSealedYet
<1>17. HalfWay'
  BY <1>2 DEF HalfWay
<1> QED BY <1>6, <1>12, <1>15, <1>16, <1>17 DEF TreeInv

LEMMA TreeFinish ==
  ASSUME TreeInv, Finish
  PROVE  TreeInv'
<1>1. TypeOK /\ SealsTheTree /\ QueueIsTheRest /\ EntriesFollow
  BY DEF TreeInv
<1>2. /\ opts' = opts /\ present' = present /\ queue' = queue /\ stack' = stack /\ walked' = walked
      /\ findings' = findings /\ pending' = pending /\ pc' = "done"
      /\ exit' \in {exit, 2} /\ sealed' \in {sealed, pending}
  BY DEF Finish, Fail
<1>3. TypeOK'
  BY <1>1, <1>2 DEF TypeOK
<1>4. Gone' = Gone /\ Judged' = Judged
  BY <1>2 DEF Gone, Judged, Selected
<1>5. SealsTheTree'
  BY <1>1, <1>2, Unmoved DEF SealsTheTree
<1>6. QueueIsTheRest' /\ EntriesFollow'
  BY <1>1, <1>2, <1>4 DEF QueueIsTheRest, EntriesFollow
<1>7. NoneSealedYet' /\ HalfWay'
  BY <1>2 DEF NoneSealedYet, HalfWay
<1> QED BY <1>3, <1>5, <1>6, <1>7 DEF TreeInv

LEMMA TreeStutter ==
  ASSUME TreeInv, UNCHANGED vars
  PROVE  TreeInv'
<1>1. TypeOK /\ SealsTheTree /\ QueueIsTheRest /\ EntriesFollow /\ NoneSealedYet /\ HalfWay
  BY DEF TreeInv
<1>2. /\ opts' = opts /\ present' = present /\ queue' = queue /\ stack' = stack /\ walked' = walked
      /\ findings' = findings /\ pending' = pending /\ pc' = pc /\ exit' = exit /\ sealed' = sealed
  BY DEF vars
<1>3. TypeOK'
  BY <1>1, <1>2 DEF TypeOK
<1>4. Gone' = Gone /\ Judged' = Judged
  BY <1>2 DEF Gone, Judged, Selected
<1>5. SealsTheTree'
  BY <1>1, <1>2, Unmoved DEF SealsTheTree
<1>6. QueueIsTheRest' /\ EntriesFollow'
  BY <1>1, <1>2, <1>4 DEF QueueIsTheRest, EntriesFollow
<1>7. NoneSealedYet'
  BY <1>1, <1>2, <1>4, Unmoved DEF NoneSealedYet
<1>8. HalfWay'
  <2>1. Ahead' = Ahead /\ Visited' = Visited
    BY <1>2, Unmoved DEF Ahead, Visited, Spread
  <2>2. Apart(Spread(stack))' = Apart(Spread(stack)) /\ Levels(stack)' = Levels(stack)
    BY <1>2, Unmoved DEF Spread, Levels
  <2>3. /\ Sources(Head(queue))' = Sources(Head(queue))
        /\ Selected(Head(queue))' = Selected(Head(queue))
    BY <1>2, Unmoved
  <2>4. /\ {x \in Ahead' : Kind[x] = "rs" /\ ~Skipped(x)'}
             = {x \in Ahead : Kind[x] = "rs" /\ ~Skipped(x)}
        /\ UNION {Said(x)' : x \in Visited'} = UNION {Said(x) : x \in Visited}
    BY <1>2, <2>1, Unmoved
  <2> QED BY <1>1, <1>2, <2>1, <2>2, <2>3, <2>4 DEF HalfWay
<1> QED BY <1>3, <1>5, <1>6, <1>7, <1>8 DEF TreeInv

-----------------------------------------------------------------------------
LEMMA TreeInvariant == Spec => []TreeInv
<1>1. Init => TreeInv
  BY TreeInit
<1>2. TreeInv /\ [Next]_vars => TreeInv'
  BY TreeArtifact, TreeWalk, TreeArtifactDone, TreeFinish, TreeStutter DEF Next
<1> QED BY <1>1, <1>2, PTL DEF Spec

\* When the queue is empty, the artifacts judged are those chosen.
LEMMA JudgedAreChosen ==
  ASSUME TreeInv, queue = <<>>
  PROVE  /\ ToSet(Chosen) = Judged
         /\ opts.seal => [n \in 1..Len(pending) |-> pending[n].id] = Chosen
<1>1. Gone = Len(Manifest)
  BY ManifestIs DEF Gone
<1>2. EntriesFollow
  BY DEF TreeInv
<1>3. \A a : a \in Judged <=> a \in Artifacts /\ Selected(a)
  BY <1>1, ManifestIs DEF Judged
<1>4. CASE opts.artifact = Default
  <2>1. Chosen = Manifest
    BY <1>4 DEF Chosen
  <2>2. ToSet(Manifest) = Judged
    <3>1. \A a : a \in Judged <=> a \in Artifacts
      BY <1>3, <1>4 DEF Selected
    <3> QED BY <3>1 DEF Artifacts
  <2>3. ASSUME opts.seal PROVE [n \in 1..Len(pending) |-> pending[n].id] = Manifest
    <3>1. Len(pending) = Len(Manifest) /\ \A i \in 1..Len(Manifest) : pending[i].id = Manifest[i]
      BY <1>1, <1>2, <1>4, <2>3 DEF EntriesFollow
    <3>2. Manifest = [i \in 1..Len(Manifest) |-> Manifest[i]]
      BY ManifestIs, LenProperties
    <3> QED BY <3>1, <3>2
  <2> QED BY <2>1, <2>2, <2>3
<1>5. CASE opts.artifact # Default /\ opts.artifact \in Artifacts
  <2>1. Chosen = <<opts.artifact>> /\ ToSet(Chosen) = {opts.artifact}
    BY <1>5 DEF Chosen, ToSet
  <2>2. Judged = {opts.artifact}
    BY <1>3, <1>5 DEF Selected
  <2>3. opts.seal => Len(pending) = 1 /\ pending[1].id = opts.artifact
    BY <1>2, <1>5, <2>2 DEF EntriesFollow
  <2> QED BY <2>1, <2>2, <2>3
<1>6. CASE opts.artifact # Default /\ opts.artifact \notin Artifacts
  <2>1. Chosen = <<>> /\ ToSet(Chosen) = {}
    BY <1>6 DEF Chosen, ToSet
  <2>2. Judged = {}
    BY <1>3, <1>6 DEF Selected
  <2>3. opts.seal => pending = <<>>
    BY <1>2, <1>6, <2>2 DEF EntriesFollow
  <2> QED BY <2>1, <2>2, <2>3
<1> QED BY <1>4, <1>5, <1>6

\* Whatever order the directories are read in, what is sealed of an artifact is what
\* its sources and its binary say, in order, each finding once, and the exit code is
\* that of the worst artifact (analyze.rs:302-346, 424-426, 457-462, main.rs:723-742).
THEOREM AnalysisIsCorrect == Spec => []AnalysisCorrect
<1>1. TreeInv => AnalysisCorrect
  <2> SUFFICES ASSUME TreeInv PROVE AnalysisCorrect
    OBVIOUS
  <2>1. TypeOK /\ SealsTheTree /\ NoneSealedYet
    BY DEF TreeInv
  <2>2. WorstArtifactDecides
    <3> SUFFICES ASSUME pc = "artifact", queue = <<>>
                 PROVE  exit = Verdict(ToSet(Chosen))
      BY DEF WorstArtifactDecides, Verdict
    <3> QED BY <2>1, JudgedAreChosen DEF NoneSealedYet
  <2> QED BY <2>1, <2>2 DEF AnalysisCorrect
<1> QED BY <1>1, TreeInvariant, PTL

\* The record gets the entries of all the artifacts chosen, in the manifest's order,
\* in the last step of a run that does not fail, or none (main.rs:623-635, 769-774).
THEOREM AnalysisIsSealedWhole == Spec => SealsAllOrNothing
<1> DEFINE Whole == sealed' # sealed =>
                      /\ [n \in 1..Len(sealed') |-> sealed'[n].id] = Chosen
                      /\ pc' = "done" /\ exit' = exit
<1>1. TreeInv /\ [Next]_vars => [Whole]_vars
  <2> SUFFICES ASSUME TreeInv, Next, sealed' # sealed PROVE Whole
    BY DEF vars
  <2>1. Finish
    BY DEF Next, Artifact, Walk, Visit, ArtifactDone
  <2>2. /\ pc = "artifact" /\ queue = <<>> /\ sealed' = pending /\ pc' = "done" /\ exit' = exit
    BY <2>1 DEF Finish
  <2>3. sealed = <<>> /\ pending # <<>>
    BY <2>2 DEF TreeInv, NoneSealedYet
  <2>4. opts.seal
    BY <2>3 DEF TreeInv, EntriesFollow
  <2> QED BY <2>2, <2>4, JudgedAreChosen
<1> QED BY <1>1, TreeInvariant, PTL DEF Spec, SealsAllOrNothing

-----------------------------------------------------------------------------
(***************************************************************************)
(* AnalyzeTree: nothing is passed over                                     *)
(***************************************************************************)
Refused(e) == Kind[e] \in {"closed", "unreadable"}

\* Nothing was passed over of the artifacts judged so far, nor of what is behind
\* in the one being walked, as long as the command has not failed.
ReadInv ==
  /\ pc # "done" \/ exit # 2 \/ sealed # <<>> => \A a \in Judged : Legible(a)
  /\ pc = "done" /\ (exit # 2 \/ sealed # <<>>) => queue = <<>>
  /\ pc = "walk" =>
       /\ Readable(Head(queue))
       /\ \A e \in Reached(Head(queue)) \ Ahead : Refused(e) => Skipped(e)

\* One entry is behind that was ahead.
LEMMA AheadOf ==
  ASSUME TreeInv, pc = "walk", stack # <<>>, NEW e \in Innermost, Visit(e), pc' = "walk"
  PROVE  Ahead \subseteq Ahead' \cup {e}
<1> DEFINE W == Spread(stack)
           O == Opened(W, e)
<1>1. /\ present \in Trees /\ stack \in Seq(SUBSET Entries) /\ Levels(stack) /\ Apart(W)
  BY DEF TreeInv, TypeOK, HalfWay
<1>2. opts' = opts /\ present' = present
  BY DEF Visit
<1>3. /\ Without(e) \in Seq(SUBSET Entries) /\ Levels(Without(e))
      /\ e \in W /\ Spread(Without(e)) = W \ {e}
  BY <1>1, SpreadWithout
<1>4. W \in SUBSET Entries /\ e \in Entries
  BY <1>1, <1>3, SpreadIs
<1>5. /\ Reach(W) = {e} \cup Reach(O)
      /\ Heads(e) \cap W = {} /\ Heads(e) \in SUBSET Entries
  BY <1>1, <1>3, <1>4, ReachOpened, ApartOpened, HeadsAre DEF Apart
<1>6. Spread(stack') = O
  <2>1. CASE ~(Kind[e] = "dir" /\ ~Skipped(e))
    <3>1. stack' = Without(e) /\ O = W \ {e}
      BY <2>1 DEF Visit, Fail, Opened, Heads
    <3> QED BY <1>3, <3>1
  <2>2. CASE Kind[e] = "dir" /\ ~Skipped(e)
    <3>1. stack' = Append(Without(e), Listing(e)) /\ Heads(e) = Listing(e) /\ O = (W \ {e}) \cup Listing(e)
      BY <2>2 DEF Visit, Opened, Heads
    <3> HIDE DEF O, W
    <3>2. Listing(e) \in SUBSET Entries /\ Listing(e) \cap (W \ {e}) = {}
      BY <1>5, <3>1
    <3> QED BY <1>3, <3>1, <3>2, SpreadDown
  <2> QED BY <2>1, <2>2
<1>7. Ahead' = Reach(O)
  <2>1. Reach(Spread(stack))' = Reach(Spread(stack'))
    BY <1>2, Unmoved DEF Spread
  <2> QED BY <1>6, <2>1 DEF Ahead
<1> QED BY <1>5, <1>7 DEF Ahead

LEMMA ReadArtifact ==
  ASSUME TreeInv, ReadInv, Artifact
  PROVE  ReadInv'
<1> DEFINE a == Head(queue)
<1>1. /\ pc = "artifact" /\ queue # <<>> /\ opts' = opts /\ present' = present
      /\ sealed' = sealed /\ sealed = <<>> /\ queue \in Seq(Artifacts) /\ present \in Trees
      /\ QueueIsTheRest
  BY DEF Artifact, TreeInv, TypeOK, NoneSealedYet
<1>2. \A b \in Judged : Legible(b)
  BY <1>1 DEF ReadInv
<1>3. CASE Selected(a) /\ ~Readable(a)
  <2>1. pc' = "done" /\ exit' = 2 /\ sealed' = <<>>
    BY <1>1, <1>3 DEF Artifact, Fail
  <2> QED BY <2>1 DEF ReadInv
<1>4. CASE Selected(a) /\ Readable(a)
  <2>1. queue' = queue /\ pc' = "walk" /\ stack' = <<Listing(Root[a])>>
    BY <1>4 DEF Artifact
  <2>2. Judged' = Judged
    BY <1>1, <2>1 DEF Gone, Judged, Selected
  <2>3. \A b \in Judged' : Legible(b)'
    BY <1>1, <1>2, <2>2, Unmoved
  <2>4. a \in Artifacts
    BY <1>1, ElementOfSeq, HeadTailProperties
  <2>5. Ahead' = Reached(a)
    <3>1. Reach(Spread(stack))' = Reach(Spread(stack'))
      BY <1>1, Unmoved DEF Spread
    <3>2. Spread(stack') = Listing(Root[a])
      <4>1. Listing(Root[a]) \in SUBSET Entries
        BY <1>1, <2>4, RootApart
      <4> QED BY <2>1, <4>1 DEF Spread, ToSet
    <3>3. Reached(a) = Reach(Listing(Root[a]))
      BY <1>1, <2>4, ReachedIs
    <3> QED BY <3>1, <3>2, <3>3 DEF Ahead
  <2>6. Readable(Head(queue))' /\ Reached(Head(queue))' = Reached(a)
    BY <1>1, <1>4, <2>1, Unmoved DEF a
  <2> QED BY <2>1, <2>3, <2>5, <2>6 DEF ReadInv
<1>5. CASE ~Selected(a)
  <2>1. queue' = Tail(queue) /\ pc' = "artifact"
    BY <1>1, <1>5 DEF Artifact
  <2>2. Judged' = Judged
    BY <1>1, <1>5, <2>1, PassedOne
  <2>3. \A b \in Judged' : Legible(b)'
    BY <1>1, <1>2, <2>2, Unmoved
  <2> QED BY <2>1, <2>3 DEF ReadInv
<1> QED BY <1>3, <1>4, <1>5

LEMMA ReadWalk ==
  ASSUME TreeInv, ReadInv, Walk
  PROVE  ReadInv'
<1> DEFINE a == Head(queue)
<1>1. /\ pc = "walk" /\ stack # <<>> /\ opts' = opts /\ present' = present /\ queue' = queue
      /\ sealed' = sealed /\ sealed = <<>>
  BY DEF Walk, Visit, TreeInv, NoneSealedYet
<1>2. /\ \A b \in Judged : Legible(b)
      /\ Readable(a) /\ \A e \in Reached(a) \ Ahead : Refused(e) => Skipped(e)
  BY <1>1 DEF ReadInv
<1>3. CASE pc' = "done" /\ exit' = 2
  BY <1>1, <1>3 DEF ReadInv
<1>4. ASSUME pc' = "walk", \A e \in Ahead \ Ahead' : Refused(e) => Skipped(e)
      PROVE  ReadInv'
  <2>1. Judged' = Judged
    BY <1>1 DEF Gone, Judged, Selected
  <2>2. \A b \in Judged' : Legible(b)'
    BY <1>1, <1>2, <2>1, Unmoved
  <2>3. Readable(Head(queue))' /\ Reached(Head(queue))' = Reached(a)
    BY <1>1, <1>2, Unmoved
  <2>4. \A e \in Reached(a) \ Ahead' : Refused(e) => Skipped(e)
    BY <1>2, <1>4
  <2>5. \A e : (Refused(e) => Skipped(e))' <=> (Refused(e) => Skipped(e))
    BY <1>1, Unmoved DEF Refused
  <2> HIDE DEF a
  <2> QED BY <1>4, <2>2, <2>3, <2>4, <2>5 DEF ReadInv
<1>5. CASE \E e \in Innermost : Visit(e)
  <2>1. PICK e \in Innermost : Visit(e)
    BY <1>5
  <2>2. pc' = "walk" \/ (pc' = "done" /\ exit' = 2)
    BY <1>1, <2>1 DEF Visit, Fail
  <2>3. ASSUME pc' = "walk" PROVE Refused(e) => Skipped(e)
    BY <1>1, <2>1, <2>3 DEF Visit, Fail, Refused
  <2>4. ASSUME pc' = "walk" PROVE ReadInv'
    <3>1. Ahead \subseteq Ahead' \cup {e}
      BY <1>1, <2>1, <2>4, AheadOf
    <3>2. \A x \in Ahead \ Ahead' : Refused(x) => Skipped(x)
      BY <2>3, <2>4, <3>1
    <3> QED BY <1>4, <2>4, <3>2
  <2> QED BY <1>3, <2>2, <2>4
<1>6. CASE Innermost = {} /\ stack' = Front(stack) /\ pc' = pc
  <2>1. stack \in Seq(SUBSET Entries) /\ Levels(stack)
    BY <1>1 DEF TreeInv, TypeOK, HalfWay
  <2>2. Spread(stack') = Spread(stack)
    BY <1>1, <1>6, <2>1, SpreadUp
  <2>3. Ahead' = Ahead
    <3>1. Reach(Spread(stack))' = Reach(Spread(stack'))
      BY <1>1, Unmoved DEF Spread
    <3> QED BY <2>2, <3>1 DEF Ahead
  <2> QED BY <1>1, <1>4, <1>6, <2>3
<1> QED BY <1>5, <1>6 DEF Walk

LEMMA ReadArtifactDone ==
  ASSUME TreeInv, ReadInv, ArtifactDone
  PROVE  ReadInv'
<1> DEFINE a == Head(queue)
<1>1. /\ pc = "walk" /\ stack = <<>> /\ opts' = opts /\ present' = present /\ queue' = Tail(queue)
      /\ pc' = "artifact" /\ queue # <<>> /\ Selected(a) /\ queue \in Seq(Artifacts)
      /\ QueueIsTheRest /\ present \in Trees
  BY DEF ArtifactDone, TreeInv, TypeOK, HalfWay
<1>2. Ahead = {}
  <2>1. Reach({}) = {}
    BY <1>1, ReachIs DEF Closed
  <2> QED BY <1>1, <2>1, SpreadOfNone DEF Ahead
<1>3. Legible(a) /\ \A b \in Judged : Legible(b)
  BY <1>1, <1>2 DEF ReadInv, Legible, Refused
<1>4. Judged' = Judged \cup {a}
  BY <1>1, PassedOne
<1>5. \A b \in Judged' : Legible(b)'
  BY <1>1, <1>3, <1>4, Unmoved
<1> QED BY <1>1, <1>5 DEF ReadInv

LEMMA ReadEnd ==
  ASSUME TreeInv, ReadInv, Finish \/ UNCHANGED vars
  PROVE  ReadInv'
<1>1. /\ opts' = opts /\ present' = present /\ queue' = queue /\ stack' = stack
  BY DEF Finish, vars
<1>2. Judged' = Judged
  BY <1>1 DEF Gone, Judged, Selected
<1>3. (\A b \in Judged : Legible(b)) => \A b \in Judged' : Legible(b)'
  BY <1>1, <1>2, Unmoved
<1>4. CASE Finish
  <2>1. pc = "artifact" /\ queue = <<>> /\ pc' = "done"
    BY <1>4 DEF Finish, Fail
  <2> QED BY <1>1, <1>3, <2>1 DEF ReadInv
<1>5. CASE UNCHANGED vars
  <2>1. pc' = pc /\ exit' = exit /\ sealed' = sealed
    BY <1>5 DEF vars
  <2>2. Ahead' = Ahead
    <3>1. Reach(Spread(stack))' = Reach(Spread(stack'))
      BY <1>1, Unmoved DEF Spread
    <3> QED BY <1>1, <3>1 DEF Ahead
  <2>3. /\ Readable(Head(queue))' = Readable(Head(queue))
        /\ Reached(Head(queue))' = Reached(Head(queue))
        /\ \A e : Skipped(e)' = Skipped(e)
    BY <1>1, Unmoved
  <2> QED BY <1>1, <1>3, <2>1, <2>2, <2>3 DEF ReadInv, Refused
<1> QED BY <1>4, <1>5

\* A command that ends without an error, or seals, has read every directory and
\* every source that it reached in the artifacts it took, unless an --ignore names
\* it, whatever the trees and in whatever order they are listed (analyze.rs:357-375,
\* 394, main.rs:647).
THEOREM NothingIsPassedOver == Spec => []NothingPassedOver
<1>1. Init => ReadInv
  <2> SUFFICES ASSUME Init PROVE ReadInv
    OBVIOUS
  <2>1. Judged = {} /\ pc = "artifact"
    BY ManifestIs DEF Init, Gone, Judged
  <2> QED BY <2>1 DEF ReadInv
<1>2. TreeInv /\ ReadInv /\ [Next]_vars => ReadInv'
  BY ReadArtifact, ReadWalk, ReadArtifactDone, ReadEnd DEF Next
<1>3. TreeInv /\ ReadInv => NothingPassedOver
  BY JudgedAreChosen DEF ReadInv, NothingPassedOver
<1> QED BY <1>1, <1>2, <1>3, TreeInvariant, PTL DEF Spec

-----------------------------------------------------------------------------
(***************************************************************************)
(* TreeDigest: prefixes of paths                                           *)
(***************************************************************************)

\* Being a prefix, by positions.
LEMMA PrefixIs ==
  ASSUME NEW S, NEW s \in Seq(S), NEW t \in Seq(S)
  PROVE  IsPrefix(s, t) <=> Len(s) <= Len(t) /\ \A k \in 1..Len(s) : s[k] = t[k]
<1> DEFINE n == Len(s)
           p == SubSeq(s, 1, n)
           q == SubSeq(t, 1, n)
<1>1. n \in Nat /\ Len(t) \in Nat /\ \A k \in 1..n : s[k] \in S
  BY LenProperties, ElementOfSeq
<1>2. p \in Seq(S) /\ Len(p) = n /\ (\A k \in 1..n : p[k] = s[k])
  BY <1>1, SubSeqProperties
<1>3. ASSUME n <= Len(t)
      PROVE  q \in Seq(S) /\ Len(q) = n /\ (\A k \in 1..n : q[k] = t[k])
  <2>1. \A k \in 1..n : t[k] \in S
    <3> SUFFICES ASSUME NEW k \in 1..n PROVE t[k] \in S
      OBVIOUS
    <3>1. k \in 1..Len(t)
      BY <1>1, <1>3
    <3> QED BY <3>1, ElementOfSeq
  <2> QED BY <1>1, <1>3, <2>1, SubSeqProperties
<1>4. IsPrefix(s, t) <=> n <= Len(t) /\ p = q
  BY DEF IsPrefix
<1> HIDE DEF p, q
<1>5. ASSUME n <= Len(t) PROVE p = q <=> \A k \in 1..n : s[k] = t[k]
  <2>1. CASE \A k \in 1..n : s[k] = t[k]
    <3>1. p = q
      BY <1>2, <1>3, <1>5, <2>1, SeqEqual
    <3> QED BY <2>1, <3>1
  <2>2. CASE p = q
    BY <1>2, <1>3, <1>5, <2>2
  <2> QED BY <2>1, <2>2
<1> QED BY <1>4, <1>5

\* Prefixes are ordered, and those of one sequence by their lengths.
LEMMA PrefixOrder ==
  ASSUME NEW S, NEW s \in Seq(S), NEW t \in Seq(S), NEW u \in Seq(S)
  PROVE  /\ IsPrefix(s, s)
         /\ IsPrefix(s, t) /\ IsPrefix(t, u) => IsPrefix(s, u)
         /\ IsPrefix(s, u) /\ IsPrefix(t, u) /\ Len(s) <= Len(t) => IsPrefix(s, t)
         /\ IsPrefix(s, t) /\ Len(t) <= Len(s) => s = t
<1>1. Len(s) \in Nat /\ Len(t) \in Nat /\ Len(u) \in Nat
  BY LenProperties
<1>2. IsPrefix(s, s)
  BY <1>1, PrefixIs
<1>3. ASSUME IsPrefix(s, t), IsPrefix(t, u) PROVE IsPrefix(s, u)
  <2>1. Len(s) <= Len(t) /\ \A k \in 1..Len(s) : s[k] = t[k]
    BY <1>3, PrefixIs
  <2>2. Len(t) <= Len(u) /\ \A k \in 1..Len(t) : t[k] = u[k]
    BY <1>3, PrefixIs
  <2>3. Len(s) <= Len(u) /\ \A k \in 1..Len(s) : s[k] = u[k]
    BY <1>1, <2>1, <2>2
  <2> QED BY <2>3, PrefixIs
<1>4. ASSUME IsPrefix(s, u), IsPrefix(t, u), Len(s) <= Len(t) PROVE IsPrefix(s, t)
  <2>1. \A k \in 1..Len(s) : s[k] = u[k]
    BY <1>4, PrefixIs
  <2>2. \A k \in 1..Len(t) : t[k] = u[k]
    BY <1>4, PrefixIs
  <2>3. \A k \in 1..Len(s) : s[k] = t[k]
    BY <1>1, <1>4, <2>1, <2>2
  <2> QED BY <1>4, <2>3, PrefixIs
<1>5. ASSUME IsPrefix(s, t), Len(t) <= Len(s) PROVE s = t
  <2>1. Len(s) <= Len(t) /\ \A k \in 1..Len(s) : s[k] = t[k]
    BY <1>5, PrefixIs
  <2> QED BY <1>1, <1>5, <2>1, SeqEqual
<1> QED BY <1>2, <1>3, <1>4, <1>5

-----------------------------------------------------------------------------
(***************************************************************************)
(* TreeDigest: the invariant                                               *)
(***************************************************************************)

\* What a directory may yield.
Listable == {e \in Seq(STRING) : e # <<>> /\ \E q \in Paths : IsPrefix(e, q)}

\* Entry e has been listed and not been looked at.
Waiting(e) == \E k \in 1..Len(opened) : e \in opened[k]

\* What waits is apart from what else waits and from what was found, each file
\* of which was found once.
ApartInv ==
  /\ \A k, l \in 1..Len(opened) : \A e \in opened[k], f \in opened[l] :
       IsPrefix(e, f) => e = f /\ k = l
  /\ \A k \in 1..Len(opened) : \A e \in opened[k] :
       \A n \in 1..Len(files) : ~IsPrefix(e, files[n])
  /\ FilesOnce

\* Nothing of a skipped directory waits, and only sources were found.
SourcesInv ==
  /\ \A k \in 1..Len(opened) : \A e \in opened[k] :
       \A i \in 1..(Len(e) - 1) : ~SkippedName(e[i])
  /\ \A n \in 1..Len(files) : files[n] \in Covered

\* A source that nobody has edited was found, or waits.
FoundInv ==
  phase # "failed" =>
    \A p \in Covered \ edited : disk[p] \in Contents =>
      \/ \E n \in 1..Len(files) : files[n] = p
      \/ \E k \in 1..Len(opened) : \E e \in opened[k] : IsPrefix(e, p)

\* If nobody has edited a source, what waits and what was found is there.
CalmInv ==
  edited = {} =>
    /\ phase # "failed"
    /\ \A k \in 1..Len(opened) : \A e \in opened[k] :
         \E p \in Paths : IsPrefix(e, p) /\ disk[p] # NoFile
    /\ \A n \in 1..Len(files) : disk[files[n]] \in Contents

\* What was hashed is what was found, in order, and is what it still is unless
\* it was edited.
HashInv ==
  /\ phase = "collect" => hashed = <<>>
  /\ phase \in {"hash", "done"} =>
       /\ opened = <<>> /\ files = InPathOrder(files)
       /\ Len(hashed) <= Len(files)
       /\ \A k \in 1..Len(hashed) :
            /\ hashed[k][1] = files[k]
            /\ files[k] \notin edited => hashed[k][2] = disk[files[k]]
  /\ phase = "done" => Len(hashed) = Len(files)

DigestKinds ==
  /\ disk \in FileTrees /\ phase \in {"collect", "hash", "done", "failed"}
  /\ opened \in Seq(SUBSET Listable)
  /\ files \in Seq(Paths) /\ hashed \in Seq(Paths \X Contents)
  /\ edited \subseteq Paths /\ edits \in 0..MaxEdits /\ outputs \in 0..MaxOutputs

DigestInv ==
  DigestKinds /\ ApartInv /\ SourcesInv /\ FoundInv /\ CalmInv /\ HashInv

\* Paths are listable, and so are sequences of names; none begins another.
LEMMA PathsAre ==
  /\ Paths \subseteq Listable /\ Listable \subseteq Seq(STRING)
  /\ \A p, q \in Paths : IsPrefix(p, q) => p = q
  /\ \A e \in Listable : Len(e) \in Nat \ {0}
<1>1. Paths \subseteq Seq(STRING)
  <2>1. \A n \in 1..Len(Order) : Order[n] \in Seq(STRING)
    BY TreesAssumption, ElementOfSeq
  <2>2. DOMAIN Order = 1..Len(Order)
    BY TreesAssumption, LenProperties
  <2> QED BY <2>1, <2>2 DEF Paths, ToSet
<1>2. Paths \subseteq Listable
  <2> SUFFICES ASSUME NEW p \in Paths PROVE p \in Listable
    OBVIOUS
  <2>1. p \in Seq(STRING) /\ p # <<>>
    BY <1>1, TreesAssumption
  <2>2. IsPrefix(p, p)
    BY <2>1, PrefixOrder
  <2> QED BY <2>1, <2>2 DEF Listable
<1>3. Listable \subseteq Seq(STRING) /\ \A e \in Listable : e # <<>>
  BY DEF Listable
<1>4. \A e \in Listable : Len(e) \in Nat \ {0}
  BY <1>3, EmptySeq, LenProperties
<1> QED BY <1>2, <1>3, <1>4, TreesAssumption

\* The entries of a directory are one name longer, apart, and lead to every
\* file below it.
LEMMA ReadDirIs ==
  ASSUME NEW d \in Seq(STRING), d \notin Paths
  PROVE  /\ ReadDir(d) \subseteq Listable
         /\ \A g \in ReadDir(d) :
              /\ Len(g) = Len(d) + 1 /\ IsPrefix(d, g)
              /\ \E p \in Paths : IsPrefix(g, p) /\ disk[p] # NoFile
         /\ \A f, g \in ReadDir(d) : IsPrefix(f, g) => f = g
         /\ \A p \in Paths : IsPrefix(d, p) /\ disk[p] # NoFile =>
              \E g \in ReadDir(d) : IsPrefix(g, p)
<1>1. Paths \subseteq Seq(STRING) /\ Len(d) \in Nat
  BY PathsAre, LenProperties
<1>2. ASSUME NEW p \in Paths, IsPrefix(d, p), NEW g, g = SubSeq(p, 1, Len(d) + 1)
      PROVE  /\ g \in Seq(STRING) /\ g # <<>> /\ Len(g) = Len(d) + 1
             /\ IsPrefix(d, g) /\ IsPrefix(g, p)
  <2> DEFINE m == Len(d) + 1
  <2>1. p \in Seq(STRING) /\ Len(p) \in Nat /\ m \in Nat
    BY <1>1, LenProperties
  <2>2. m <= Len(p)
    <3>1. ~(Len(p) <= Len(d))
      BY <1>2, <2>1, PrefixOrder
    <3> QED BY <1>1, <2>1, <3>1
  <2>3. \A k \in 1..m : p[k] \in STRING
    BY <2>1, <2>2, ElementOfSeq
  <2> HIDE DEF m
  <2>4. g \in Seq(STRING) /\ Len(g) = m /\ \A k \in 1..m : g[k] = p[k]
    <3>1. g = SubSeq(p, 1, m)
      BY <1>2 DEF m
    <3> QED BY <2>1, <2>3, <3>1, SubSeqProperties
  <2>5. \A k \in 1..Len(d) : d[k] = p[k]
    BY <1>2, <2>1, PrefixIs
  <2>6. IsPrefix(g, p)
    BY <2>1, <2>2, <2>4, PrefixIs
  <2>7. Len(d) <= Len(g) /\ \A k \in 1..Len(d) : d[k] = g[k]
    BY <1>1, <2>1, <2>4, <2>5 DEF m
  <2>8. IsPrefix(d, g)
    BY <2>4, <2>7, PrefixIs
  <2>9. g # <<>>
    BY <1>1, <2>1, <2>4 DEF m
  <2> QED BY <2>4, <2>6, <2>8, <2>9 DEF m
<1>3. ASSUME NEW g \in ReadDir(d)
      PROVE  /\ g \in Listable /\ g \in Seq(STRING)
             /\ Len(g) = Len(d) + 1 /\ IsPrefix(d, g)
             /\ \E p \in Paths : IsPrefix(g, p) /\ disk[p] # NoFile
  <2>1. PICK p \in Paths : disk[p] # NoFile /\ IsPrefix(d, p) /\ g = SubSeq(p, 1, Len(d) + 1)
    BY <1>3 DEF ReadDir
  <2>2. /\ g \in Seq(STRING) /\ g # <<>> /\ Len(g) = Len(d) + 1
        /\ IsPrefix(d, g) /\ IsPrefix(g, p)
    BY <1>2, <2>1
  <2> QED BY <2>1, <2>2 DEF Listable
<1>4. \A f, g \in ReadDir(d) : IsPrefix(f, g) => f = g
  <2> SUFFICES ASSUME NEW f \in ReadDir(d), NEW g \in ReadDir(d), IsPrefix(f, g)
               PROVE  f = g
    OBVIOUS
  <2>1. f \in Seq(STRING) /\ g \in Seq(STRING) /\ Len(f) = Len(d) + 1 /\ Len(g) = Len(d) + 1
    BY <1>3
  <2>2. Len(g) <= Len(f)
    BY <1>1, <2>1
  <2> QED BY <2>1, <2>2, PrefixOrder
<1>5. ASSUME NEW p \in Paths, IsPrefix(d, p), disk[p] # NoFile
      PROVE  \E g \in ReadDir(d) : IsPrefix(g, p)
  <2> DEFINE g == SubSeq(p, 1, Len(d) + 1)
  <2>1. g \in ReadDir(d)
    BY <1>5 DEF ReadDir
  <2>2. IsPrefix(g, p)
    BY <1>2, <1>5
  <2> QED BY <2>1, <2>2
<1> QED BY <1>3, <1>4, <1>5

\* List o is opened without entry e.
Shrunk(o, e) ==
  /\ o \in Seq(SUBSET Listable) /\ Len(o) = Len(opened)
  /\ \A k \in 1..Len(opened) :
       o[k] \subseteq opened[k] /\ e \notin o[k] /\ opened[k] \subseteq o[k] \cup {e}

\* The entry that is looked at is one of the last directory's, and only it goes.
LEMMA Shuts ==
  ASSUME DigestKinds, ApartInv, opened # <<>>, NEW e \in Open
  PROVE  /\ Shrunk(Shut(e), e)
         /\ Len(opened) \in 1..Len(opened) /\ e \in opened[Len(opened)] /\ e \in Listable
<1> DEFINE n == Len(opened)
           X == opened[n] \ {e}
           o == [opened EXCEPT ![n] = X]
<1>1. n \in Nat /\ n \in 1..n /\ opened \in Seq(SUBSET Listable)
  BY EmptySeq, LenProperties DEF DigestKinds
<1>2. /\ e \in opened[n] /\ opened[n] \in SUBSET Listable
      /\ \A k \in 1..n : opened[k] \in SUBSET Listable
  BY <1>1, ElementOfSeq DEF Open
<1>3. \A k \in 1..n : e \in opened[k] => k = n
  <2>1. IsPrefix(e, e)
    BY <1>2, PathsAre, PrefixOrder
  <2> QED BY <1>1, <1>2, <2>1 DEF ApartInv
<1>4. Shut(e) = o
  BY DEF Shut
<1>5. /\ o \in Seq(SUBSET Listable) /\ Len(o) = n
      /\ \A k \in 1..n : o[k] = IF k = n THEN X ELSE opened[k]
  <2>1. X \in SUBSET Listable
    BY <1>2
  <2> HIDE DEF X, n
  <2>2. n \in 1..Len(opened)
    BY <1>1 DEF n
  <2> QED BY <1>1, <2>1, <2>2, ExceptSeq DEF n
<1> HIDE DEF o
<1>6. Shrunk(o, e)
  <2>1. ASSUME NEW k \in 1..n
        PROVE  o[k] \subseteq opened[k] /\ e \notin o[k] /\ opened[k] \subseteq o[k] \cup {e}
    <3>1. CASE k = n
      BY <1>5, <3>1
    <3>2. CASE k # n
      <4>1. o[k] = opened[k] /\ e \notin opened[k]
        BY <1>3, <1>5, <3>2
      <4> QED BY <4>1
    <3> QED BY <3>1, <3>2
  <2> QED BY <1>5, <2>1 DEF Shrunk
<1> QED BY <1>1, <1>2, <1>4, <1>6

-----------------------------------------------------------------------------
(***************************************************************************)
(* TreeDigest: the walk keeps the invariant                                *)
(***************************************************************************)

\* What is the same while the walk takes one of its steps.
Still == UNCHANGED <<disk, edited, edits, outputs>>

\* An entry whose name is passed over.
LEMMA SkipKeeps ==
  ASSUME DigestInv, phase = "collect", opened # <<>>, NEW e \in Open, Skip(e), Still
  PROVE  DigestInv'
<1>1. /\ Shrunk(opened', e) /\ e \in opened[Len(opened)] /\ e \in Listable
      /\ Len(opened) \in 1..Len(opened)
  BY Shuts DEF DigestInv, Skip
<1>2. /\ phase' = phase /\ files' = files /\ hashed' = hashed /\ Passed(e)
      /\ disk' = disk /\ edited' = edited /\ edits' = edits /\ outputs' = outputs
  BY DEF Skip, Still
<1>3. DigestKinds'
  BY <1>1, <1>2 DEF DigestInv, DigestKinds, Shrunk
<1>4. \A k \in 1..Len(opened') : k \in 1..Len(opened) /\ opened'[k] \subseteq opened[k]
  BY <1>1 DEF Shrunk
<1>5. ApartInv'
  <2>1. FilesOnce'
    BY <1>2 DEF DigestInv, ApartInv, FilesOnce
  <2> QED BY <1>2, <1>4, <2>1 DEF DigestInv, ApartInv
<1>6. SourcesInv'
  BY <1>2, <1>4 DEF DigestInv, SourcesInv
<1>7. FoundInv'
  <2> SUFFICES ASSUME NEW p \in Covered, p \notin edited, disk[p] \in Contents,
                      \A n \in 1..Len(files) : files[n] # p
               PROVE  \E k \in 1..Len(opened') : \E f \in opened'[k] : IsPrefix(f, p)
    BY <1>2 DEF FoundInv
  <2>1. PICK k \in 1..Len(opened) : \E f \in opened[k] : IsPrefix(f, p)
    BY DEF DigestInv, FoundInv
  <2>2. PICK f \in opened[k] : IsPrefix(f, p)
    BY <2>1
  <2>3. f # e
    <3> SUFFICES ASSUME f = e PROVE FALSE
      OBVIOUS
    <3>1. p \in Paths /\ p \in Seq(STRING) /\ e \in Seq(STRING) /\ Len(e) \in Nat \ {0}
          /\ Len(p) \in Nat
      BY <1>1, PathsAre, LenProperties DEF Covered
    <3>2. Len(e) <= Len(p) /\ \A i \in 1..Len(e) : e[i] = p[i]
      BY <2>2, <3>1, PrefixIs
    <3>3. Len(e) \in 1..Len(p) /\ Len(e) \in 1..Len(e) /\ DOMAIN p = 1..Len(p)
      BY <3>1, <3>2, LenProperties
    <3>4. ~SkippedName(p[Len(e)])
      BY <3>3 DEF Covered
    <3>5. SkippedName(e[Len(e)])
      BY <1>2 DEF Passed, Name
    <3> QED BY <3>2, <3>3, <3>4, <3>5
  <2>4. k \in 1..Len(opened') /\ f \in opened'[k]
    BY <1>1, <2>3 DEF Shrunk
  <2> QED BY <2>2, <2>4
<1>8. CalmInv'
  BY <1>2, <1>4 DEF DigestInv, CalmInv
<1>9. HashInv'
  BY <1>2 DEF DigestInv, HashInv
<1> QED BY <1>3, <1>5, <1>6, <1>7, <1>8, <1>9 DEF DigestInv

\* A file that is found, or a link.
LEMMA PushKeeps ==
  ASSUME DigestInv, phase = "collect", opened # <<>>, NEW e \in Open, Push(e), Still
  PROVE  DigestInv'
<1> DEFINE n == Len(opened)
           m == Len(files)
           found == disk[e] # Link
<1>1. /\ Shrunk(opened', e) /\ e \in opened[n] /\ e \in Listable /\ n \in 1..n
      /\ e \in Paths /\ e \in Seq(STRING)
  BY Shuts, PathsAre DEF DigestInv, Push
<1>2. /\ phase' = phase /\ hashed' = hashed /\ ~Passed(e)
      /\ files' = (IF found THEN Append(files, e) ELSE files)
      /\ disk' = disk /\ edited' = edited /\ edits' = edits /\ outputs' = outputs
  BY DEF Push, Still
<1>3. /\ files \in Seq(Paths) /\ m \in Nat /\ DOMAIN files = 1..m
      /\ \A k \in 1..m : files[k] \in Paths
  BY LenProperties, ElementOfSeq DEF DigestInv, DigestKinds
<1>4. \A k \in 1..Len(opened') : k \in 1..n /\ opened'[k] \subseteq opened[k] /\ e \notin opened'[k]
  BY <1>1 DEF Shrunk
<1>5. /\ files' \in Seq(Paths) /\ Len(files') \in {m, m + 1} /\ DOMAIN files' = 1..Len(files')
      /\ \A k \in 1..m : files'[k] = files[k] /\ k \in 1..Len(files')
      /\ \A k \in 1..Len(files') : k \in 1..m \/ (found /\ k = m + 1 /\ files'[k] = e)
      /\ found => m + 1 \in 1..Len(files') /\ files'[m + 1] = e
  <2>1. CASE found
    <3> DEFINE a == Append(files, e)
    <3>1. a \in Seq(Paths) /\ Len(a) = m + 1 /\ (\A k \in 1..m : a[k] = files[k]) /\ a[m + 1] = e
      BY <1>1, <1>3, AppendProperties
    <3>2. files' = a
      BY <1>2, <2>1
    <3> HIDE DEF a, found
    <3>3. DOMAIN a = 1..(m + 1)
      BY <3>1, LenProperties
    <3>4. /\ \A k \in 1..m : k \in 1..(m + 1)
          /\ \A k \in 1..(m + 1) : k \in 1..m \/ k = m + 1
          /\ m + 1 \in 1..(m + 1)
      BY <1>3
    <3> HIDE DEF m
    <3> QED BY <2>1, <3>1, <3>2, <3>3, <3>4
  <2>2. CASE ~found
    BY <1>2, <1>3, <2>2
  <2> QED BY <2>1, <2>2
<1> HIDE DEF found
<1>6. DigestKinds'
  BY <1>1, <1>2, <1>5 DEF DigestInv, DigestKinds, Shrunk
<1>7. \A k \in 1..m : files[k] # e
  <2> SUFFICES ASSUME NEW k \in 1..m, files[k] = e PROVE FALSE
    OBVIOUS
  <2>1. ~IsPrefix(e, files[k])
    BY <1>1 DEF DigestInv, ApartInv
  <2> QED BY <1>1, <2>1, PrefixOrder
<1>8. ApartInv'
  <2>1. FilesOnce'
    <3> SUFFICES ASSUME NEW i \in 1..Len(files'), NEW j \in 1..Len(files'), files'[i] = files'[j]
                 PROVE  i = j
      BY <1>5 DEF FilesOnce, IsInjective
    <3>1. CASE i \in 1..m /\ j \in 1..m
      BY <1>3, <1>5, <3>1 DEF DigestInv, ApartInv, FilesOnce, IsInjective
    <3>2. CASE i \notin 1..m \/ j \notin 1..m
      BY <1>5, <1>7, <3>2
    <3> QED BY <3>1, <3>2
  <2>2. \A k, l \in 1..Len(opened') : \A f \in opened'[k], g \in opened'[l] :
          IsPrefix(f, g) => f = g /\ k = l
    BY <1>4 DEF DigestInv, ApartInv
  <2>3. ASSUME NEW k \in 1..Len(opened'), NEW f \in opened'[k], NEW i \in 1..Len(files')
        PROVE  ~IsPrefix(f, files'[i])
    <3>1. k \in 1..n /\ f \in opened[k] /\ f # e
      BY <1>4
    <3>2. CASE i \in 1..m
      BY <1>5, <3>1, <3>2 DEF DigestInv, ApartInv
    <3>3. CASE i \notin 1..m
      <4>1. files'[i] = e
        BY <1>5, <3>3
      <4>2. IsPrefix(f, e) => f = e
        BY <1>1, <3>1 DEF DigestInv, ApartInv
      <4> QED BY <3>1, <4>1, <4>2
    <3> QED BY <3>2, <3>3
  <2> QED BY <2>1, <2>2, <2>3 DEF ApartInv
<1>9. SourcesInv'
  <2>1. ASSUME NEW k \in 1..Len(opened'), NEW f \in opened'[k], NEW i \in 1..(Len(f) - 1)
        PROVE  ~SkippedName(f[i])
    BY <1>4 DEF DigestInv, SourcesInv
  <2>2. e \in Covered
    <3>1. DOMAIN e = 1..Len(e) /\ Len(e) \in Nat
      BY <1>1, LenProperties
    <3>2. ASSUME NEW i \in 1..Len(e) PROVE ~SkippedName(e[i])
      <4>1. CASE i = Len(e)
        BY <1>2, <4>1 DEF Passed, Name
      <4>2. CASE i # Len(e)
        <5>1. i \in 1..(Len(e) - 1)
          <6> DEFINE l == Len(e)
          <6>1. l \in Nat /\ i \in 1..l /\ i # l
            BY <3>1, <4>2
          <6> HIDE DEF l
          <6>2. i \in 1..(l - 1)
            BY <6>1
          <6> QED BY <6>2 DEF l
        <5> QED BY <1>1, <5>1 DEF DigestInv, SourcesInv
      <4> QED BY <4>1, <4>2
    <3> QED BY <1>1, <3>1, <3>2 DEF Covered
  <2>3. ASSUME NEW k \in 1..Len(files') PROVE files'[k] \in Covered
    <3>1. CASE k \in 1..m
      BY <1>5, <3>1 DEF DigestInv, SourcesInv
    <3>2. CASE k \notin 1..m
      BY <1>5, <2>2, <3>2
    <3> QED BY <3>1, <3>2
  <2>4. Covered' = Covered
    BY DEF Covered
  <2> QED BY <2>1, <2>3, <2>4 DEF SourcesInv
<1>10. FoundInv'
  <2> SUFFICES ASSUME NEW p \in Covered, p \notin edited, disk[p] \in Contents
               PROVE  \/ \E k \in 1..Len(files') : files'[k] = p
                      \/ \E k \in 1..Len(opened') : \E f \in opened'[k] : IsPrefix(f, p)
    BY <1>2 DEF FoundInv
  <2>1. CASE \E k \in 1..m : files[k] = p
    BY <1>5, <2>1
  <2>2. CASE \E k \in 1..n : \E f \in opened[k] : IsPrefix(f, p)
    <3>1. PICK k \in 1..n : \E f \in opened[k] : IsPrefix(f, p)
      BY <2>2
    <3>2. PICK f \in opened[k] : IsPrefix(f, p)
      BY <3>1
    <3>3. CASE f = e
      <4>1. p \in Paths
        BY DEF Covered
      <4>2. p = e
        BY <1>1, <3>2, <3>3, <4>1, PathsAre
      <4>3. found
        BY <4>2, TreesAssumption DEF found
      <4> QED BY <1>5, <4>2, <4>3
    <3>4. CASE f # e
      <4>1. k \in 1..Len(opened') /\ f \in opened'[k]
        BY <1>1, <3>4 DEF Shrunk
      <4> QED BY <3>2, <4>1
    <3> QED BY <3>3, <3>4
  <2> QED BY <2>1, <2>2 DEF DigestInv, FoundInv
<1>11. CalmInv'
  <2> SUFFICES ASSUME edited = {}
               PROVE  /\ phase' # "failed"
                      /\ \A k \in 1..Len(opened') : \A f \in opened'[k] :
                           \E p \in Paths : IsPrefix(f, p) /\ disk[p] # NoFile
                      /\ \A k \in 1..Len(files') : disk[files'[k]] \in Contents
    BY <1>2 DEF CalmInv
  <2>1. \A k \in 1..Len(opened') : \A f \in opened'[k] :
          \E p \in Paths : IsPrefix(f, p) /\ disk[p] # NoFile
    BY <1>4 DEF DigestInv, CalmInv
  <2>2. disk[e] # NoFile
    <3>1. PICK p \in Paths : IsPrefix(e, p) /\ disk[p] # NoFile
      BY <1>1 DEF DigestInv, CalmInv
    <3> QED BY <1>1, <3>1, PathsAre
  <2>3. disk[e] \in Contents \cup {Link, NoFile}
    BY <1>1 DEF DigestInv, DigestKinds, FileTrees
  <2>4. ASSUME NEW k \in 1..Len(files') PROVE disk[files'[k]] \in Contents
    <3>1. CASE k \in 1..m
      BY <1>5, <3>1 DEF DigestInv, CalmInv
    <3>2. CASE k \notin 1..m
      BY <1>5, <2>2, <2>3, <3>2 DEF found
    <3> QED BY <3>1, <3>2
  <2> QED BY <1>2, <2>1, <2>4
<1>12. HashInv'
  BY <1>2 DEF DigestInv, HashInv
<1> QED BY <1>6, <1>8, <1>9, <1>10, <1>11, <1>12 DEF DigestInv

\* A directory that is listed, and one that is gone.
LEMMA DescendKeeps ==
  ASSUME DigestInv, phase = "collect", opened # <<>>, NEW e \in Open, Descend(e), Still
  PROVE  DigestInv'
<1> DEFINE n == Len(opened)
           R == ReadDir(e)
<1>1. /\ Shrunk(Shut(e), e) /\ e \in opened[n] /\ e \in Listable /\ n \in 1..n /\ n \in Nat
      /\ e \in Seq(STRING) /\ Len(e) \in Nat \ {0}
  <2>1. Shrunk(Shut(e), e) /\ e \in opened[n] /\ e \in Listable /\ n \in 1..n
    BY Shuts DEF DigestInv
  <2> HIDE DEF n
  <2> QED BY <2>1, PathsAre
<1>2. /\ ~Passed(e) /\ e \notin Paths /\ files' = files /\ hashed' = hashed
      /\ disk' = disk /\ edited' = edited /\ edits' = edits /\ outputs' = outputs
  BY DEF Descend, Still
<1>3. /\ R \subseteq Listable
      /\ \A g \in R : /\ Len(g) = Len(e) + 1 /\ IsPrefix(e, g)
                      /\ \E p \in Paths : IsPrefix(g, p) /\ disk[p] # NoFile
      /\ \A f, g \in R : IsPrefix(f, g) => f = g
      /\ \A p \in Paths : IsPrefix(e, p) /\ disk[p] # NoFile => \E g \in R : IsPrefix(g, p)
  BY <1>1, <1>2, ReadDirIs
<1> HIDE DEF R
<1>4. CASE R = {} /\ phase' = "failed" /\ opened' = opened
  <2>1. edited # {}
    <3> SUFFICES ASSUME edited = {} PROVE FALSE
      OBVIOUS
    <3>1. \E p \in Paths : IsPrefix(e, p) /\ disk[p] # NoFile
      BY <1>1 DEF DigestInv, CalmInv
    <3> QED BY <1>3, <1>4, <3>1
  <2>2. DigestKinds'
    BY <1>2, <1>4 DEF DigestInv, DigestKinds
  <2>3. ApartInv' /\ SourcesInv'
    BY <1>2, <1>4 DEF DigestInv, ApartInv, SourcesInv, FilesOnce
  <2>4. FoundInv' /\ CalmInv' /\ HashInv'
    BY <1>2, <1>4, <2>1 DEF FoundInv, CalmInv, HashInv
  <2> QED BY <2>2, <2>3, <2>4 DEF DigestInv
<1>5. CASE opened' = Append(Shut(e), R) /\ phase' = phase
  <2>1. /\ opened' \in Seq(SUBSET Listable) /\ Len(opened') = n + 1
        /\ opened'[n + 1] = R /\ n + 1 \in 1..Len(opened')
        /\ \A k \in 1..n : /\ opened'[k] \subseteq opened[k] /\ e \notin opened'[k]
                           /\ opened[k] \subseteq opened'[k] \cup {e}
                           /\ k \in 1..Len(opened')
        /\ \A k \in 1..Len(opened') : k \in 1..n \/ k = n + 1
    <3> DEFINE o == Shut(e)
               a == Append(o, R)
    <3>1. o \in Seq(SUBSET Listable) /\ Len(o) = n
      BY <1>1 DEF Shrunk
    <3> HIDE DEF o
    <3>2. /\ a \in Seq(SUBSET Listable) /\ Len(a) = n + 1
          /\ \A k \in 1..n : a[k] = o[k]
          /\ a[n + 1] = R
      BY <1>3, <3>1, AppendProperties
    <3>3. opened' = a
      BY <1>5 DEF o
    <3> HIDE DEF a
    <3>4. \A k \in 1..n :
            o[k] \subseteq opened[k] /\ e \notin o[k] /\ opened[k] \subseteq o[k] \cup {e}
      BY <1>1 DEF Shrunk, o
    <3> HIDE DEF n
    <3>5. /\ n + 1 \in 1..(n + 1) /\ \A k \in 1..n : k \in 1..(n + 1)
          /\ \A k \in 1..(n + 1) : k \in 1..n \/ k = n + 1
      BY <1>1
    <3> QED BY <3>2, <3>3, <3>4, <3>5
  <2>2. DigestKinds'
    BY <1>2, <1>5, <2>1 DEF DigestInv, DigestKinds
  <2>3. \A k \in 1..n : opened[k] \in SUBSET Listable
    BY ElementOfSeq DEF DigestInv, DigestKinds
  <2>4. ASSUME NEW k \in 1..n, NEW f \in opened'[k], NEW g \in R
        PROVE  ~IsPrefix(f, g) /\ ~IsPrefix(g, f)
    <3>1. f \in opened[k] /\ f # e /\ f \in Seq(STRING) /\ g \in Seq(STRING)
      <4>1. f \in opened[k] /\ f # e
        BY <2>1
      <4>2. f \in Listable /\ g \in Listable
        BY <1>3, <2>3, <4>1
      <4> QED BY <4>1, <4>2, PathsAre
    <3>2. ~IsPrefix(f, e) /\ ~IsPrefix(e, f)
      BY <1>1, <3>1 DEF DigestInv, ApartInv
    <3>3. IsPrefix(e, g)
      BY <1>3
    <3>4. ~IsPrefix(g, f)
      BY <1>1, <3>1, <3>2, <3>3, PrefixOrder
    <3>5. ~IsPrefix(f, g)
      <4> SUFFICES ASSUME IsPrefix(f, g) PROVE FALSE
        OBVIOUS
      <4>1. Len(f) \in Nat /\ Len(e) \in Nat
        BY <1>1, <3>1, LenProperties
      <4>2. CASE Len(f) <= Len(e)
        BY <1>1, <3>1, <3>2, <3>3, <4>2, PrefixOrder
      <4>3. CASE Len(e) <= Len(f)
        BY <1>1, <3>1, <3>2, <3>3, <4>3, PrefixOrder
      <4> QED BY <4>1, <4>2, <4>3
    <3> QED BY <3>4, <3>5
  <2>5. ApartInv'
    <3>1. ASSUME NEW k \in 1..Len(opened'), NEW l \in 1..Len(opened'),
                 NEW f \in opened'[k], NEW g \in opened'[l], IsPrefix(f, g)
          PROVE  f = g /\ k = l
      <4>1. CASE k \in 1..n /\ l \in 1..n
        BY <2>1, <3>1, <4>1 DEF DigestInv, ApartInv
      <4>2. CASE k \in 1..n /\ l = n + 1
        BY <2>1, <2>4, <3>1, <4>2
      <4>3. CASE k = n + 1 /\ l \in 1..n
        BY <2>1, <2>4, <3>1, <4>3
      <4>4. CASE k = n + 1 /\ l = n + 1
        BY <1>3, <2>1, <3>1, <4>4
      <4> QED BY <2>1, <4>1, <4>2, <4>3, <4>4
    <3>2. ASSUME NEW k \in 1..Len(opened'), NEW f \in opened'[k], NEW i \in 1..Len(files)
          PROVE  ~IsPrefix(f, files[i])
      <4>1. CASE k \in 1..n
        BY <2>1, <4>1 DEF DigestInv, ApartInv
      <4>2. CASE k = n + 1
        <5>1. f \in R /\ IsPrefix(e, f) /\ f \in Seq(STRING)
          BY <1>3, <2>1, <4>2, PathsAre
        <5>2. files[i] \in Seq(STRING)
          BY ElementOfSeq, PathsAre DEF DigestInv, DigestKinds
        <5>3. ~IsPrefix(e, files[i])
          BY <1>1 DEF DigestInv, ApartInv
        <5> QED BY <1>1, <5>1, <5>2, <5>3, PrefixOrder
      <4> QED BY <2>1, <4>1, <4>2
    <3>3. FilesOnce'
      BY <1>2 DEF DigestInv, ApartInv, FilesOnce
    <3> QED BY <1>2, <3>1, <3>2, <3>3 DEF ApartInv
  <2>6. SourcesInv'
    <3>1. ASSUME NEW k \in 1..Len(opened'), NEW f \in opened'[k], NEW i \in 1..(Len(f) - 1)
          PROVE  ~SkippedName(f[i])
      <4>1. CASE k \in 1..n
        BY <2>1, <4>1 DEF DigestInv, SourcesInv
      <4>2. CASE k = n + 1
        <5>1. f \in R /\ Len(f) = Len(e) + 1 /\ IsPrefix(e, f) /\ f \in Seq(STRING)
          BY <1>3, <2>1, <4>2, PathsAre
        <5>2. i \in 1..Len(e)
          BY <1>1, <5>1
        <5>3. f[i] = e[i]
          BY <1>1, <5>1, <5>2, PrefixIs
        <5>4. CASE i = Len(e)
          BY <1>2, <5>3, <5>4 DEF Passed, Name
        <5>5. CASE i # Len(e)
          <6>1. i \in 1..(Len(e) - 1)
            <7> DEFINE l == Len(e)
            <7>1. l \in Nat /\ i \in 1..l /\ i # l
              BY <1>1, <5>2, <5>5
            <7> HIDE DEF l
            <7>2. i \in 1..(l - 1)
              BY <7>1
            <7> QED BY <7>2 DEF l
          <6> QED BY <1>1, <5>3, <6>1 DEF DigestInv, SourcesInv
        <5> QED BY <5>4, <5>5
      <4> QED BY <2>1, <4>1, <4>2
    <3>2. Covered' = Covered
      BY DEF Covered
    <3> QED BY <1>2, <3>1, <3>2 DEF DigestInv, SourcesInv
  <2>7. FoundInv'
    <3> SUFFICES ASSUME NEW p \in Covered, p \notin edited, disk[p] \in Contents,
                        \A k \in 1..Len(files) : files[k] # p
                 PROVE  \E k \in 1..Len(opened') : \E f \in opened'[k] : IsPrefix(f, p)
      BY <1>2, <1>5 DEF FoundInv
    <3>1. PICK k \in 1..n : \E f \in opened[k] : IsPrefix(f, p)
      BY DEF DigestInv, FoundInv
    <3>2. PICK f \in opened[k] : IsPrefix(f, p)
      BY <3>1
    <3>3. CASE f = e
      <4>1. p \in Paths /\ disk[p] # NoFile
        BY TreesAssumption DEF Covered
      <4>2. \E g \in R : IsPrefix(g, p)
        BY <1>3, <3>2, <3>3, <4>1
      <4> QED BY <2>1, <4>2
    <3>4. CASE f # e
      BY <2>1, <3>2, <3>4
    <3> QED BY <3>3, <3>4
  <2>8. CalmInv'
    <3>1. ASSUME edited = {}, NEW k \in 1..Len(opened'), NEW f \in opened'[k]
          PROVE  \E p \in Paths : IsPrefix(f, p) /\ disk[p] # NoFile
      <4>1. CASE k \in 1..n
        BY <2>1, <3>1, <4>1 DEF DigestInv, CalmInv
      <4>2. CASE k = n + 1
        BY <1>3, <2>1, <4>2
      <4> QED BY <2>1, <4>1, <4>2
    <3> QED BY <1>2, <1>5, <3>1 DEF DigestInv, CalmInv
  <2>9. HashInv'
    BY <1>2, <1>5 DEF DigestInv, HashInv
  <2> QED BY <2>2, <2>5, <2>6, <2>7, <2>8, <2>9 DEF DigestInv
<1> QED BY <1>4, <1>5 DEF Descend, R

\* Where nothing is opened or found, neither is anything twice or by mistake.
LEMMA NothingFound ==
  ASSUME DigestInv, opened' = opened, files' = files
  PROVE  ApartInv' /\ SourcesInv'
<1>1. FilesOnce'
  <2>1. FilesOnce
    BY DEF DigestInv, ApartInv
  <2> QED BY <2>1 DEF FilesOnce
<1>2. \A k, l \in 1..Len(opened') : \A e \in opened'[k], f \in opened'[l] :
        IsPrefix(e, f) => e = f /\ k = l
  BY DEF DigestInv, ApartInv
<1>3. \A k \in 1..Len(opened') : \A e \in opened'[k] :
        \A n \in 1..Len(files') : ~IsPrefix(e, files'[n])
  BY DEF DigestInv, ApartInv
<1>4. Covered' = Covered
  BY DEF Covered
<1>5. SourcesInv'
  BY <1>4 DEF DigestInv, SourcesInv
<1> QED BY <1>1, <1>2, <1>3, <1>5 DEF ApartInv

\* A directory all of whose entries were looked at.
LEMMA ReturnKeeps ==
  ASSUME DigestInv, Return
  PROVE  DigestInv'
<1> DEFINE n == Len(opened)
<1>1. /\ opened \in Seq(SUBSET Listable) /\ n \in Nat /\ n \in 1..n /\ opened[n] = {}
      /\ \A k \in 1..n : opened[k] \in SUBSET Listable
  BY EmptySeq, LenProperties, ElementOfSeq DEF DigestInv, DigestKinds, Return, Open
<1>2. /\ phase' = phase /\ files' = files /\ hashed' = hashed /\ phase = "collect"
      /\ disk' = disk /\ edited' = edited /\ edits' = edits /\ outputs' = outputs
      /\ opened' = SubSeq(opened, 1, n - 1)
  BY DEF Return, Front
<1>3. /\ opened' \in Seq(SUBSET Listable) /\ Len(opened') = n - 1
      /\ \A k \in 1..Len(opened') : k \in 1..n /\ opened'[k] = opened[k]
      /\ \A k \in 1..n : k \in 1..Len(opened') \/ k = n
  <2>1. n - 1 \in Nat /\ \A k \in 1..(n - 1) : k \in 1..n
    BY <1>1
  <2> DEFINE m == n - 1
             o == SubSeq(opened, 1, m)
  <2>2. m \in Nat /\ \A k \in 1..m : opened[k] \in SUBSET Listable
    BY <1>1, <2>1
  <2> HIDE DEF m
  <2>3. o \in Seq(SUBSET Listable) /\ Len(o) = m /\ \A k \in 1..m : o[k] = opened[k]
    BY <1>1, <2>2, SubSeqProperties
  <2>4. opened' = o
    BY <1>2 DEF m
  <2> HIDE DEF o
  <2>5. \A k \in 1..n : k \in 1..m \/ k = n
    BY <1>1 DEF m
  <2> QED BY <2>1, <2>3, <2>4, <2>5 DEF m
<1>4. DigestKinds'
  BY <1>2, <1>3 DEF DigestInv, DigestKinds
<1>5. ApartInv'
  <2>1. FilesOnce'
    BY <1>2 DEF DigestInv, ApartInv, FilesOnce
  <2>2. ASSUME NEW k \in 1..Len(opened'), NEW l \in 1..Len(opened'),
               NEW e \in opened'[k], NEW f \in opened'[l], IsPrefix(e, f)
        PROVE  e = f /\ k = l
    <3>1. k \in 1..n /\ l \in 1..n /\ e \in opened[k] /\ f \in opened[l]
      BY <1>3
    <3> QED BY <2>2, <3>1 DEF DigestInv, ApartInv
  <2>3. \A k \in 1..Len(opened') : \A e \in opened'[k] :
          \A i \in 1..Len(files') : ~IsPrefix(e, files'[i])
    BY <1>2, <1>3 DEF DigestInv, ApartInv
  <2> QED BY <2>1, <2>2, <2>3 DEF ApartInv
<1>6. SourcesInv'
  BY <1>2, <1>3 DEF DigestInv, SourcesInv
<1>7. FoundInv'
  <2> SUFFICES ASSUME NEW p \in Covered, p \notin edited, disk[p] \in Contents,
                      \A k \in 1..Len(files) : files[k] # p
               PROVE  \E k \in 1..Len(opened') : \E f \in opened'[k] : IsPrefix(f, p)
    BY <1>2 DEF FoundInv
  <2>1. PICK k \in 1..n : \E f \in opened[k] : IsPrefix(f, p)
    BY <1>2 DEF DigestInv, FoundInv
  <2>2. k # n
    BY <1>1, <2>1
  <2> QED BY <1>3, <2>1, <2>2
<1>8. CalmInv'
  BY <1>2, <1>3 DEF DigestInv, CalmInv
<1>9. HashInv'
  BY <1>2 DEF DigestInv, HashInv
<1> QED BY <1>4, <1>5, <1>6, <1>7, <1>8, <1>9 DEF DigestInv

\* The paths of a set, in order: each once.
LEMMA PathsInIs ==
  ASSUME NEW X
  PROVE  /\ PathsIn(X) \in Seq(Paths) /\ IsInjective(PathsIn(X))
         /\ ToSet(PathsIn(X)) = X \cap Paths
<1> DEFINE N == Len(Order)
           I == {n \in 1..N : Order[n] \in X}
           c == Cardinality(I)
           A == Ascending(I)
           r == PathsIn(X)
<1>1. /\ N \in Nat /\ DOMAIN Order = 1..N
      /\ \A n \in 1..N : Order[n] \in Paths
      /\ \A p \in Paths : \E n \in 1..N : p = Order[n]
      /\ \A m, n \in 1..N : Order[m] = Order[n] => m = n
  <2>1. N \in Nat /\ DOMAIN Order = 1..N
    BY TreesAssumption, LenProperties
  <2> HIDE DEF N
  <2> QED BY <2>1, TreesAssumption DEF Paths, ToSet, IsInjective
<1>2. \A k \in 1..c : A[k] = Place(I, k)
  BY DEF Ascending, Place
<1>3. r = [k \in 1..c |-> Order[Place(I, k)]]
  BY DEF PathsIn
<1>4. I \subseteq 1..N /\ \A n \in I : Order[n] \in X
  OBVIOUS
<1>5. ASSUME NEW n \in 1..N, Order[n] \in X PROVE n \in I
  BY <1>5
<1> HIDE DEF I, N
<1>6. /\ c \in Nat /\ A \in [1..c -> I]
      /\ \A i \in I : UpTo(I, i) \in 1..c /\ A[UpTo(I, i)] = i
      /\ \A k \in 1..c : UpTo(I, A[k]) = k
  BY <1>1, <1>4, AscendingProperties
<1> HIDE DEF A, c, r
<1>7. r = [k \in 1..c |-> Order[A[k]]]
  BY <1>2, <1>3
<1>8. \A k \in 1..c : A[k] \in I /\ A[k] \in 1..N /\ Order[A[k]] \in Paths /\ Order[A[k]] \in X
  BY <1>1, <1>4, <1>6
<1>9. r \in [1..c -> Paths] /\ DOMAIN r = 1..c
  BY <1>7, <1>8
<1>10. r \in Seq(Paths)
  BY <1>6, <1>9, SeqDef
<1>11. IsInjective(r)
  <2> SUFFICES ASSUME NEW k \in 1..c, NEW l \in 1..c, r[k] = r[l] PROVE k = l
    BY <1>9 DEF IsInjective
  <2>1. Order[A[k]] = Order[A[l]]
    BY <1>7
  <2>2. A[k] = A[l]
    BY <1>1, <1>8, <2>1
  <2> QED BY <1>6, <2>2
<1>12. ToSet(r) = X \cap Paths
  <2>1. ASSUME NEW p \in ToSet(r) PROVE p \in X \cap Paths
    <3>1. PICK k \in 1..c : p = r[k]
      BY <1>9 DEF ToSet
    <3> QED BY <1>7, <1>8, <3>1
  <2>2. ASSUME NEW p \in X \cap Paths PROVE p \in ToSet(r)
    <3>1. PICK n \in 1..N : p = Order[n]
      BY <1>1
    <3>2. n \in I
      BY <1>5, <3>1
    <3>3. UpTo(I, n) \in 1..c /\ A[UpTo(I, n)] = n
      BY <1>6, <3>2
    <3>4. r[UpTo(I, n)] = p
      BY <1>7, <3>1, <3>3
    <3> QED BY <1>9, <3>3, <3>4 DEF ToSet
  <2> QED BY <2>1, <2>2
<1> QED BY <1>10, <1>11, <1>12 DEF r

\* The end of the walk.
LEMMA SortKeeps ==
  ASSUME DigestInv, Sort
  PROVE  DigestInv'
<1>1. /\ opened = <<>> /\ opened' = <<>> /\ phase = "collect" /\ phase' = "hash"
      /\ hashed' = hashed /\ hashed = <<>>
      /\ disk' = disk /\ edited' = edited /\ edits' = edits /\ outputs' = outputs
      /\ files' = InPathOrder(files)
  BY DEF Sort, DigestInv, HashInv
<1>2. files \in Seq(Paths) /\ Len(files) \in Nat /\ DOMAIN files = 1..Len(files)
  BY LenProperties DEF DigestInv, DigestKinds
<1>3. ToSet(files) \subseteq Paths
  BY <1>2, ElementOfSeq DEF ToSet
<1>4. files' \in Seq(Paths) /\ IsInjective(files') /\ ToSet(files') = ToSet(files)
  BY <1>1, <1>3, PathsInIs DEF InPathOrder
<1>5. Len(files') \in Nat /\ DOMAIN files' = 1..Len(files')
  BY <1>4, LenProperties
<1>6. /\ \A n \in 1..Len(files') : \E m \in 1..Len(files) : files'[n] = files[m]
      /\ \A m \in 1..Len(files) : \E n \in 1..Len(files') : files'[n] = files[m]
  <2>1. ToSet(files') = {files'[n] : n \in 1..Len(files')}
    BY <1>5 DEF ToSet
  <2>2. ToSet(files) = {files[n] : n \in 1..Len(files)}
    BY <1>2 DEF ToSet
  <2> QED BY <1>4, <2>1, <2>2
<1>7. Len(opened) = 0 /\ 1..Len(opened) = {} /\ 1..Len(opened') = {}
  BY <1>1
<1>8. DigestKinds'
  BY <1>1, <1>4 DEF DigestInv, DigestKinds
<1>9. ApartInv'
  BY <1>4, <1>7 DEF ApartInv, FilesOnce
<1>10. SourcesInv'
  <2>1. \A n \in 1..Len(files') : files'[n] \in Covered
    BY <1>6 DEF DigestInv, SourcesInv
  <2>2. Covered' = Covered
    BY DEF Covered
  <2> QED BY <1>7, <2>1, <2>2 DEF SourcesInv
<1>11. FoundInv'
  <2> SUFFICES ASSUME NEW p \in Covered, p \notin edited, disk[p] \in Contents
               PROVE  \E n \in 1..Len(files') : files'[n] = p
    BY <1>1 DEF FoundInv
  <2>1. PICK m \in 1..Len(files) : files[m] = p
    BY <1>1, <1>7 DEF DigestInv, FoundInv
  <2> QED BY <1>6, <2>1
<1>12. CalmInv'
  <2>1. edited = {} => \A n \in 1..Len(files') : disk[files'[n]] \in Contents
    BY <1>6 DEF DigestInv, CalmInv
  <2> QED BY <1>1, <1>7, <2>1 DEF CalmInv
<1>13. HashInv'
  <2>1. InPathOrder(files') = files'
    BY <1>1, <1>4 DEF InPathOrder
  <2>2. Len(hashed') = 0 /\ 1..Len(hashed') = {}
    BY <1>1
  <2>3. InPathOrder(files)' = InPathOrder(files')
    BY DEF InPathOrder
  <2> QED BY <1>1, <1>5, <2>1, <2>2, <2>3 DEF HashInv
<1> QED BY <1>8, <1>9, <1>10, <1>11, <1>12, <1>13 DEF DigestInv

\* A file that is read, and one that cannot be.
LEMMA HashKeeps ==
  ASSUME DigestInv, Hash
  PROVE  DigestInv'
<1> DEFINE m == Len(hashed)
           p == files[m + 1]
<1>1. /\ phase = "hash" /\ m < Len(files) /\ opened' = opened /\ files' = files
      /\ disk' = disk /\ edited' = edited /\ edits' = edits /\ outputs' = outputs
  BY DEF Hash
<1>2. /\ files \in Seq(Paths) /\ Len(files) \in Nat
      /\ hashed \in Seq(Paths \X Contents) /\ m \in Nat
      /\ p \in Paths /\ m + 1 \in 1..Len(files)
  <2>1. /\ files \in Seq(Paths) /\ Len(files) \in Nat
        /\ hashed \in Seq(Paths \X Contents) /\ m \in Nat
    BY LenProperties DEF DigestInv, DigestKinds
  <2>2. m + 1 \in 1..Len(files)
    BY <1>1, <2>1
  <2> QED BY <2>1, <2>2, ElementOfSeq
<1> HIDE DEF p
<1>3. ApartInv' /\ SourcesInv'
  BY <1>1, NothingFound
<1>4. CASE disk[p] \in Contents /\ hashed' = Append(hashed, <<p, disk[p]>>) /\ phase' = phase
  <2> DEFINE e == <<p, disk[p]>>
             a == Append(hashed, e)
  <2>1. e \in Paths \X Contents /\ e[1] = p /\ e[2] = disk[p]
    BY <1>2, <1>4
  <2> HIDE DEF e
  <2>2. /\ a \in Seq(Paths \X Contents) /\ Len(a) = m + 1
        /\ \A k \in 1..m : a[k] = hashed[k]
        /\ a[m + 1] = e
    BY <1>2, <2>1, AppendProperties
  <2>3. hashed' = a
    BY <1>4 DEF e
  <2> HIDE DEF a
  <2>4. DigestKinds'
    BY <1>1, <1>4, <2>2, <2>3 DEF DigestInv, DigestKinds
  <2>5. FoundInv' /\ CalmInv'
    BY <1>1, <1>4 DEF DigestInv, FoundInv, CalmInv, Covered
  <2>6. ASSUME NEW k \in 1..Len(hashed')
        PROVE  /\ hashed'[k][1] = files[k]
               /\ files[k] \notin edited => hashed'[k][2] = disk[files[k]]
    <3>1. k \in 1..m \/ k = m + 1
      BY <1>2, <2>2, <2>3
    <3>2. CASE k \in 1..m
      BY <1>1, <2>2, <2>3, <3>2 DEF DigestInv, HashInv
    <3>3. CASE k = m + 1
      BY <2>1, <2>2, <2>3, <3>3 DEF p
    <3> QED BY <3>1, <3>2, <3>3
  <2>7. Len(hashed') <= Len(files)
    BY <1>1, <1>2, <2>2, <2>3
  <2>8. HashInv'
    BY <1>1, <1>4, <2>6, <2>7 DEF DigestInv, HashInv, InPathOrder
  <2> QED BY <1>3, <2>4, <2>5, <2>8 DEF DigestInv
<1>5. CASE disk[p] \notin Contents /\ phase' = "failed" /\ hashed' = hashed
  <2>1. edited # {}
    BY <1>2, <1>5 DEF DigestInv, CalmInv, p
  <2>2. DigestKinds' /\ FoundInv' /\ CalmInv' /\ HashInv'
    BY <1>1, <1>5, <2>1 DEF DigestInv, DigestKinds, FoundInv, CalmInv, HashInv
  <2> QED BY <1>3, <2>2 DEF DigestInv
<1> QED BY <1>4, <1>5 DEF Hash, p

\* The last file was hashed.
LEMMA HashDoneKeeps ==
  ASSUME DigestInv, HashDone
  PROVE  DigestInv'
<1>1. /\ phase = "hash" /\ phase' = "done" /\ Len(hashed) = Len(files)
      /\ opened' = opened /\ files' = files /\ hashed' = hashed
      /\ disk' = disk /\ edited' = edited /\ edits' = edits /\ outputs' = outputs
  BY DEF HashDone
<1>2. DigestKinds' /\ ApartInv' /\ SourcesInv'
  <2>1. DigestKinds'
    BY <1>1 DEF DigestInv, DigestKinds
  <2> QED BY <1>1, <2>1, NothingFound
<1>3. FoundInv' /\ CalmInv'
  BY <1>1 DEF DigestInv, FoundInv, CalmInv, Covered
<1>4. HashInv'
  BY <1>1 DEF DigestInv, HashInv, InPathOrder
<1> QED BY <1>2, <1>3, <1>4 DEF DigestInv

-----------------------------------------------------------------------------
(***************************************************************************)
(* TreeDigest: so do the others, and it is what was to be shown            *)
(***************************************************************************)

\* File p is written, or removed by an editor.
LEMMA WriteKeeps ==
  ASSUME DigestInv, Running, NEW p \in Paths, NEW v \in Contents \cup {NoFile},
         disk' = [disk EXCEPT ![p] = v], UNCHANGED walk,
         edits' \in 0..MaxEdits, outputs' \in 0..MaxOutputs,
         edited' = edited \cup ({p} \cap Covered), p \notin Covered => v \in Contents
  PROVE  DigestInv'
<1>1. /\ phase' = phase /\ opened' = opened /\ files' = files /\ hashed' = hashed
      /\ edited \subseteq edited'
  BY DEF walk
<1>2. /\ disk' \in FileTrees /\ disk \in FileTrees
      /\ \A q \in Paths : disk'[q] = IF q = p THEN v ELSE disk[q]
  BY DEF DigestInv, DigestKinds, FileTrees
<1>3. DigestKinds'
  BY <1>1, <1>2 DEF DigestInv, DigestKinds
<1>4. ApartInv' /\ SourcesInv'
  BY <1>1, NothingFound
<1>5. Covered' = Covered /\ Covered \subseteq Paths
  BY DEF Covered
<1>6. \A q \in Covered : q \notin edited' => q \notin edited /\ disk'[q] = disk[q]
  BY <1>2, <1>5
<1>7. FoundInv'
  BY <1>1, <1>5, <1>6 DEF DigestInv, FoundInv
<1>8. CalmInv'
  <2> SUFFICES ASSUME edited' = {}
               PROVE  /\ phase # "failed"
                      /\ \A k \in 1..Len(opened) : \A e \in opened[k] :
                           \E q \in Paths : IsPrefix(e, q) /\ disk'[q] # NoFile
                      /\ \A n \in 1..Len(files) : disk'[files[n]] \in Contents
    BY <1>1 DEF CalmInv
  <2>1. edited = {} /\ p \notin Covered /\ v \in Contents
    BY <1>1
  <2>2. v # NoFile
    BY <2>1, TreesAssumption
  <2>3. \A q \in Paths : disk[q] # NoFile => disk'[q] # NoFile
    BY <1>2, <2>2
  <2>4. \A n \in 1..Len(files) : files[n] \in Paths
    BY ElementOfSeq DEF DigestInv, DigestKinds
  <2>5. \A n \in 1..Len(files) : disk'[files[n]] \in Contents
    BY <1>2, <2>1, <2>4 DEF DigestInv, CalmInv
  <2>6. \A k \in 1..Len(opened) : \A e \in opened[k] :
          \E q \in Paths : IsPrefix(e, q) /\ disk'[q] # NoFile
    BY <2>1, <2>3 DEF DigestInv, CalmInv
  <2> QED BY <2>1, <2>5, <2>6 DEF DigestInv, CalmInv
<1>9. HashInv'
  <2>1. ASSUME phase = "hash", NEW k \in 1..Len(hashed), files[k] \notin edited'
        PROVE  hashed[k][2] = disk'[files[k]]
    <3>1. k \in 1..Len(files)
      <4>1. Len(hashed) \in Nat /\ Len(files) \in Nat /\ Len(hashed) <= Len(files)
        BY <2>1, LenProperties DEF DigestInv, DigestKinds, HashInv
      <4> QED BY <4>1
    <3>2. files[k] \in Covered
      BY <3>1 DEF DigestInv, SourcesInv
    <3> QED BY <1>6, <2>1, <3>2 DEF DigestInv, HashInv
  <2>2. phase # "done"
    BY DEF Running
  <2> QED BY <1>1, <2>1, <2>2 DEF DigestInv, HashInv, InPathOrder
<1> QED BY <1>3, <1>4, <1>7, <1>8, <1>9 DEF DigestInv

\* The root has just been listed.
LEMMA DigestInitial == DigestInit => DigestInv
<1> SUFFICES ASSUME DigestInit PROVE DigestInv
  OBVIOUS
<1> DEFINE R == ReadDir(<<>>)
<1>1. /\ disk \in InitTrees /\ phase = "collect" /\ opened = <<R>>
      /\ files = <<>> /\ hashed = <<>> /\ edited = {} /\ edits = 0 /\ outputs = 0
  BY DEF DigestInit
<1>2. <<>> \in Seq(STRING) /\ <<>> \notin Paths /\ Len(<<>>) = 0
  BY TreesAssumption, EmptySeq
<1>3. /\ R \subseteq Listable
      /\ \A g \in R : Len(g) = 1 /\ \E p \in Paths : IsPrefix(g, p) /\ disk[p] # NoFile
      /\ \A f, g \in R : IsPrefix(f, g) => f = g
      /\ \A p \in Paths : IsPrefix(<<>>, p) /\ disk[p] # NoFile => \E g \in R : IsPrefix(g, p)
  <2> DEFINE d == <<>>
  <2>1. d \in Seq(STRING) /\ d \notin Paths /\ Len(d) = 0 /\ R = ReadDir(d)
    BY <1>2
  <2> HIDE DEF d, R
  <2>2. /\ R \subseteq Listable
        /\ \A g \in R : /\ Len(g) = Len(d) + 1
                        /\ \E p \in Paths : IsPrefix(g, p) /\ disk[p] # NoFile
        /\ \A f, g \in R : IsPrefix(f, g) => f = g
        /\ \A p \in Paths : IsPrefix(d, p) /\ disk[p] # NoFile => \E g \in R : IsPrefix(g, p)
    BY <2>1, ReadDirIs
  <2> QED BY <2>1, <2>2 DEF d
<1> HIDE DEF R
<1>4. Len(opened) = 1 /\ opened[1] = R /\ opened \in Seq(SUBSET Listable)
  BY <1>1, <1>3
<1>5. 1..Len(opened) = {1} /\ Len(files) = 0 /\ 1..Len(files) = {} /\ DOMAIN files = {}
  BY <1>1, <1>4
<1>6. DigestKinds
  BY <1>1, <1>4, TreesAssumption DEF DigestKinds
<1>7. ApartInv
  BY <1>3, <1>4, <1>5 DEF ApartInv, FilesOnce, IsInjective
<1>8. SourcesInv
  <2>1. ASSUME NEW e \in R PROVE 1..(Len(e) - 1) = {}
    <3> DEFINE l == Len(e)
    <3>1. l = 1
      BY <1>3
    <3> HIDE DEF l
    <3>2. 1..(l - 1) = {}
      BY <3>1
    <3> QED BY <3>2 DEF l
  <2> QED BY <1>4, <1>5, <2>1 DEF SourcesInv
<1>9. FoundInv
  <2> SUFFICES ASSUME NEW p \in Covered, disk[p] \in Contents
               PROVE  \E f \in R : IsPrefix(f, p)
    BY <1>4, <1>5 DEF FoundInv
  <2>1. p \in Paths /\ p \in Seq(STRING) /\ disk[p] # NoFile
    BY PathsAre, TreesAssumption DEF Covered
  <2>2. IsPrefix(<<>>, p)
    <3>1. Len(<<>>) <= Len(p) /\ 1..Len(<<>>) = {}
      BY <1>2, <2>1, LenProperties
    <3> QED BY <1>2, <2>1, <3>1, PrefixIs
  <2> QED BY <1>3, <2>1, <2>2
<1>10. CalmInv
  BY <1>1, <1>3, <1>4, <1>5 DEF CalmInv
<1>11. HashInv
  BY <1>1 DEF HashInv
<1> QED BY <1>6, <1>7, <1>8, <1>9, <1>10, <1>11 DEF DigestInv

\* Every step, of the walk or of the others, keeps the invariant.
LEMMA DigestStep == DigestInv /\ [DigestNext]_digestVars => DigestInv'
<1> SUFFICES ASSUME DigestInv, [DigestNext]_digestVars PROVE DigestInv'
  OBVIOUS
<1>1. CASE CollectEntry
  <2>1. PICK e \in Open : Skip(e) \/ Push(e) \/ Descend(e)
    BY <1>1 DEF CollectEntry
  <2>2. phase = "collect" /\ opened # <<>> /\ Still
    BY <1>1 DEF CollectEntry, Still
  <2> QED BY <2>1, <2>2, SkipKeeps, PushKeeps, DescendKeeps
<1>2. CASE Return
  BY <1>2, ReturnKeeps
<1>3. CASE Sort
  BY <1>3, SortKeeps
<1>4. CASE Hash
  BY <1>4, HashKeeps
<1>5. CASE HashDone
  BY <1>5, HashDoneKeeps
<1>6. CASE Edit
  <2>1. PICK p \in Covered, v \in Contents \cup {NoFile} :
          disk' = [disk EXCEPT ![p] = v] /\ edited' = edited \cup {p}
    BY <1>6 DEF Edit
  <2>2. /\ Running /\ UNCHANGED walk /\ edits' \in 0..MaxEdits /\ outputs' \in 0..MaxOutputs
        /\ p \in Paths /\ {p} = {p} \cap Covered
    BY <1>6, <2>1, TreesAssumption DEF Edit, DigestInv, DigestKinds, Covered
  <2> QED BY <2>1, <2>2, WriteKeeps
<1>7. CASE WriteOutput
  <2>1. PICK p \in Paths, v \in Contents :
          disk' = [disk EXCEPT ![p] = v] /\ edited' = edited \cup ({p} \cap Covered)
    BY <1>7 DEF WriteOutput
  <2>2. Running /\ UNCHANGED walk /\ edits' \in 0..MaxEdits /\ outputs' \in 0..MaxOutputs
    BY <1>7, TreesAssumption DEF WriteOutput, DigestInv, DigestKinds
  <2> QED BY <2>1, <2>2, WriteKeeps
<1>8. CASE UNCHANGED digestVars
  <2>1. /\ disk' = disk /\ phase' = phase /\ opened' = opened /\ files' = files
        /\ hashed' = hashed /\ edited' = edited /\ edits' = edits /\ outputs' = outputs
    BY <1>8 DEF digestVars
  <2>2. DigestKinds' /\ ApartInv' /\ SourcesInv'
    <3>1. DigestKinds'
      BY <2>1 DEF DigestInv, DigestKinds
    <3> QED BY <2>1, <3>1, NothingFound
  <2>3. FoundInv' /\ CalmInv' /\ HashInv'
    BY <2>1 DEF DigestInv, FoundInv, CalmInv, HashInv, Covered, InPathOrder
  <2> QED BY <2>2, <2>3 DEF DigestInv
<1> QED BY <1>1, <1>2, <1>3, <1>4, <1>5, <1>6, <1>7, <1>8 DEF DigestNext

\* The invariant gives all that DigestCorrect asks.
LEMMA DigestIsCorrectIn ==
  ASSUME DigestInv
  PROVE  DigestCorrect
<1> DEFINE L == Len(files)
<1>1. /\ files \in Seq(Paths) /\ L \in Nat /\ DOMAIN files = 1..L
      /\ hashed \in Seq(Paths \X Contents) /\ Len(hashed) \in Nat /\ DOMAIN hashed = 1..Len(hashed)
  BY LenProperties DEF DigestInv, DigestKinds
<1>2. DigestTypeOK
  <2>1. \A k \in DOMAIN opened : opened[k] \in SUBSET Listable
    <3>1. DOMAIN opened = 1..Len(opened)
      BY LenProperties DEF DigestInv, DigestKinds
    <3> QED BY <3>1, ElementOfSeq DEF DigestInv, DigestKinds
  <2>2. \A k \in DOMAIN opened : \A p \in opened[k] : \E q \in Paths : IsPrefix(p, q)
    BY <2>1 DEF Listable
  <2> QED BY <2>2 DEF DigestInv, DigestKinds, DigestTypeOK
<1>3. ASSUME phase = "done"
      PROVE  /\ Len(hashed) = L
             /\ \A k \in 1..L : /\ hashed[k] = <<files[k], hashed[k][2]>>
                                /\ files[k] \notin edited => hashed[k][2] = disk[files[k]]
             /\ \A p \in Covered \ edited : disk[p] \in Contents => \E k \in 1..L : files[k] = p
  <2>1. Len(hashed) = L
    BY <1>3 DEF DigestInv, HashInv
  <2>2. ASSUME NEW k \in 1..L
        PROVE  hashed[k] = <<files[k], hashed[k][2]>>
               /\ (files[k] \notin edited => hashed[k][2] = disk[files[k]])
    <3>1. hashed[k] \in Paths \X Contents
      BY <1>1, <2>1, ElementOfSeq
    <3>2. hashed[k][1] = files[k] /\ (files[k] \notin edited => hashed[k][2] = disk[files[k]])
      BY <1>3, <2>1 DEF DigestInv, HashInv
    <3> QED BY <3>1, <3>2
  <2>3. 1..Len(opened) = {}
    BY <1>3 DEF DigestInv, HashInv
  <2>4. \A p \in Covered \ edited : disk[p] \in Contents => \E k \in 1..L : files[k] = p
    BY <1>3, <2>3 DEF DigestInv, FoundInv
  <2> QED BY <2>1, <2>2, <2>4
<1>4. DigestOfSources
  <2>1. phase = "failed" => edited # {}
    BY DEF DigestInv, CalmInv
  <2>2. ASSUME phase = "done", edited = {} PROVE hashed = Blocks(disk)
    <3> DEFINE X == {p \in Covered : disk[p] \in Contents}
    <3>1. ToSet(files) = X
      <4>1. \A k \in 1..L : files[k] \in X
        BY <2>2 DEF DigestInv, SourcesInv, CalmInv
      <4>2. \A p \in X : \E k \in 1..L : files[k] = p
        BY <1>3, <2>2
      <4> HIDE DEF X
      <4> QED BY <1>1, <4>1, <4>2 DEF ToSet
    <3>2. files = PathsIn(X)
      <4>1. files = PathsIn(ToSet(files))
        BY <2>2 DEF DigestInv, HashInv, InPathOrder
      <4> HIDE DEF X
      <4> QED BY <3>1, <4>1
    <3> HIDE DEF X
    <3>3. Blocks(disk) = [k \in 1..L |-> <<files[k], disk[files[k]]>>]
      BY <1>1, <3>2 DEF Blocks, X
    <3>4. \A k \in 1..L : hashed[k] = <<files[k], disk[files[k]]>>
      BY <1>3, <2>2
    <3>5. DOMAIN hashed = 1..L
      BY <1>1, <1>3, <2>2
    <3>6. hashed = [k \in 1..L |-> hashed[k]]
      <4>1. hashed \in [1..L -> Paths \X Contents]
        BY <1>1, <1>3, <2>2, LenProperties
      <4> HIDE DEF L
      <4> QED BY <4>1
    <3> QED BY <3>3, <3>4, <3>6
  <2> QED BY <2>1, <2>2 DEF DigestOfSources, Digest
<1>5. UntouchedRead
  <2> SUFFICES ASSUME phase = "done"
               PROVE  /\ \A k \in DOMAIN hashed : hashed[k][1] \in Covered
                      /\ \A p \in Covered \ edited : disk[p] \in Contents =>
                           Cardinality({k \in DOMAIN hashed : hashed[k] = <<p, disk[p]>>}) = 1
    BY DEF UntouchedRead
  <2>1. DOMAIN hashed = 1..L
    BY <1>1, <1>3
  <2>2. \A k \in 1..L : hashed[k][1] \in Covered
    <3>1. \A k \in 1..L : hashed[k][1] = files[k]
      BY <1>3 DEF DigestInv, HashInv
    <3> QED BY <3>1 DEF DigestInv, SourcesInv
  <2>3. ASSUME NEW p \in Covered \ edited, disk[p] \in Contents
        PROVE  Cardinality({k \in DOMAIN hashed : hashed[k] = <<p, disk[p]>>}) = 1
    <3>1. PICK n \in 1..L : files[n] = p
      BY <1>3, <2>3
    <3>2. hashed[n] = <<p, disk[p]>>
      BY <1>3, <3>1
    <3>3. ASSUME NEW k \in 1..L, hashed[k] = <<p, disk[p]>> PROVE k = n
      <4>1. files[k] = p
        BY <1>3, <3>3
      <4> QED BY <1>1, <3>1, <4>1 DEF DigestInv, ApartInv, FilesOnce, IsInjective
    <3>4. {k \in DOMAIN hashed : hashed[k] = <<p, disk[p]>>} = {n}
      BY <2>1, <3>2, <3>3
    <3> QED BY <3>4, FS_Singleton
  <2> QED BY <2>1, <2>2, <2>3
<1> QED BY <1>2, <1>4, <1>5 DEF DigestCorrect, DigestInv, ApartInv

\* Whatever is edited and written while tree_sha256 walks (digest.rs:50-107), a walk
\* that ends has read every other source once and nothing but sources, and an
\* undisturbed one succeeds and digests its sources in the order of their paths.
THEOREM DigestIsCorrect == DigestSpec => []DigestCorrect
<1>1. DigestInv => DigestCorrect
  BY DigestIsCorrectIn
<1> QED BY <1>1, DigestInitial, DigestStep, PTL DEF DigestSpec
-----------------------------------------------------------------------------
(***************************************************************************)
(* TreeDigest: what the digest tells apart                                 *)
(***************************************************************************)

\* The recursion of FlattenSeq has a solution, so that FlattenSeq satisfies it.
LEMMA FlattenDef ==
  ASSUME NEW s, Len(s) \in Nat \ {0}
  PROVE  \E f : /\ f = [i \in 1..Len(s) |-> IF i = 1 THEN s[i] ELSE f[i - 1] \o s[i]]
                /\ FlattenSeq(s) = f[Len(s)]
<1> DEFINE Joined(x, i) == x \o s[i]
           Solves(f, m) == f = [i \in 1..m |-> IF i = 1 THEN s[i] ELSE Joined(f[i - 1], i)]
           G == {m \in Nat : \E f : Solves(f, m + 1)}
<1>0. FlattenSeq(s) = (CHOOSE f : Solves(f, Len(s)))[Len(s)]
  BY DEF FlattenSeq
<1>a. \A x, i : Joined(x, i) = x \o s[i]
  OBVIOUS
<1> HIDE DEF Joined
<1>1. 0 \in G
  <2>1. Solves([i \in 1..1 |-> s[i]], 1)
    OBVIOUS
  <2> HIDE DEF Solves
  <2> QED BY <2>1
<1>2. \A m \in Nat : m \in G => m + 1 \in G
  <2> SUFFICES ASSUME NEW m \in Nat, NEW f, Solves(f, m + 1)
               PROVE  \E g : Solves(g, m + 2)
    <3>1. \A m \in Nat : (m + 1) + 1 = m + 2
      OBVIOUS
    <3> HIDE DEF Solves
    <3> QED BY <3>1
  <2> DEFINE g == [i \in 1..(m + 2) |-> IF i \in 1..(m + 1) THEN f[i] ELSE Joined(f[m + 1], m + 2)]
  <2>1. \A i \in 1..(m + 2) : g[i] = IF i = 1 THEN s[i] ELSE Joined(g[i - 1], i)
    <3> TAKE i \in 1..(m + 2)
    <3>1. CASE i = 1
      BY <3>1
    <3>2. CASE i \in 2..(m + 1)
      <4>1. g[i] = f[i] /\ g[i - 1] = f[i - 1]
        BY <3>2
      <4>2. f[i] = Joined(f[i - 1], i)
        BY <3>2
      <4> QED BY <3>2, <4>1, <4>2
    <3>3. CASE i = m + 2
      <4>1. g[i] = Joined(f[m + 1], i) /\ g[i - 1] = f[m + 1]
        BY <3>3
      <4> QED BY <3>3, <4>1
    <3> QED BY <3>1, <3>2, <3>3
  <2>2. DOMAIN g = 1..(m + 2) /\ g = [i \in 1..(m + 2) |-> g[i]]
    OBVIOUS
  <2>3. Solves(g, m + 2)
    <3> HIDE DEF g
    <3> QED BY <2>1, <2>2
  <2> HIDE DEF Solves, g
  <2> QED BY <2>3
<1>3. Len(s) - 1 \in Nat /\ (Len(s) - 1) + 1 = Len(s)
  OBVIOUS
<1>4. Len(s) - 1 \in G
  <2> HIDE DEF G
  <2> QED BY <1>1, <1>2, <1>3, NatSetInduction
<1>5. \E f : Solves(f, Len(s))
  <2> HIDE DEF Solves
  <2> QED BY <1>3, <1>4
<1>6. PICK f : f = CHOOSE g : Solves(g, Len(s))
  OBVIOUS
<1>7. Solves(f, Len(s)) /\ FlattenSeq(s) = f[Len(s)]
  <2> HIDE DEF Solves
  <2> QED BY <1>0, <1>5, <1>6
<1> QED BY <1>7, <1>a

\* What FlattenSeq joins, one sequence after the other.
LEMMA FlattenRuns ==
  ASSUME NEW S, NEW s \in Seq(Seq(S))
  PROVE  \E g \in [0..Len(s) -> Seq(S)] :
           /\ g[0] = <<>> /\ \A k \in 1..Len(s) : g[k] = g[k - 1] \o s[k]
           /\ FlattenSeq(s) = g[Len(s)]
<1> DEFINE n == Len(s)
<1>0. n \in Nat /\ \A k \in 1..n : s[k] \in Seq(S)
  BY LenProperties, ElementOfSeq
<1>3. CASE n = 0
  <2> DEFINE g == [k \in 0..0 |-> <<>>]
  <2>1. FlattenSeq(s) = <<>>
    BY <1>3, EmptySeq DEF FlattenSeq
  <2>2. g \in [0..0 -> Seq(S)] /\ g[0] = <<>> /\ 1..0 = {}
    BY EmptySeq
  <2> HIDE DEF g
  <2> QED BY <1>3, <2>1, <2>2
<1>4. CASE n # 0
  <2>1. PICK f : /\ f = [i \in 1..n |-> IF i = 1 THEN s[i] ELSE f[i - 1] \o s[i]]
                 /\ FlattenSeq(s) = f[n]
    BY <1>0, <1>4, FlattenDef
  <2> HIDE DEF n
  <2> DEFINE J(x, i) == x \o s[i]
             g == [k \in 0..n |-> IF k = 0 THEN <<>> ELSE f[k]]
             H == {k \in Nat : k <= n => g[k] \in Seq(S)}
  <2>2. \A k \in 1..n : f[k] = IF k = 1 THEN s[k] ELSE J(f[k - 1], k)
    BY <2>1
  <2>3. \A k \in 1..n : J(<<>>, k) = s[k]
    BY <1>0, ConcatEmptySeq
  <2>4. \A x \in Seq(S), k \in 1..n : J(x, k) \in Seq(S)
    BY <1>0, ConcatProperties
  <2>5. <<>> \in Seq(S)
    BY EmptySeq
  <2> HIDE DEF J
  <2>6. /\ g[0] = <<>> /\ DOMAIN g = 0..n /\ g = [k \in 0..n |-> g[k]]
        /\ FlattenSeq(s) = g[n]
    BY <1>0, <1>4, <2>1
  <2>7. \A k \in 1..n : g[k] = J(g[k - 1], k)
    <3> SUFFICES ASSUME NEW k \in 1..n PROVE g[k] = J(g[k - 1], k)
      OBVIOUS
    <3>1. g[k] = f[k] /\ g[k - 1] = IF k = 1 THEN <<>> ELSE f[k - 1]
      BY <1>0
    <3> HIDE DEF g
    <3> QED BY <2>2, <2>3, <3>1
  <2> HIDE DEF g
  <2>8. 0 \in H
    BY <2>5, <2>6
  <2>9. \A k \in Nat : k \in H => k + 1 \in H
    <3> SUFFICES ASSUME NEW k \in Nat, k + 1 <= n, g[k] \in Seq(S) PROVE g[k + 1] \in Seq(S)
      BY <1>0
    <3>1. k + 1 \in 1..n /\ (k + 1) - 1 = k
      BY <1>0
    <3> QED BY <2>4, <2>7, <3>1
  <2>10. Nat \subseteq H
    <3> HIDE DEF H
    <3> QED BY <2>8, <2>9, NatSetInduction
  <2>11. \A k \in 0..n : g[k] \in Seq(S)
    BY <1>0, <2>10
  <2>12. g \in [0..n -> Seq(S)]
    BY <2>6, <2>11
  <2> QED BY <2>6, <2>7, <2>12 DEF n, J
<1> QED BY <1>3, <1>4

\* The tokens of names and contents, and what a file adds to the hash of a tree.
Tokens == Paths \cup {NewLine} \cup UNION {ToSet(c) : c \in Contents}
Chunk(t, p) ==
  IF p \in Covered /\ t[p] \in Contents THEN <<p, NewLine>> \o t[p] \o <<NewLine>> ELSE <<>>

\* What two sequences have in common at an end can be dropped.
LEMMA CancelLeft ==
  ASSUME NEW S, NEW s \in Seq(S), NEW t \in Seq(S), NEW v \in Seq(S), v \o s = v \o t
  PROVE  s = t
BY ConcatSimplifications

LEMMA CancelRight ==
  ASSUME NEW S, NEW s \in Seq(S), NEW t \in Seq(S), NEW v \in Seq(S), s \o v = t \o v
  PROVE  s = t
BY ConcatSimplifications

LEMMA ChunkIs ==
  ASSUME NEW t \in FileTrees, NEW p \in Paths
  PROVE  /\ Chunk(t, p) \in Seq(Tokens)
         /\ p \in Covered /\ t[p] \in Contents =>
              /\ Chunk(t, p) # <<>>
              /\ \A u \in FileTrees : Chunk(u, p) = Chunk(t, p) => u[p] = t[p]
<1>1. \A c \in Contents : c \in Seq(Tokens)
  <2> TAKE c \in Contents
  <2>1. c \in Seq(ToSet(c))
    BY TreesAssumption
  <2>2. ToSet(c) \subseteq Tokens
    BY DEF Tokens
  <2> QED BY <2>1, <2>2, SeqMonotonic
<1> DEFINE a == <<p, NewLine>>
           z == <<NewLine>>
<1>2. a \in Seq(Tokens) /\ z \in Seq(Tokens) /\ <<>> \in Seq(Tokens) /\ Len(a) = 2 /\ a # <<>>
  <2>1. p \in Tokens /\ NewLine \in Tokens
    BY DEF Tokens
  <2> HIDE DEF Tokens
  <2> QED BY <2>1, EmptySeq
<1> HIDE DEF a, z
<1>3. \A c \in Contents : a \o c \in Seq(Tokens) /\ a \o c \o z \in Seq(Tokens) /\ a \o c \o z # <<>>
  <2> TAKE c \in Contents
  <2>1. a \o c \in Seq(Tokens)
    BY <1>1, <1>2, ConcatProperties
  <2>2. a \o c # <<>>
    BY <1>1, <1>2, ConcatEqualIffEmpty
  <2>3. (a \o c) \o z \in Seq(Tokens)
    BY <1>2, <2>1, ConcatProperties
  <2>4. (a \o c) \o z # <<>>
    BY <1>2, <2>1, <2>2, ConcatEqualIffEmpty
  <2> QED BY <2>1, <2>3, <2>4
<1>4. \A c, d \in Contents : a \o c \o z = a \o d \o z => c = d
  <2> SUFFICES ASSUME NEW c \in Contents, NEW d \in Contents, a \o c \o z = a \o d \o z PROVE c = d
    OBVIOUS
  <2>1. a \o c \in Seq(Tokens) /\ a \o d \in Seq(Tokens)
    BY <1>3
  <2>2. a \o c = a \o d
    BY <1>2, <2>1, CancelRight
  <2> QED BY <1>1, <1>2, <2>2, CancelLeft
<1>5. \A u : Chunk(u, p) = IF p \in Covered /\ u[p] \in Contents THEN a \o u[p] \o z ELSE <<>>
  BY DEF Chunk, a, z
<1> QED BY <1>2, <1>3, <1>4, <1>5

\* The digest of a tree, path by path.
LEMMA DigestRuns ==
  ASSUME NEW t \in FileTrees
  PROVE  \E g \in [0..Len(Order) -> Seq(Tokens)] :
           /\ g[0] = <<>>
           /\ \A n \in 1..Len(Order) : g[n] = g[n - 1] \o Chunk(t, Order[n])
           /\ HashedBytes(Blocks(t)) = g[Len(Order)]
<1> DEFINE N == Len(Order)
           X == {p \in Covered : t[p] \in Contents}
           I == {n \in 1..N : Order[n] \in X}
           c == Cardinality(I)
           A == Ascending(I)
           B == [k \in 1..c |-> Chunk(t, Order[A[k]])]
<1>1. N \in Nat /\ \A n \in 1..N : Order[n] \in Paths
  <2>1. N \in Nat /\ DOMAIN Order = 1..N
    BY TreesAssumption, LenProperties
  <2> QED BY <2>1 DEF Paths, ToSet
<1>2. I \subseteq 1..N
  OBVIOUS
<1>3. \A n \in 1..N : n \in I <=> Order[n] \in X
  OBVIOUS
<1>4. \A k \in 1..c : A[k] = Place(I, k)
  BY DEF Ascending, Place
<1>5. PathsIn(X) = [k \in 1..c |-> Order[Place(I, k)]]
  BY DEF PathsIn
<1> HIDE DEF N, I
<1>6. /\ c \in Nat /\ A \in [1..c -> I]
      /\ \A i \in I : UpTo(I, i) \in 1..c /\ A[UpTo(I, i)] = i
  BY <1>1, <1>2, AscendingProperties
<1> HIDE DEF A
<1>7. PathsIn(X) = [k \in 1..c |-> Order[A[k]]]
  BY <1>4, <1>5
<1>8. \A k \in 1..c : A[k] \in I /\ A[k] \in 1..N /\ Order[A[k]] \in X /\ Order[A[k]] \in Paths
  BY <1>1, <1>2, <1>3, <1>6
<1>9. HashedBytes(Blocks(t)) = FlattenSeq(B)
  <2> DEFINE D == [k \in 1..c |-> <<Order[A[k]], t[Order[A[k]]]>>]
  <2>1. Blocks(t) = D
    BY <1>7 DEF Blocks
  <2>2. \A k \in 1..c : <<D[k][1], NewLine>> \o D[k][2] \o <<NewLine>> = Chunk(t, Order[A[k]])
    BY <1>8 DEF Chunk
  <2>3. DOMAIN D = 1..c
    OBVIOUS
  <2>4. B = [k \in DOMAIN D |-> <<D[k][1], NewLine>> \o D[k][2] \o <<NewLine>>]
    <3> HIDE DEF D
    <3> QED BY <2>2, <2>3
  <2> HIDE DEF B, D
  <2> QED BY <2>1, <2>4 DEF HashedBytes
<1>10. B \in Seq(Seq(Tokens)) /\ Len(B) = c
  <2>1. \A k \in 1..c : Chunk(t, Order[A[k]]) \in Seq(Tokens)
    BY <1>8, ChunkIs
  <2>2. B \in [1..c -> Seq(Tokens)]
    BY <2>1
  <2>3. B \in Seq(Seq(Tokens))
    <3> HIDE DEF B
    <3> QED BY <1>6, <2>2, SeqDef
  <2>4. DOMAIN B = 1..c
    OBVIOUS
  <2> HIDE DEF B
  <2> QED BY <1>6, <2>3, <2>4, LenProperties
<1>11. \A k \in 1..c : B[k] = Chunk(t, Order[A[k]])
  OBVIOUS
<1> HIDE DEF B
<1>12. PICK h \in [0..c -> Seq(Tokens)] :
         /\ h[0] = <<>> /\ \A k \in 1..c : h[k] = h[k - 1] \o B[k]
         /\ FlattenSeq(B) = h[c]
  BY <1>10, FlattenRuns
<1>13. /\ UpTo(I, 0) = 0 /\ UpTo(I, N) = c
       /\ \A n \in 1..N : UpTo(I, n) = IF n \in I THEN UpTo(I, n - 1) + 1 ELSE UpTo(I, n - 1)
       /\ \A n \in 0..N : UpTo(I, n) \in 0..c
  <2> DEFINE U(n) == {j \in I : j <= n}
  <2>0. \A j \in I : j \in 1..N /\ j <= N /\ ~(j <= 0)
    BY <1>1, <1>2
  <2>1. U(0) = {} /\ U(N) = I /\ \A j \in I : j \in 1..N
    BY <2>0
  <2>2. \A n \in 1..N : n \notin U(n - 1) /\ U(n) = IF n \in I THEN U(n - 1) \cup {n} ELSE U(n - 1)
    <3> SUFFICES ASSUME NEW n \in 1..N
                 PROVE  n \notin U(n - 1) /\ U(n) = IF n \in I THEN U(n - 1) \cup {n} ELSE U(n - 1)
      OBVIOUS
    <3>1. \A j \in I : j <= n <=> j <= n - 1 \/ j = n
      BY <1>1, <2>1
    <3> QED BY <3>1
  <2>3. IsFiniteSet(I)
    BY <1>1, <1>2, RankProperties
  <2>4. \A n \in 0..N : IsFiniteSet(U(n)) /\ Cardinality(U(n)) \in Nat /\ Cardinality(U(n)) <= c
    <3> TAKE n \in 0..N
    <3>1. U(n) \subseteq I
      OBVIOUS
    <3> HIDE DEF U
    <3> QED BY <2>3, <3>1, FS_Subset, FS_CardinalityType
  <2>5. \A n \in Int : UpTo(I, n) = Cardinality(U(n))
    BY DEF UpTo
  <2> HIDE DEF U
  <2>6. ASSUME NEW n \in 1..N
        PROVE  UpTo(I, n) = IF n \in I THEN UpTo(I, n - 1) + 1 ELSE UpTo(I, n - 1)
    <3>1. n \in Int /\ n - 1 \in Int /\ n - 1 \in 0..N
      BY <1>1
    <3>2. n \in I => Cardinality(U(n - 1) \cup {n}) = Cardinality(U(n - 1)) + 1
      BY <2>2, <2>4, <3>1, FS_AddElement
    <3> QED BY <2>2, <2>5, <3>1, <3>2
  <2>7. Cardinality({}) = 0
    BY FS_EmptySet
  <2>8. \A n \in 0..N : UpTo(I, n) \in 0..c
    <3> TAKE n \in 0..N
    <3>1. n \in Int /\ UpTo(I, n) \in Nat /\ UpTo(I, n) <= c
      BY <1>1, <2>4, <2>5
    <3> HIDE DEF c
    <3> QED BY <1>6, <3>1
  <2>9. UpTo(I, 0) = 0 /\ UpTo(I, N) = c
    <3>1. UpTo(I, 0) = Cardinality(U(0)) /\ UpTo(I, N) = Cardinality(U(N))
      BY <1>1, <2>5
    <3> QED BY <2>1, <2>7, <3>1
  <2> QED BY <2>6, <2>8, <2>9
<1> DEFINE g == [n \in 0..N |-> h[UpTo(I, n)]]
<1>14. g \in [0..N -> Seq(Tokens)] /\ g[0] = <<>> /\ g[N] = h[c]
  BY <1>1, <1>12, <1>13
<1>15. ASSUME NEW n \in 1..N PROVE g[n] = g[n - 1] \o Chunk(t, Order[n])
  <2> DEFINE u == UpTo(I, n - 1)
  <2>1. n - 1 \in 0..N /\ n \in 0..N
    BY <1>1
  <2>2. g[n] = h[UpTo(I, n)] /\ g[n - 1] = h[u] /\ u \in 0..c /\ h[u] \in Seq(Tokens)
    BY <1>12, <1>13, <2>1
  <2> HIDE DEF g, u
  <2>3. CASE n \in I
    <3>1. UpTo(I, n) = u + 1 /\ u + 1 \in 1..c /\ (u + 1) - 1 = u
      BY <1>6, <1>13, <2>1, <2>2, <2>3 DEF u
    <3>2. h[u + 1] = h[u] \o B[u + 1]
      BY <1>12, <3>1
    <3>3. B[u + 1] = Chunk(t, Order[n])
      BY <1>6, <1>11, <2>3, <3>1
    <3> QED BY <2>2, <3>1, <3>2, <3>3
  <2>4. CASE n \notin I
    <3>1. UpTo(I, n) = u
      BY <1>13, <2>4 DEF u
    <3>2. Chunk(t, Order[n]) = <<>>
      BY <1>3, <2>4 DEF Chunk
    <3> QED BY <2>2, <3>1, <3>2, ConcatEmptySeq
  <2> QED BY <2>3, <2>4
<1> HIDE DEF g
<1> QED BY <1>9, <1>12, <1>14, <1>15 DEF N

\* One source changed makes another digest: what comes before it and after it is
\* the same.
LEMMA OneChangeTells ==
  ASSUME NEW t \in FileTrees, NEW p \in Covered, NEW c \in Contents \cup {NoFile},
         t[p] \notin {c, Link}
  PROVE  HashedBytes(Blocks(t)) # HashedBytes(Blocks([t EXCEPT ![p] = c]))
<1> DEFINE u == [t EXCEPT ![p] = c]
           N == Len(Order)
<1>1. /\ N \in Nat /\ p \in Paths
      /\ \A n \in 1..N : Order[n] \in Paths
      /\ \A m, n \in 1..N : Order[m] = Order[n] => m = n
      /\ \E n \in 1..N : p = Order[n]
  <2>1. N \in Nat /\ DOMAIN Order = 1..N
    BY TreesAssumption, LenProperties
  <2>2. p \in Paths
    BY DEF Covered
  <2> HIDE DEF N
  <2> QED BY <2>1, <2>2, TreesAssumption DEF Paths, ToSet, IsInjective
<1>2. u \in FileTrees /\ u[p] = c /\ \A q \in Paths : q # p => u[q] = t[q]
  BY <1>1 DEF FileTrees
<1>3. t[p] \in Contents \cup {Link, NoFile} /\ Link \notin Contents /\ NoFile \notin Contents
  BY <1>1, TreesAssumption DEF FileTrees
<1> HIDE DEF u, N
<1>4. PICK j \in 1..N : Order[j] = p
  BY <1>1
<1>5. PICK g \in [0..N -> Seq(Tokens)] :
        /\ g[0] = <<>> /\ \A n \in 1..N : g[n] = g[n - 1] \o Chunk(t, Order[n])
        /\ HashedBytes(Blocks(t)) = g[N]
  BY DigestRuns DEF N
<1>6. PICK h \in [0..N -> Seq(Tokens)] :
        /\ h[0] = <<>> /\ \A n \in 1..N : h[n] = h[n - 1] \o Chunk(u, Order[n])
        /\ HashedBytes(Blocks(u)) = h[N]
  BY <1>2, DigestRuns DEF N
<1>7. \A n \in 1..N : n # j => Chunk(u, Order[n]) = Chunk(t, Order[n])
  BY <1>1, <1>2, <1>4 DEF Chunk
<1>8. Chunk(t, p) # Chunk(u, p)
  <2>1. CASE t[p] \in Contents
    BY <1>1, <1>2, <2>1, ChunkIs
  <2>2. CASE u[p] \in Contents
    BY <1>1, <1>2, <2>2, ChunkIs
  <2> QED BY <1>2, <1>3, <2>1, <2>2
<1>9. \A n \in 1..N : Chunk(t, Order[n]) \in Seq(Tokens) /\ Chunk(u, Order[n]) \in Seq(Tokens)
  BY <1>1, <1>2, ChunkIs
<1>10. \A n \in 1..N : n - 1 \in 0..N /\ g[n - 1] \in Seq(Tokens) /\ h[n - 1] \in Seq(Tokens)
  <2>1. \A n \in 1..N : n - 1 \in 0..N
    BY <1>1
  <2> QED BY <2>1
<1> DEFINE E == {n \in Nat : n < j => g[n] = h[n]}
           F == {n \in Nat : \A k \in 1..N : k = j + n => g[k] # h[k]}
<1>11. Nat \subseteq E
  <2>1. 0 \in E
    BY <1>5, <1>6
  <2>2. \A n \in Nat : n \in E => n + 1 \in E
    <3>a. j \in Nat /\ N \in Nat /\ j <= N
      BY <1>1
    <3>b. ASSUME NEW n \in Nat, n \in E, n + 1 < j PROVE g[n + 1] = h[n + 1]
      <4>1. n + 1 \in 1..N /\ (n + 1) - 1 = n /\ n + 1 # j /\ n < j
        <5> HIDE DEF N, E
        <5> QED BY <3>a, <3>b
      <4>2. g[n] = h[n]
        BY <3>b, <4>1
      <4> QED BY <1>5, <1>6, <1>7, <4>1, <4>2
    <3>c. \A n \in Nat : (n + 1 < j => g[n + 1] = h[n + 1]) => n + 1 \in E
      OBVIOUS
    <3> HIDE DEF E
    <3> QED BY <3>b, <3>c
  <2> HIDE DEF E
  <2> QED BY <2>1, <2>2, NatSetInduction
<1>12. g[j] # h[j]
  <2>1. j - 1 \in Nat /\ j - 1 < j
    BY <1>1
  <2>2. g[j - 1] = h[j - 1]
    BY <1>11, <2>1
  <2>3. g[j] = g[j - 1] \o Chunk(t, p) /\ h[j] = g[j - 1] \o Chunk(u, p)
    BY <1>4, <1>5, <1>6, <2>2
  <2>4. g[j - 1] \in Seq(Tokens) /\ Chunk(t, p) \in Seq(Tokens) /\ Chunk(u, p) \in Seq(Tokens)
    BY <1>4, <1>9, <1>10
  <2>5. g[j - 1] \o Chunk(t, p) = g[j - 1] \o Chunk(u, p) => Chunk(t, p) = Chunk(u, p)
    BY <2>4, CancelLeft
  <2> QED BY <1>8, <2>3, <2>5
<1>13. Nat \subseteq F
  <2>1. 0 \in F
    BY <1>1, <1>12
  <2>2. \A n \in Nat : n \in F => n + 1 \in F
    <3> SUFFICES ASSUME NEW n \in Nat, n \in F, NEW k \in 1..N, k = j + (n + 1)
                 PROVE  g[k] # h[k]
      OBVIOUS
    <3>1. k - 1 = j + n /\ k # j /\ k - 1 \in 1..N
      BY <1>1
    <3>2. g[k - 1] # h[k - 1]
      BY <3>1
    <3>3. g[k] = g[k - 1] \o Chunk(t, Order[k]) /\ h[k] = h[k - 1] \o Chunk(t, Order[k])
      BY <1>5, <1>6, <1>7, <3>1
    <3>4. g[k - 1] \in Seq(Tokens) /\ h[k - 1] \in Seq(Tokens) /\ Chunk(t, Order[k]) \in Seq(Tokens)
      BY <1>9, <1>10
    <3>5. g[k - 1] \o Chunk(t, Order[k]) = h[k - 1] \o Chunk(t, Order[k]) => g[k - 1] = h[k - 1]
      BY <3>4, CancelRight
    <3> QED BY <3>2, <3>3, <3>5
  <2> HIDE DEF F
  <2> QED BY <2>1, <2>2, NatSetInduction
<1>14. g[N] # h[N]
  <2>1. N - j \in Nat /\ N \in 1..N /\ N = j + (N - j)
    BY <1>1
  <2> QED BY <1>13, <2>1
<1> QED BY <1>5, <1>6, <1>14 DEF u

\* The digest of an undisturbed walk is another one once one source is changed, added
\* or removed (digest.rs:54-66), whatever the other sources hold.
THEOREM OneChangeIsSeen == DigestSpec => []OneChangeSeen
<1>1. ASSUME DigestInv PROVE OneChangeSeen
  <2> SUFFICES ASSUME phase = "done", edited = {}, NEW p \in Covered,
                      NEW c \in Contents \cup {NoFile}, disk[p] \notin {c, Link}
               PROVE  Digest # HashedBytes(Blocks([disk EXCEPT ![p] = c]))
    BY DEF OneChangeSeen
  <2>1. Digest = HashedBytes(Blocks(disk))
    BY <1>1, DigestIsCorrectIn DEF DigestCorrect, DigestOfSources
  <2>2. disk \in FileTrees
    BY <1>1 DEF DigestInv, DigestKinds
  <2> QED BY <2>1, <2>2, OneChangeTells
<1> QED BY <1>1, DigestInitial, DigestStep, PTL DEF DigestSpec

-----------------------------------------------------------------------------
(***************************************************************************)
(* Scaffold: what is picked out of a sequence                              *)
(***************************************************************************)

\* What a join of sequences holds.
LEMMA FlattenHolds ==
  ASSUME NEW S, NEW s \in Seq(Seq(S))
  PROVE  /\ FlattenSeq(s) \in Seq(S)
         /\ ToSet(FlattenSeq(s)) = UNION {ToSet(s[i]) : i \in 1..Len(s)}
<1> DEFINE n == Len(s)
           U(k) == UNION {ToSet(s[i]) : i \in 1..k}
<1>1. n \in Nat /\ \A k \in 1..n : s[k] \in Seq(S)
  BY LenProperties, ElementOfSeq
<1>2. PICK g \in [0..n -> Seq(S)] :
        /\ g[0] = <<>> /\ \A k \in 1..n : g[k] = g[k - 1] \o s[k]
        /\ FlattenSeq(s) = g[n]
  BY FlattenRuns
<1> DEFINE H == {k \in Nat : k <= n => ToSet(g[k]) = U(k)}
<1>3. 0 \in H
  <2>1. ToSet(g[0]) = {}
    BY <1>2 DEF ToSet
  <2>2. U(0) = {}
    BY 1..0 = {}
  <2> HIDE DEF U
  <2> QED BY <2>1, <2>2
<1>a. n \in Nat
  BY <1>1
<1>4. \A k \in Nat : k \in H => k + 1 \in H
  <2> HIDE DEF U, n
  <2>a. ASSUME NEW k \in Nat, k \in H, k + 1 <= n PROVE ToSet(g[k]) = U(k)
    <3>1. k <= n
      BY <1>a, <2>a
    <3> QED BY <2>a, <3>1
  <2>b. ASSUME NEW k \in Nat, k + 1 <= n => ToSet(g[k + 1]) = U(k + 1) PROVE k + 1 \in H
    BY <2>b
  <2> SUFFICES ASSUME NEW k \in Nat, k + 1 <= n, ToSet(g[k]) = U(k) PROVE ToSet(g[k + 1]) = U(k + 1)
    <3> HIDE DEF H
    <3> QED BY <2>a, <2>b
  <2>1. k + 1 \in 1..n /\ (k + 1) - 1 = k /\ k \in 0..n
    BY <1>a
  <2>2. g[k + 1] = g[k] \o s[k + 1] /\ g[k] \in Seq(S) /\ s[k + 1] \in Seq(S)
    BY <1>1, <1>2, <2>1
  <2>3. ToSet(g[k + 1]) = ToSet(g[k]) \cup ToSet(s[k + 1])
    BY <2>2, ConcatHolds
  <2>4. U(k + 1) = U(k) \cup ToSet(s[k + 1])
    <3>1. \A i : i \in 1..(k + 1) <=> i \in 1..k \/ i = k + 1
      OBVIOUS
    <3> QED BY <3>1 DEF U
  <2> HIDE DEF U
  <2> QED BY <2>3, <2>4
<1>5. n \in H
  <2> HIDE DEF H
  <2> QED BY <1>1, <1>3, <1>4, NatSetInduction
<1>6. ToSet(g[n]) = U(n) /\ g[n] \in Seq(S)
  BY <1>1, <1>2, <1>5
<1> QED BY <1>2, <1>6

\* x stands in s at most once.
Once(s, x) == \A i, j \in 1..Len(s) : s[i] = x /\ s[j] = x => i = j

\* Picked keeps what is in S, and makes nothing appear twice.
LEMMA PickedIs ==
  ASSUME NEW X, NEW s \in Seq(X), NEW S
  PROVE  /\ Picked(s, S) \in Seq(X) /\ ToSet(Picked(s, S)) = ToSet(s) \cap S
         /\ \A x : Once(s, x) => Once(Picked(s, S), x)
<1> DEFINE n == Len(s)
           e == [i \in 1..n |-> IF s[i] \in S THEN <<s[i]>> ELSE <<>>]
<1>1. n \in Nat /\ DOMAIN s = 1..n /\ \A k \in 1..n : s[k] \in X
  BY LenProperties, ElementOfSeq
<1>2. /\ e \in Seq(Seq(X)) /\ Len(e) = n
      /\ \A k \in 1..n : e[k] = IF s[k] \in S THEN <<s[k]>> ELSE <<>>
  <2>1. \A k \in 1..n : (IF s[k] \in S THEN <<s[k]>> ELSE <<>>) \in Seq(X)
    <3> TAKE k \in 1..n
    <3>1. s[k] \in X
      BY <1>1
    <3> QED BY <3>1, EmptySeq
  <2>2. e \in [1..n -> Seq(X)]
    BY <2>1
  <2>3. DOMAIN e = 1..n
    OBVIOUS
  <2> QED BY <1>1, <2>2, <2>3, IsASeq, LenProperties
<1>3. Picked(s, S) = FlattenSeq(e)
  BY DEF Picked
<1> HIDE DEF e
<1>4. ToSet(FlattenSeq(e)) = UNION {ToSet(e[i]) : i \in 1..n} /\ FlattenSeq(e) \in Seq(X)
  BY <1>2, FlattenHolds
<1>5. \A k \in 1..n : ToSet(e[k]) = IF s[k] \in S THEN {s[k]} ELSE {}
  <2> TAKE k \in 1..n
  <2>1. CASE s[k] \in S
    <3>1. e[k] = <<s[k]>>
      BY <1>2, <2>1
    <3> QED BY <2>1, <3>1 DEF ToSet
  <2>2. CASE s[k] \notin S
    <3>1. e[k] = <<>>
      BY <1>2, <2>2
    <3> QED BY <2>2, <3>1 DEF ToSet
  <2> QED BY <2>1, <2>2
<1>6. ToSet(s) = {s[k] : k \in 1..n}
  BY <1>1 DEF ToSet
<1>7. ToSet(Picked(s, S)) = ToSet(s) \cap S
  <2>1. UNION {ToSet(e[i]) : i \in 1..n} = {s[k] : k \in 1..n} \cap S
    <3>1. ASSUME NEW x \in UNION {ToSet(e[i]) : i \in 1..n} PROVE x \in {s[k] : k \in 1..n} \cap S
      BY <1>5, <3>1
    <3>2. ASSUME NEW k \in 1..n, s[k] \in S PROVE s[k] \in UNION {ToSet(e[i]) : i \in 1..n}
      BY <1>5, <3>2
    <3> QED BY <3>1, <3>2
  <2> QED BY <1>3, <1>4, <1>6, <2>1
<1>8. ASSUME NEW x, Once(s, x) PROVE Once(Picked(s, S), x)
  <2>1. PICK g \in [0..n -> Seq(X)] :
          /\ g[0] = <<>> /\ \A k \in 1..n : g[k] = g[k - 1] \o e[k]
          /\ FlattenSeq(e) = g[n]
    <3>1. \E g \in [0..Len(e) -> Seq(X)] :
            /\ g[0] = <<>> /\ \A k \in 1..Len(e) : g[k] = g[k - 1] \o e[k]
            /\ FlattenSeq(e) = g[Len(e)]
      BY <1>2, FlattenRuns
    <3>2. Len(e) = n
      BY <1>2
    <3> HIDE DEF n
    <3> QED BY <3>1, <3>2
  <2> DEFINE Has(k) == \E i \in 1..k : s[i] = x
             H == {k \in Nat : k <= n => Once(g[k], x) /\ (x \in ToSet(g[k]) => Has(k))}
  <2>2. 0 \in H
    <3>1. Len(g[0]) = 0 /\ ToSet(g[0]) = {}
      BY <2>1 DEF ToSet
    <3> QED BY <3>1 DEF Once
  <2>3. \A k \in Nat : k \in H => k + 1 \in H
    <3> SUFFICES ASSUME NEW k \in Nat, k + 1 <= n, Once(g[k], x), x \in ToSet(g[k]) => Has(k)
                 PROVE  Once(g[k + 1], x) /\ (x \in ToSet(g[k + 1]) => Has(k + 1))
      BY <1>1
    <3>1. k + 1 \in 1..n /\ (k + 1) - 1 = k /\ k \in 0..n
      BY <1>1
    <3>2. g[k + 1] = g[k] \o e[k + 1] /\ g[k] \in Seq(X)
      BY <2>1, <3>1
    <3>3. CASE s[k + 1] \notin S
      <4>1. e[k + 1] = <<>>
        BY <1>2, <3>1, <3>3
      <4>2. g[k + 1] = g[k]
        BY <3>2, <4>1, ConcatEmptySeq
      <4>3. Has(k) => Has(k + 1)
        BY <3>1
      <4> HIDE DEF Has
      <4> QED BY <4>2, <4>3
    <3>4. CASE s[k + 1] \in S
      <4>1. e[k + 1] = <<s[k + 1]>> /\ s[k + 1] \in X
        BY <1>1, <1>2, <3>1, <3>4
      <4>2. g[k + 1] = Append(g[k], s[k + 1])
        BY <3>2, <4>1, AppendIsConcat
      <4>3. /\ ToSet(g[k + 1]) = ToSet(g[k]) \cup {s[k + 1]}
            /\ Len(g[k + 1]) = Len(g[k]) + 1 /\ Len(g[k]) \in Nat
            /\ \A i \in 1..Len(g[k]) : g[k + 1][i] = g[k][i] /\ g[k][i] \in ToSet(g[k])
            /\ g[k + 1][Len(g[k]) + 1] = s[k + 1]
        <5>1. Len(g[k]) \in Nat /\ DOMAIN g[k] = 1..Len(g[k])
          BY <3>2, LenProperties
        <5>2. \A i \in 1..Len(g[k]) : g[k][i] \in ToSet(g[k])
          BY <5>1 DEF ToSet
        <5>3. ToSet(g[k + 1]) = ToSet(g[k]) \cup {s[k + 1]}
          <6> DEFINE G == g[k]
                     y == s[k + 1]
          <6>1. G \in Seq(X) /\ y \in X /\ g[k + 1] = Append(G, y)
            BY <3>2, <4>1, <4>2
          <6> HIDE DEF G, y
          <6>2. ToSet(g[k + 1]) = ToSet(G) \cup {y}
            BY <6>1, AppendHolds
          <6> QED BY <6>2 DEF G, y
        <5>4. /\ Len(g[k + 1]) = Len(g[k]) + 1 /\ g[k + 1][Len(g[k]) + 1] = s[k + 1]
              /\ \A i \in 1..Len(g[k]) : g[k + 1][i] = g[k][i]
          <6> DEFINE G == g[k]
                     y == s[k + 1]
          <6>1. G \in Seq(X) /\ y \in X /\ g[k + 1] = Append(G, y) /\ Len(G) \in Nat
            BY <3>2, <4>1, <4>2, <5>1
          <6> HIDE DEF G, y
          <6>2. /\ Len(g[k + 1]) = Len(G) + 1 /\ g[k + 1][Len(G) + 1] = y
                /\ \A i \in 1..Len(G) : g[k + 1][i] = G[i]
            BY <6>1, AppendProperties
          <6> QED BY <6>2 DEF G, y
        <5> QED BY <5>1, <5>2, <5>3, <5>4
      <4>4. x \in ToSet(g[k + 1]) => Has(k + 1)
        <5>1. Has(k) => Has(k + 1)
          BY <3>1
        <5>2. x = s[k + 1] => Has(k + 1)
          BY <3>1
        <5> HIDE DEF Has
        <5> QED BY <4>3, <5>1, <5>2
      <4>5. x = s[k + 1] => ~Has(k)
        <5> SUFFICES ASSUME NEW i \in 1..k, s[i] = x, x = s[k + 1] PROVE FALSE
          OBVIOUS
        <5>1. i \in 1..n /\ i # k + 1
          BY <1>1, <3>1
        <5> QED BY <1>8, <3>1, <5>1 DEF Once
      <4>6. Once(g[k + 1], x)
        <5> SUFFICES ASSUME NEW i \in 1..(Len(g[k]) + 1), NEW j \in 1..(Len(g[k]) + 1),
                            g[k + 1][i] = x, g[k + 1][j] = x
                     PROVE  i = j
          BY <4>3 DEF Once
        <5>1. CASE i \in 1..Len(g[k])
          <6>1. x \in ToSet(g[k]) /\ g[k][i] = x
            BY <4>3, <5>1
          <6>2. j # Len(g[k]) + 1
            BY <4>3, <4>5, <6>1
          <6>3. j \in 1..Len(g[k])
            BY <4>3, <6>2
          <6> QED BY <4>3, <5>1, <6>1, <6>3 DEF Once
        <5>2. CASE i = Len(g[k]) + 1
          <6>1. x = s[k + 1]
            BY <4>3, <5>2
          <6>2. ~(j \in 1..Len(g[k]))
            BY <4>3, <4>5, <6>1
          <6> QED BY <4>3, <5>2, <6>2
        <5> QED BY <4>3, <5>1, <5>2
      <4> QED BY <4>4, <4>6
    <3> QED BY <3>3, <3>4
  <2>4. n \in H
    <3> HIDE DEF H
    <3> QED BY <1>1, <2>2, <2>3, NatSetInduction
  <2> QED BY <1>1, <1>3, <2>1, <2>4
<1> QED BY <1>3, <1>4, <1>7, <1>8

-----------------------------------------------------------------------------
(***************************************************************************)
(* Scaffold: the match of a name with the parts between the stars          *)
(* SegmentMatches takes each part where it occurs first; GlobMatches asks  *)
(* for any places.  The leftmost places leave the most to the parts that   *)
(* follow.                                                                 *)
(***************************************************************************)

\* The letters of s from the one after p up to M.
LEMMA WindowIs ==
  ASSUME NEW S, NEW s \in Seq(S), NEW p \in Nat, NEW M \in Nat, p <= M, M <= Len(s)
  PROVE  /\ SubSeq(s, p + 1, M) \in Seq(S) /\ Len(SubSeq(s, p + 1, M)) = M - p
         /\ \A k \in 1..(M - p) : SubSeq(s, p + 1, M)[k] = s[p + k]
<1>1. \A k \in (p + 1)..M : s[k] \in S
  <2> TAKE k \in (p + 1)..M
  <2>1. k \in 1..Len(s)
    BY LenProperties
  <2> QED BY <2>1, ElementOfSeq
<1>2. /\ SubSeq(s, p + 1, M) \in Seq(S)
      /\ Len(SubSeq(s, p + 1, M)) = IF p + 1 <= M THEN M - (p + 1) + 1 ELSE 0
      /\ \A k \in 1..(M - (p + 1) + 1) : SubSeq(s, p + 1, M)[k] = s[(p + 1) + k - 1]
  BY <1>1, SubSeqProperties
<1>3. M - (p + 1) + 1 = M - p /\ \A k \in Nat : (p + 1) + k - 1 = p + k
  OBVIOUS
<1> QED BY <1>2, <1>3

\* part stands in s after its first p letters.
Occurs(s, p, part) == \A j \in 1..Len(part) : s[p + j] = part[j]

LEMMA OccursIs ==
  ASSUME NEW S, NEW s \in Seq(S), NEW part \in Seq(S), NEW p \in Nat, p + Len(part) <= Len(s)
  PROVE  SubSeq(s, p + 1, p + Len(part)) = part <=> Occurs(s, p, part)
<1> DEFINE l == Len(part)
           w == SubSeq(s, p + 1, p + l)
<1>1. l \in Nat /\ Len(s) \in Nat
  BY LenProperties
<1>2. w \in Seq(S) /\ Len(w) = l /\ \A k \in 1..l : w[k] = s[p + k]
  <2>1. /\ SubSeq(s, p + 1, p + l) \in Seq(S) /\ Len(SubSeq(s, p + 1, p + l)) = (p + l) - p
        /\ \A k \in 1..((p + l) - p) : SubSeq(s, p + 1, p + l)[k] = s[p + k]
    <3> HIDE DEF l
    <3>1. p <= p + l /\ p + l \in Nat
      BY <1>1
    <3> QED BY <1>1, <3>1, WindowIs DEF l
  <2>2. (p + l) - p = l
    BY <1>1
  <2> QED BY <2>1, <2>2
<1> HIDE DEF w
<1>3. CASE Occurs(s, p, part)
  <2>1. w = part
    BY <1>2, <1>3, SeqEqual DEF Occurs
  <2> QED BY <1>3, <2>1 DEF w
<1>4. CASE w = part
  BY <1>2, <1>4 DEF Occurs, w
<1> QED BY <1>3, <1>4 DEF w

\* Where part stands in the window of s from p to M, and how AfterFirst cuts it.
Places(s, p, M, part) == {q \in p..(M - Len(part)) : Occurs(s, q, part)}
CutFirst(s, p, M, part) ==
  \/ /\ Places(s, p, M, part) = {}
     /\ AfterFirst(SubSeq(s, p + 1, M), part) = {}
  \/ \E q \in Places(s, p, M, part) :
       /\ \A r \in Places(s, p, M, part) : q <= r
       /\ AfterFirst(SubSeq(s, p + 1, M), part) = {SubSeq(s, q + Len(part) + 1, M)}

LEMMA AfterFirstIs ==
  ASSUME NEW S, NEW s \in Seq(S), NEW part \in Seq(S), NEW p \in Nat, NEW M \in Nat,
         p <= M, M <= Len(s)
  PROVE  CutFirst(s, p, M, part)
<1> DEFINE l == Len(part)
           w == SubSeq(s, p + 1, M)
           at == {i \in 1..(Len(w) - l + 1) : SubSeq(w, i, i + l - 1) = part}
<1>1. l \in Nat /\ w \in Seq(S) /\ Len(w) = M - p /\ \A k \in 1..(M - p) : w[k] = s[p + k]
  BY LenProperties, WindowIs
<1>2. AfterFirst(w, part) = IF at = {} THEN {} ELSE {SubSeq(w, Min(at) + l, Len(w))}
  BY DEF AfterFirst
<1> HIDE DEF w, l
<1>3. \A i \in 1..((M - p) - l + 1) : SubSeq(w, i, i + l - 1) = part <=> Occurs(s, p + i - 1, part)
  <2> TAKE i \in 1..((M - p) - l + 1)
  <2>1. i - 1 \in Nat /\ (i - 1) + 1 = i /\ (i - 1) + l = i + l - 1 /\ (i - 1) + l <= Len(w)
    BY <1>1
  <2>2. SubSeq(w, (i - 1) + 1, (i - 1) + l) = part <=> Occurs(w, i - 1, part)
    BY <1>1, <2>1, OccursIs DEF l
  <2>3. \A j \in 1..l : w[(i - 1) + j] = s[(p + i - 1) + j]
    <3> TAKE j \in 1..l
    <3>1. (i - 1) + j \in 1..(M - p) /\ p + ((i - 1) + j) = (p + i - 1) + j
      BY <1>1
    <3> QED BY <1>1, <3>1
  <2> QED BY <2>1, <2>2, <2>3 DEF Occurs, l
<1>4. /\ \A i \in at : p + i - 1 \in Places(s, p, M, part)
      /\ \A q \in Places(s, p, M, part) : q - p + 1 \in at
  <2>1. ASSUME NEW i \in at PROVE p + i - 1 \in Places(s, p, M, part)
    <3>1. i \in 1..((M - p) - l + 1) /\ Occurs(s, p + i - 1, part)
      BY <1>1, <1>3, <2>1
    <3>2. p + i - 1 \in p..(M - l)
      BY <1>1, <3>1
    <3> QED BY <3>1, <3>2 DEF Places, l
  <2>2. ASSUME NEW q \in Places(s, p, M, part) PROVE q - p + 1 \in at
    <3>1. q \in p..(M - l) /\ Occurs(s, q, part)
      BY <2>2 DEF Places, l
    <3>2. q - p + 1 \in 1..((M - p) - l + 1) /\ p + (q - p + 1) - 1 = q
      BY <1>1, <3>1
    <3> QED BY <1>1, <1>3, <3>1, <3>2
  <2> QED BY <2>1, <2>2
<1>5. CASE at = {}
  <2> HIDE DEF at
  <2> QED BY <1>2, <1>4, <1>5 DEF CutFirst, w
<1>6. CASE at # {}
  <2> DEFINE m == Min(at)
             q == p + m - 1
  <2>1. m \in at /\ \A i \in at : m <= i
    <3>1. (M - p) - l + 1 \in Nat
      <4>1. PICK i \in at : TRUE
        BY <1>6
      <4>2. i \in 1..((M - p) - l + 1)
        BY <1>1
      <4> QED BY <1>1, <4>2
    <3>2. at \subseteq 1..((M - p) - l + 1)
      BY <1>1
    <3> HIDE DEF at
    <3> QED BY <1>6, <3>1, <3>2, PositionsHaveMin
  <2>2. m \in 1..((M - p) - l + 1)
    BY <1>1, <2>1
  <2> HIDE DEF at, m
  <2>3. q \in Places(s, p, M, part)
    BY <1>4, <2>1
  <2>4. \A r \in Places(s, p, M, part) : q <= r
    <3> TAKE r \in Places(s, p, M, part)
    <3>1. r - p + 1 \in at /\ r \in Int
      BY <1>1, <1>4 DEF Places
    <3>2. m <= r - p + 1
      BY <2>1, <3>1
    <3> QED BY <2>2, <3>1, <3>2
  <2>5. SubSeq(w, m + l, Len(w)) = SubSeq(s, q + l + 1, M)
    <3> DEFINE b == m + l - 1
               x == SubSeq(w, m + l, Len(w))
               y == SubSeq(s, q + l + 1, M)
    <3>1. /\ b \in Nat /\ b <= M - p /\ m + l = b + 1 /\ p + b \in Nat /\ p + b <= M
          /\ q + l + 1 = (p + b) + 1 /\ (M - p) - b = M - (p + b) /\ M - p \in Nat
      BY <1>1, <2>2
    <3> HIDE DEF b
    <3>2. x \in Seq(S) /\ Len(x) = (M - p) - b /\ \A k \in 1..((M - p) - b) : x[k] = w[b + k]
      <4>1. x = SubSeq(w, b + 1, M - p)
        BY <1>1, <3>1
      <4> DEFINE W == M - p
      <4>2. w \in Seq(S) /\ W \in Nat /\ b \in Nat /\ b <= W /\ W <= Len(w)
        BY <1>1, <3>1
      <4> HIDE DEF x, W
      <4>3. /\ SubSeq(w, b + 1, W) \in Seq(S) /\ Len(SubSeq(w, b + 1, W)) = W - b
            /\ \A k \in 1..(W - b) : SubSeq(w, b + 1, W)[k] = w[b + k]
        BY <4>2, WindowIs
      <4> QED BY <4>1, <4>3 DEF W
    <3>3. y \in Seq(S) /\ Len(y) = M - (p + b) /\ \A k \in 1..(M - (p + b)) : y[k] = s[(p + b) + k]
      <4> DEFINE c == p + b
      <4>1. y = SubSeq(s, c + 1, M) /\ c \in Nat /\ c <= M
        BY <3>1
      <4> HIDE DEF y, c
      <4>2. /\ SubSeq(s, c + 1, M) \in Seq(S) /\ Len(SubSeq(s, c + 1, M)) = M - c
            /\ \A k \in 1..(M - c) : SubSeq(s, c + 1, M)[k] = s[c + k]
        BY <4>1, WindowIs
      <4> QED BY <4>1, <4>2 DEF c
    <3> HIDE DEF x, y
    <3>4. \A k \in 1..((M - p) - b) : x[k] = y[k]
      <4> TAKE k \in 1..((M - p) - b)
      <4>1. b + k \in 1..(M - p) /\ p + (b + k) = (p + b) + k
        BY <3>1
      <4>2. x[k] = s[(p + b) + k]
        BY <1>1, <3>2, <4>1
      <4>3. y[k] = s[(p + b) + k]
        BY <3>1, <3>3
      <4> QED BY <4>2, <4>3
    <3>5. Len(x) = Len(y) /\ \A k \in 1..Len(x) : x[k] = y[k]
      BY <3>1, <3>2, <3>3, <3>4
    <3>6. x = y
      BY <3>2, <3>3, <3>5, SeqEqual
    <3> QED BY <3>6 DEF x, y
  <2>6. AfterFirst(w, part) = {SubSeq(s, q + l + 1, M)}
    BY <1>2, <1>6, <2>5 DEF m
  <2> HIDE DEF q
  <2> QED BY <2>3, <2>4, <2>6 DEF CutFirst, w, l
<1> QED BY <1>5, <1>6

LEMMA AfterFirstType ==
  ASSUME NEW S, NEW s \in Seq(S), NEW part \in Seq(S)
  PROVE  AfterFirst(s, part) \in SUBSET Seq(S)
<1> DEFINE M == Len(s)
<1>1. M \in Nat /\ 0 \in Nat /\ 0 <= M /\ M <= Len(s) /\ 0 + 1 = 1
  BY LenProperties
<1>2. SubSeq(s, 1, M) = s
  <2>1. SubSeq(s, 0 + 1, M) \in Seq(S) /\ Len(SubSeq(s, 0 + 1, M)) = M - 0
        /\ \A k \in 1..(M - 0) : SubSeq(s, 0 + 1, M)[k] = s[0 + k]
    <3> HIDE DEF M
    <3> QED BY <1>1, WindowIs
  <2>2. M - 0 = M /\ \A k \in 1..M : 0 + k = k
    BY <1>1
  <2>3. SubSeq(s, 1, M) \in Seq(S) /\ Len(SubSeq(s, 1, M)) = Len(s)
        /\ \A k \in 1..Len(SubSeq(s, 1, M)) : SubSeq(s, 1, M)[k] = s[k]
    BY <1>1, <2>1, <2>2
  <2> QED BY <2>3, SeqEqual
<1> HIDE DEF M
<1>3. \/ AfterFirst(SubSeq(s, 1, M), part) = {}
      \/ \E q \in Places(s, 0, M, part) :
           AfterFirst(SubSeq(s, 1, M), part) = {SubSeq(s, q + Len(part) + 1, M)}
  <2> DEFINE z == 0
  <2>1. z \in Nat /\ M \in Nat /\ z <= M /\ M <= Len(s)
    BY <1>1
  <2>3. z + 1 = 1
    OBVIOUS
  <2> HIDE DEF z
  <2>2. CutFirst(s, z, M, part)
    BY <2>1, AfterFirstIs
  <2> QED BY <2>2, <2>3 DEF CutFirst, z
<1>4. ASSUME NEW q \in Places(s, 0, M, part) PROVE SubSeq(s, q + Len(part) + 1, M) \in Seq(S)
  <2>1. Len(part) \in Nat
    BY LenProperties
  <2>2. q + Len(part) \in Nat /\ q + Len(part) <= M
    BY <1>1, <1>4, <2>1 DEF Places
  <2> QED BY <1>1, <2>2, WindowIs
<1>5. AfterFirst(SubSeq(s, 1, M), part) \in SUBSET Seq(S)
  <2>1. CASE AfterFirst(SubSeq(s, 1, M), part) = {}
    BY <2>1
  <2>2. ASSUME NEW q \in Places(s, 0, M, part),
               AfterFirst(SubSeq(s, 1, M), part) = {SubSeq(s, q + Len(part) + 1, M)}
        PROVE  AfterFirst(SubSeq(s, 1, M), part) \in SUBSET Seq(S)
    BY <1>4, <2>2
  <2> QED BY <1>3, <2>1, <2>2
<1> QED BY <1>2, <1>5

\* What AfterParts goes through.
Trims(left, S, parts, s) ==
  /\ left \in [1..(Len(parts) - 1) -> SUBSET Seq(S)] /\ left[1] = {s}
  /\ \A i \in 2..(Len(parts) - 1) : left[i] = UNION {AfterFirst(t, parts[i]) : t \in left[i - 1]}
  /\ AfterParts(parts, s) = left[Len(parts) - 1]

LEMMA AfterPartsDef ==
  ASSUME NEW S, NEW parts \in Seq(Seq(S)), Len(parts) > 1, NEW s \in Seq(S)
  PROVE  \E left : Trims(left, S, parts, s)
<1> DEFINE n == Len(parts) - 1
           X == SUBSET Seq(S)
           Next1(i, y) == UNION {AfterFirst(t, parts[i]) : t \in y}
           Solves(f) == f = [i \in 1..n |-> IF i = 1 THEN {s} ELSE Next1(i, f[i - 1])]
           F == [i \in 2..n |-> [y \in X |-> Next1(i, y)]]
<1>0. AfterParts(parts, s) = (CHOOSE f : Solves(f))[n]
  BY DEF AfterParts
<1>1. n \in Nat /\ 1 <= n /\ 1 + 1 = 2 /\ {s} \in X /\ \A i \in 1..n : parts[i] \in Seq(S)
  <2>1. Len(parts) \in Nat
    BY LenProperties
  <2>2. \A i \in 1..n : i \in 1..Len(parts)
    BY <2>1
  <2> QED BY <2>1, <2>2, ElementOfSeq
<1>2. \A i \in 1..n, y \in X : Next1(i, y) \in X
  <2> SUFFICES ASSUME NEW i \in 1..n, NEW y \in X, NEW t \in y PROVE AfterFirst(t, parts[i]) \in X
    OBVIOUS
  <2>1. t \in Seq(S) /\ parts[i] \in Seq(S)
    BY <1>1
  <2> QED BY <2>1, AfterFirstType
<1>a. \A i, y : Next1(i, y) = UNION {AfterFirst(t, parts[i]) : t \in y}
  OBVIOUS
<1> HIDE DEF Next1, n, X
<1>3. F \in [2..n -> [X -> X]] /\ \A i \in 2..n, y \in X : F[i][y] = Next1(i, y)
  BY <1>1, <1>2
<1> HIDE DEF F
<1>4. PICK f \in [1..n -> X] : f[1] = {s} /\ \A i \in 2..n : f[i] = F[i][f[i - 1]]
  <2> DEFINE x == {s}
             a == 1
             b == 2
  <2>1. x \in X /\ a \in Nat /\ b = a + 1 /\ n \in Nat /\ a <= n /\ F \in [b..n -> [X -> X]]
    BY <1>1, <1>3
  <2> HIDE DEF x, a, b
  <2>2. \E f : Recurses(f, X, x, a, b, n, F)
    BY <2>1, RecursionSolved
  <2> QED BY <2>2 DEF Recurses, x, a, b
<1>5. \A i \in 2..n : f[i - 1] \in X /\ f[i] = Next1(i, f[i - 1])
  <2> TAKE i \in 2..n
  <2>1. i - 1 \in 1..n
    BY <1>1
  <2> QED BY <1>1, <1>3, <1>4, <2>1
<1>6. Solves(f)
  <2>1. \A i \in 1..n : f[i] = IF i = 1 THEN {s} ELSE Next1(i, f[i - 1])
    BY <1>1, <1>4, <1>5
  <2>2. f = [i \in 1..n |-> f[i]]
    BY <1>4
  <2> QED BY <2>1, <2>2
<1>7. \E g : g = CHOOSE h : Solves(h)
  OBVIOUS
<1>8. PICK g : g = CHOOSE h : Solves(h)
  BY <1>7
<1>9. Solves(g) /\ AfterParts(parts, s) = g[n]
  <2> HIDE DEF Solves
  <2> QED BY <1>0, <1>6, <1>8
<1>10. \A i \in 1..n : g[i] = IF i = 1 THEN {s} ELSE Next1(i, g[i - 1])
  BY <1>9
<1>11. DOMAIN g = 1..n /\ g = [i \in 1..n |-> g[i]]
  BY <1>9
<1>12. \A i \in 1..n : g[i] \in X
  <2> DEFINE H == {k \in Nat : k + 1 <= n => g[k + 1] \in X}
  <2>1. 0 \in H
    <3>1. g[1] = {s} /\ 0 + 1 = 1
      BY <1>1, <1>10
    <3> QED BY <1>1, <3>1
  <2>2. \A k \in Nat : k \in H => k + 1 \in H
    <3> SUFFICES ASSUME NEW k \in Nat, (k + 1) + 1 <= n, g[k + 1] \in X PROVE g[(k + 1) + 1] \in X
      BY <1>1
    <3>1. (k + 1) + 1 \in 1..n /\ (k + 1) + 1 # 1 /\ ((k + 1) + 1) - 1 = k + 1
      BY <1>1
    <3>2. g[(k + 1) + 1] = Next1((k + 1) + 1, g[k + 1])
      BY <1>10, <3>1
    <3> QED BY <1>2, <3>1, <3>2
  <2>3. Nat \subseteq H
    <3> HIDE DEF H
    <3> QED BY <2>1, <2>2, NatSetInduction
  <2> TAKE i \in 1..n
  <2>4. i - 1 \in Nat /\ (i - 1) + 1 = i /\ i <= n
    BY <1>1
  <2>5. i - 1 \in H
    BY <2>3, <2>4
  <2>6. g[(i - 1) + 1] \in X
    BY <2>4, <2>5
  <2> QED BY <2>4, <2>6
<1>13. g \in [1..n -> X]
  BY <1>11, <1>12
<1>14. g[1] = {s} /\ \A i \in 2..n : g[i] = UNION {AfterFirst(t, parts[i]) : t \in g[i - 1]}
  <2>1. \A i \in 2..n : i \in 1..n /\ i # 1
    BY <1>1
  <2>2. 1 \in 1..n
    BY <1>1
  <2> QED BY <1>10, <1>a, <2>1, <2>2
<1> QED BY <1>9, <1>13, <1>14 DEF Trims, n, X

\* The first i parts stand in name in order, from its start up to e.
Fits(parts, name, i, e, c) ==
  /\ c \in [1..i -> Nat] /\ c[1] = 0 /\ e = c[i] + Len(parts[i])
  /\ \A j \in 1..i : c[j] + Len(parts[j]) <= Len(name) /\ Occurs(name, c[j], parts[j])
  /\ \A j \in 1..(i - 1) : c[j] + Len(parts[j]) <= c[j + 1]
Placed(parts, name, i, e) == \E c : Fits(parts, name, i, e, c)

\* One part more.
Follows(parts, name, i, e) ==
  \E d, q \in Nat : /\ Placed(parts, name, i, d) /\ d <= q /\ Occurs(name, q, parts[i + 1])
                    /\ q + Len(parts[i + 1]) <= Len(name) /\ e = q + Len(parts[i + 1])

LEMMA PlacedNext ==
  ASSUME NEW S, NEW parts \in Seq(Seq(S)), NEW name \in Seq(S), NEW i \in Nat \ {0}, i < Len(parts), NEW e
  PROVE  Placed(parts, name, i + 1, e) <=> Follows(parts, name, i, e)
<1>1. \A j \in 1..Len(parts) : parts[j] \in Seq(S) /\ Len(parts[j]) \in Nat
  BY ElementOfSeq, LenProperties
<1>2. Len(parts) \in Nat /\ (i + 1) - 1 = i
  BY LenProperties
<1>3. ASSUME NEW c, Fits(parts, name, i + 1, e, c) PROVE Follows(parts, name, i, e)
  <2> DEFINE b == [j \in 1..i |-> c[j]]
             d == c[i] + Len(parts[i])
  <2>1. b \in [1..i -> Nat] /\ \A j \in 1..i : b[j] = c[j]
    BY <1>3 DEF Fits
  <2> HIDE DEF b
  <2>2. Fits(parts, name, i, d, b)
    BY <1>2, <1>3, <2>1 DEF Fits
  <2>3. d \in Nat /\ c[i + 1] \in Nat
    <3>1. c \in [1..(i + 1) -> Nat] /\ i \in 1..(i + 1) /\ i + 1 \in 1..(i + 1)
      BY <1>3 DEF Fits
    <3>2. i \in 1..Len(parts)
      BY <1>2
    <3>3. c[i] \in Nat /\ c[i + 1] \in Nat /\ Len(parts[i]) \in Nat
      BY <1>1, <3>1, <3>2
    <3> QED BY <3>3
  <2>4. d <= c[i + 1] /\ Occurs(name, c[i + 1], parts[i + 1])
        /\ c[i + 1] + Len(parts[i + 1]) <= Len(name) /\ e = c[i + 1] + Len(parts[i + 1])
    BY <1>2, <1>3 DEF Fits
  <2> HIDE DEF d
  <2> QED BY <2>2, <2>3, <2>4 DEF Follows, Placed
<1>4. ASSUME NEW d \in Nat, NEW q \in Nat, NEW b, Fits(parts, name, i, d, b), d <= q,
             Occurs(name, q, parts[i + 1]), q + Len(parts[i + 1]) <= Len(name),
             e = q + Len(parts[i + 1])
      PROVE  Placed(parts, name, i + 1, e)
  <2> DEFINE c == [j \in 1..(i + 1) |-> IF j = i + 1 THEN q ELSE b[j]]
  <2>1. b \in [1..i -> Nat] /\ b[1] = 0 /\ d = b[i] + Len(parts[i])
    BY <1>4 DEF Fits
  <2>2. /\ c \in [1..(i + 1) -> Nat] /\ c[i + 1] = q
        /\ \A j \in 1..i : c[j] = b[j] /\ j # i + 1
    BY <2>1
  <2> HIDE DEF c
  <2>3. \A j \in 1..(i + 1) : c[j] + Len(parts[j]) <= Len(name) /\ Occurs(name, c[j], parts[j])
    <3> TAKE j \in 1..(i + 1)
    <3>1. CASE j = i + 1
      BY <1>4, <2>2, <3>1
    <3>2. CASE j # i + 1
      <4>1. j \in 1..i
        BY <3>2
      <4> QED BY <1>4, <2>2, <4>1 DEF Fits
    <3> QED BY <3>1, <3>2
  <2>4. \A j \in 1..i : c[j] + Len(parts[j]) <= c[j + 1]
    <3> TAKE j \in 1..i
    <3>1. CASE j = i
      BY <1>4, <2>1, <2>2, <3>1
    <3>2. CASE j # i
      <4>1. j \in 1..(i - 1) /\ j + 1 \in 1..i
        BY <3>2
      <4> QED BY <1>4, <2>2, <4>1 DEF Fits
    <3> QED BY <3>1, <3>2
  <2>5. Fits(parts, name, i + 1, e, c)
    <3>1. c[1] = 0 /\ e = c[i + 1] + Len(parts[i + 1])
      BY <1>4, <2>1, <2>2
    <3>2. \A j \in 1..((i + 1) - 1) : c[j] + Len(parts[j]) <= c[j + 1]
      BY <1>2, <2>4
    <3> QED BY <2>2, <2>3, <3>1, <3>2 DEF Fits
  <2> QED BY <2>5 DEF Placed
<1>5. ASSUME Follows(parts, name, i, e) PROVE Placed(parts, name, i + 1, e)
  <2>1. PICK d \in Nat, q \in Nat :
          /\ Placed(parts, name, i, d) /\ d <= q /\ Occurs(name, q, parts[i + 1])
          /\ q + Len(parts[i + 1]) <= Len(name) /\ e = q + Len(parts[i + 1])
    BY <1>5 DEF Follows
  <2>2. PICK b : Fits(parts, name, i, d, b)
    BY <2>1 DEF Placed
  <2> QED BY <1>4, <2>1, <2>2
<1> QED BY <1>3, <1>5 DEF Placed

\* A glob matches if its parts can be placed from the start of the name to its end.
LEMMA GlobIs ==
  ASSUME NEW S, NEW parts \in Seq(Seq(S)), parts # <<>>, NEW name \in Seq(S)
  PROVE  GlobMatches(parts, name) <=> Placed(parts, name, Len(parts), Len(name))
<1> DEFINE n == Len(parts)
           m == Len(name)
<1>1. n \in Nat /\ n >= 1 /\ m \in Nat
  BY LenProperties, EmptySeq
<1>2. \A j \in 1..n : parts[j] \in Seq(S) /\ Len(parts[j]) \in Nat
  BY ElementOfSeq, LenProperties
<1>3. \A j \in 1..n, q \in Nat :
        q + Len(parts[j]) <= m =>
          (SubSeq(name, q + 1, q + Len(parts[j])) = parts[j] <=> Occurs(name, q, parts[j]))
  BY <1>2, OccursIs
<1> DEFINE Cut(c) == /\ c[1] = 0 /\ c[n] + Len(parts[n]) = m
                     /\ \A i \in 1..n : /\ c[i] + Len(parts[i]) <= m
                                        /\ SubSeq(name, c[i] + 1, c[i] + Len(parts[i])) = parts[i]
                                        /\ i < n => c[i] + Len(parts[i]) <= c[i + 1]
<1>4. GlobMatches(parts, name) <=> \E c \in Cuts(n, m) : Cut(c)
  BY DEF GlobMatches
<1> HIDE DEF m
<1>5. ASSUME NEW c \in Cuts(n, m), Cut(c) PROVE Fits(parts, name, n, m, c)
  <2>1. c \in [1..n -> Nat]
    BY <1>1, <1>5 DEF Cuts
  <2>2. \A j \in 1..(n - 1) : c[j] + Len(parts[j]) <= c[j + 1]
    <3> HIDE DEF n
    <3>1. \A j \in 1..(n - 1) : j \in 1..n /\ j < n
      BY <1>1
    <3> QED BY <1>5, <3>1
  <2>3. \A j \in 1..n : c[j] + Len(parts[j]) <= m /\ Occurs(name, c[j], parts[j])
    BY <1>3, <1>5, <2>1
  <2>4. c[1] = 0 /\ m = c[n] + Len(parts[n])
    BY <1>5
  <2> HIDE DEF Cut, n
  <2> QED BY <2>1, <2>2, <2>3, <2>4 DEF Fits, m
<1>6. ASSUME NEW c, Fits(parts, name, n, m, c) PROVE c \in Cuts(n, m) /\ Cut(c)
  <2> HIDE DEF n, Cut
  <2>1. /\ c \in [1..n -> Nat] /\ c[1] = 0 /\ m = c[n] + Len(parts[n])
        /\ \A j \in 1..n : c[j] + Len(parts[j]) <= m /\ Occurs(name, c[j], parts[j])
        /\ \A j \in 1..(n - 1) : c[j] + Len(parts[j]) <= c[j + 1]
    BY <1>6 DEF Fits, m
  <2>2. \A j \in 1..n : c[j] \in 0..m
    <3> TAKE j \in 1..n
    <3>1. c[j] \in Nat /\ Len(parts[j]) \in Nat /\ c[j] + Len(parts[j]) <= m
      BY <1>2, <2>1 DEF n
    <3> QED BY <1>1, <3>1
  <2>3. \A j \in 1..(n - 1) : c[j] <= c[j + 1]
    <3> TAKE j \in 1..(n - 1)
    <3>1. j \in 1..n /\ j + 1 \in 1..n
      BY <1>1
    <3>2. c[j] \in Nat /\ c[j + 1] \in Nat /\ Len(parts[j]) \in Nat
      BY <1>2, <2>1, <3>1
    <3> QED BY <2>1, <3>2
  <2>4. c \in Cuts(n, m)
    BY <2>1, <2>2, <2>3 DEF Cuts
  <2>5. \A j \in 1..n : j < n => c[j] + Len(parts[j]) <= c[j + 1]
    <3> TAKE j \in 1..n
    <3>1. j < n => j \in 1..(n - 1)
      BY <1>1
    <3> QED BY <2>1, <3>1
  <2>6. Cut(c)
    BY <1>3, <2>1, <2>5 DEF Cut
  <2> QED BY <2>4, <2>6
<1> HIDE DEF Cut, n
<1>7. GlobMatches(parts, name) <=> \E c : Fits(parts, name, n, m, c)
  BY <1>4, <1>5, <1>6
<1> QED BY <1>7 DEF Placed, n, m

\* After its first i parts, what AfterParts has left begins where the first of their
\* placements ends that leaves room for the last part.
Leftmost(parts, name, M, i, rest) ==
  \/ rest = {} /\ \A e \in Nat : Placed(parts, name, i, e) => e > M
  \/ \E p \in 0..M : /\ rest = {SubSeq(name, p + 1, M)} /\ Placed(parts, name, i, p)
                     /\ \A e \in Nat : Placed(parts, name, i, e) => p <= e

LEMMA LeftmostNext ==
  ASSUME NEW S, NEW parts \in Seq(Seq(S)), NEW name \in Seq(S), NEW M \in Nat, M <= Len(name),
         NEW i \in Nat \ {0}, i < Len(parts), NEW rest, Leftmost(parts, name, M, i, rest),
         NEW new, new = UNION {AfterFirst(t, parts[i + 1]) : t \in rest}
  PROVE  Leftmost(parts, name, M, i + 1, new)
<1> DEFINE part == parts[i + 1]
           l == Len(part)
<1>1. part \in Seq(S) /\ l \in Nat /\ Len(name) \in Nat
  <2>1. i + 1 \in 1..Len(parts)
    BY LenProperties
  <2>2. part \in Seq(S)
    BY <2>1, ElementOfSeq
  <2> QED BY <2>2, LenProperties
<1>2. \A e : Placed(parts, name, i + 1, e) <=>
        \E d, q \in Nat : /\ Placed(parts, name, i, d) /\ d <= q /\ Occurs(name, q, part)
                          /\ q + l <= Len(name) /\ e = q + l
  BY PlacedNext DEF Follows
<1> HIDE DEF part, l
<1>3. CASE rest = {} /\ \A e \in Nat : Placed(parts, name, i, e) => e > M
  <2>1. new = {}
    BY <1>3
  <2>2. \A e \in Nat : Placed(parts, name, i + 1, e) => e > M
    BY <1>1, <1>2, <1>3
  <2> QED BY <2>1, <2>2 DEF Leftmost, part
<1>4. ASSUME NEW p \in 0..M, rest = {SubSeq(name, p + 1, M)}, Placed(parts, name, i, p),
             \A e \in Nat : Placed(parts, name, i, e) => p <= e
      PROVE  Leftmost(parts, name, M, i + 1, new)
  <2>1. p \in Nat /\ p <= M
    OBVIOUS
  <2>2. CutFirst(name, p, M, part)
    BY <1>1, <2>1, AfterFirstIs
  <2>3. new = AfterFirst(SubSeq(name, p + 1, M), part)
    BY <1>4 DEF part
  <2>4. \A d, q \in Nat : Placed(parts, name, i, d) /\ d <= q /\ Occurs(name, q, part) /\ q + l <= M
                            => q \in Places(name, p, M, part)
    <3> SUFFICES ASSUME NEW d \in Nat, NEW q \in Nat, Placed(parts, name, i, d), d <= q,
                        Occurs(name, q, part), q + l <= M
                 PROVE  q \in Places(name, p, M, part)
      OBVIOUS
    <3>1. p <= q
      BY <1>4, <2>1
    <3>2. q \in p..(M - l)
      BY <1>1, <2>1, <3>1
    <3> QED BY <3>2 DEF Places, l
  <2>5. CASE Places(name, p, M, part) = {} /\ new = {}
    <3>1. \A e \in Nat : Placed(parts, name, i + 1, e) => e > M
      <4> SUFFICES ASSUME NEW e \in Nat, Placed(parts, name, i + 1, e), e <= M PROVE FALSE
        OBVIOUS
      <4>1. PICK d \in Nat, q \in Nat :
              /\ Placed(parts, name, i, d) /\ d <= q /\ Occurs(name, q, part)
              /\ q + l <= Len(name) /\ e = q + l
        BY <1>2
      <4> QED BY <2>4, <2>5, <4>1
    <3> QED BY <2>5, <3>1 DEF Leftmost
  <2>6. ASSUME NEW q \in Places(name, p, M, part), new = {SubSeq(name, q + l + 1, M)},
               \A r \in Places(name, p, M, part) : q <= r
        PROVE  Leftmost(parts, name, M, i + 1, new)
    <3> DEFINE r == q + l
    <3>1. q \in Nat /\ p <= q /\ r \in 0..M /\ r <= Len(name) /\ Occurs(name, q, part)
      BY <1>1, <2>1, <2>6 DEF Places, l
    <3>2. Placed(parts, name, i + 1, r)
      BY <1>2, <1>4, <2>1, <3>1
    <3>3. \A e \in Nat : Placed(parts, name, i + 1, e) => r <= e
      <4> SUFFICES ASSUME NEW e \in Nat, Placed(parts, name, i + 1, e), e < r PROVE FALSE
        BY <3>1
      <4>1. PICK d \in Nat, u \in Nat :
              /\ Placed(parts, name, i, d) /\ d <= u /\ Occurs(name, u, part)
              /\ u + l <= Len(name) /\ e = u + l
        BY <1>2
      <4>2. u + l <= M /\ u < q
        BY <1>1, <3>1, <4>1
      <4>3. q <= u
        BY <2>4, <2>6, <4>1, <4>2
      <4> QED BY <3>1, <4>2, <4>3
    <3>4. new = {SubSeq(name, r + 1, M)}
      BY <2>6
    <3> HIDE DEF r
    <3> QED BY <3>1, <3>2, <3>3, <3>4 DEF Leftmost
  <2> QED BY <2>2, <2>3, <2>5, <2>6 DEF CutFirst, l
<1> QED BY <1>3, <1>4 DEF Leftmost, part

LEMMA AfterPartsLeftmost ==
  ASSUME NEW S, NEW parts \in Seq(Seq(S)), Len(parts) > 1, NEW name \in Seq(S),
         NEW M \in Nat, M <= Len(name), Len(parts[1]) <= M, Occurs(name, 0, parts[1])
  PROVE  Leftmost(parts, name, M, Len(parts) - 1, AfterParts(parts, SubSeq(name, Len(parts[1]) + 1, M)))
<1> DEFINE n == Len(parts) - 1
           h == Len(parts[1])
           mid == SubSeq(name, h + 1, M)
<1>1. n \in Nat /\ 1 <= n /\ parts[1] \in Seq(S) /\ h \in Nat /\ h <= M
  <2>1. Len(parts) \in Nat /\ 1 \in 1..Len(parts)
    BY LenProperties
  <2>2. parts[1] \in Seq(S)
    BY <2>1, ElementOfSeq
  <2> QED BY <2>1, <2>2, LenProperties
<1>2. mid \in Seq(S)
  <2> HIDE DEF h
  <2> QED BY <1>1, WindowIs
<1> HIDE DEF mid
<1>a. PICK left : Trims(left, S, parts, mid)
  BY <1>2, AfterPartsDef
<1>3. /\ left \in [1..n -> SUBSET Seq(S)] /\ left[1] = {mid}
      /\ \A i \in 2..n : left[i] = UNION {AfterFirst(t, parts[i]) : t \in left[i - 1]}
      /\ AfterParts(parts, mid) = left[n]
  BY <1>a DEF Trims
<1> HIDE DEF n
<1> DEFINE H == {k \in Nat : k + 1 <= n => Leftmost(parts, name, M, k + 1, left[k + 1])}
<1>4. Leftmost(parts, name, M, 1, {mid})
  <2>1. Placed(parts, name, 1, h)
    <3> DEFINE c == [j \in 1..1 |-> 0]
    <3>1. c \in [1..1 -> Nat] /\ c[1] = 0 /\ \A j \in 1..1 : j = 1
      OBVIOUS
    <3>2. 1..(1 - 1) = {} /\ 0 + h = h /\ h <= Len(name)
      BY <1>1, LenProperties
    <3> HIDE DEF c
    <3>3. Fits(parts, name, 1, h, c)
      BY <3>1, <3>2 DEF Fits
    <3> QED BY <3>3 DEF Placed
  <2>2. \A e \in Nat : Placed(parts, name, 1, e) => h <= e
    <3> SUFFICES ASSUME NEW e \in Nat, NEW c, Fits(parts, name, 1, e, c) PROVE h <= e
      BY DEF Placed
    <3>1. e = 0 + h
      BY DEF Fits
    <3> QED BY <1>1, <3>1
  <2>3. h \in 0..M
    BY <1>1
  <2> HIDE DEF h
  <2> QED BY <2>1, <2>2, <2>3 DEF Leftmost, mid
<1>5. 0 \in H
  <2>1. 0 + 1 = 1
    OBVIOUS
  <2> QED BY <1>3, <1>4, <2>1
<1>6. \A k \in Nat : k \in H => k + 1 \in H
  <2>a. \A k \in Nat : (k + 1) + 1 <= n => k + 1 <= n
    BY <1>1
  <2> SUFFICES ASSUME NEW k \in Nat, (k + 1) + 1 <= n, Leftmost(parts, name, M, k + 1, left[k + 1])
               PROVE  Leftmost(parts, name, M, (k + 1) + 1, left[(k + 1) + 1])
    BY <2>a
  <2> DEFINE i == k + 1
  <2>1. /\ i \in Nat \ {0} /\ i < Len(parts) /\ i + 1 \in 2..n /\ (i + 1) - 1 = i
    BY <1>1 DEF n
  <2> HIDE DEF i
  <2>2. left[i + 1] = UNION {AfterFirst(t, parts[i + 1]) : t \in left[i]}
    <3>1. left[i + 1] = UNION {AfterFirst(t, parts[i + 1]) : t \in left[(i + 1) - 1]}
      BY <1>3, <2>1
    <3> QED BY <2>1, <3>1
  <2>3. Leftmost(parts, name, M, i, left[i])
    BY DEF i
  <2>4. Leftmost(parts, name, M, i + 1, left[i + 1])
    BY <2>1, <2>2, <2>3, LeftmostNext
  <2> QED BY <2>4 DEF i
<1>7. n - 1 \in H /\ (n - 1) + 1 = n
  <2> HIDE DEF H
  <2>1. n - 1 \in Nat /\ (n - 1) + 1 = n
    BY <1>1
  <2> QED BY <1>5, <1>6, <2>1, NatSetInduction
<1>8. Leftmost(parts, name, M, n, left[n])
  <2>1. (n - 1) + 1 <= n => Leftmost(parts, name, M, (n - 1) + 1, left[(n - 1) + 1])
    BY <1>7
  <2>2. n <= n
    BY <1>1
  <2> QED BY <1>7, <2>1, <2>2
<1> QED BY <1>3, <1>8 DEF n, mid, h

\* What is stripped at the end.
LEMMA SuffixIs ==
  ASSUME NEW S, NEW s \in Seq(S), NEW t \in Seq(S)
  PROVE  IsSuffix(s, t) <=> Len(s) <= Len(t) /\ Occurs(t, Len(t) - Len(s), s)
<1> DEFINE m == Len(s)
           n == Len(t)
           r == Reverse(s)
           u == Reverse(t)
<1>1. m \in Nat /\ n \in Nat /\ (\A k \in 1..m : s[k] \in S) /\ (\A k \in 1..n : t[k] \in S)
  BY LenProperties, ElementOfSeq
<1>2. /\ r \in [1..m -> S] /\ \A k \in 1..m : r[k] = s[(m - k) + 1]
      /\ u \in [1..n -> S] /\ \A k \in 1..n : u[k] = t[(n - k) + 1]
  <2>1. \A k \in 1..m : (m - k) + 1 \in 1..m
    BY <1>1
  <2>2. \A k \in 1..n : (n - k) + 1 \in 1..n
    BY <1>1
  <2>3. r = [k \in 1..m |-> s[(m - k) + 1]] /\ u = [k \in 1..n |-> t[(n - k) + 1]]
    BY DEF Reverse
  <2> HIDE DEF r, u, m, n
  <2> QED BY <1>1, <2>1, <2>2, <2>3
<1> HIDE DEF r, u
<1>3. r \in Seq(S) /\ Len(r) = m /\ u \in Seq(S) /\ Len(u) = n
  <2> HIDE DEF m, n
  <2>1. r \in Seq(S) /\ u \in Seq(S) /\ DOMAIN r = 1..m /\ DOMAIN u = 1..n
    BY <1>1, <1>2, IsASeq
  <2> QED BY <1>1, <2>1, LenProperties
<1>4. IsSuffix(s, t) <=> m <= n /\ \A k \in 1..m : r[k] = u[k]
  BY <1>3, PrefixIs DEF IsSuffix, r, u
<1> HIDE DEF m, n
<1>5. ASSUME m <= n PROVE (\A k \in 1..m : r[k] = u[k]) <=> \A j \in 1..m : t[(n - m) + j] = s[j]
  <2>1. ASSUME \A k \in 1..m : r[k] = u[k], NEW j \in 1..m PROVE t[(n - m) + j] = s[j]
    <3> DEFINE k == (m - j) + 1
    <3>1. k \in 1..m /\ k \in 1..n /\ (m - k) + 1 = j /\ (n - k) + 1 = (n - m) + j
      BY <1>1, <1>5
    <3> QED BY <1>2, <2>1, <3>1
  <2>2. ASSUME \A j \in 1..m : t[(n - m) + j] = s[j], NEW k \in 1..m PROVE r[k] = u[k]
    <3> DEFINE j == (m - k) + 1
    <3>1. j \in 1..m /\ k \in 1..n /\ (n - k) + 1 = (n - m) + j
      BY <1>1, <1>5
    <3> QED BY <1>2, <2>2, <3>1
  <2> QED BY <2>1, <2>2
<1> QED BY <1>4, <1>5 DEF Occurs, m, n

\* The search from left to right (scaffold.rs:155-187) finds a match when there is one.
LEMMA SegmentMatchesIs ==
  ASSUME NEW S, NEW parts \in Seq(Seq(S)), parts # <<>>, NEW name \in Seq(S)
  PROVE  SegmentMatches(parts, name) <=> GlobMatches(parts, name)
<1> DEFINE n == Len(parts)
           L == Len(name)
           h == Len(parts[1])
           l == Len(parts[n])
<1>1. n \in Nat /\ n >= 1 /\ L \in Nat /\ parts[1] \in Seq(S) /\ parts[n] \in Seq(S) /\ h \in Nat /\ l \in Nat
  <2>1. n \in Nat /\ n >= 1 /\ L \in Nat
    BY LenProperties, EmptySeq
  <2>2. 1 \in 1..n /\ n \in 1..n
    BY <2>1
  <2>3. parts[1] \in Seq(S) /\ parts[n] \in Seq(S)
    BY <2>2, ElementOfSeq
  <2> QED BY <2>1, <2>3, LenProperties
<1>2. GlobMatches(parts, name) <=> Placed(parts, name, n, L)
  BY GlobIs
<1>a. n = Len(parts) /\ L = Len(name) /\ h = Len(parts[1]) /\ l = Len(parts[n])
  OBVIOUS
<1>b. SegmentMatches(parts, name) <=>
        IF n = 1 THEN parts[1] = name
        ELSE /\ IsPrefix(parts[1], name) /\ IsSuffix(parts[n], SubSeq(name, h + 1, L))
             /\ AfterParts(parts, SubSeq(SubSeq(name, h + 1, L), 1, Len(SubSeq(name, h + 1, L)) - l)) # {}
  <2>1. Head(parts) = parts[1] /\ Last(parts) = parts[n]
    BY HeadTailProperties DEF Last
  <2> QED BY <2>1 DEF SegmentMatches
<1> HIDE DEF n, L, h, l
<1>3. CASE n = 1
  <2>1. Placed(parts, name, 1, L) <=> h = L /\ Occurs(name, 0, parts[1])
    <3>1. ASSUME NEW c, Fits(parts, name, 1, L, c) PROVE h = L /\ Occurs(name, 0, parts[1])
      <4>1. c[1] = 0 /\ L = c[1] + h /\ Occurs(name, c[1], parts[1])
        BY <1>a, <3>1 DEF Fits
      <4> QED BY <1>1, <4>1
    <3>2. ASSUME h = L, Occurs(name, 0, parts[1]) PROVE Placed(parts, name, 1, L)
      <4> DEFINE c == [j \in 1..1 |-> 0]
      <4>1. c \in [1..1 -> Nat] /\ c[1] = 0 /\ (\A j \in 1..1 : j = 1) /\ 1..(1 - 1) = {}
        OBVIOUS
      <4> HIDE DEF c
      <4>2. 0 + h = h
        BY <1>1
      <4>3. Fits(parts, name, 1, L, c)
        <5>1. L = c[1] + Len(parts[1])
          BY <1>a, <3>2, <4>1, <4>2
        <5>2. \A j \in 1..1 : c[j] + Len(parts[j]) <= Len(name) /\ Occurs(name, c[j], parts[j])
          <6>1. c[1] + Len(parts[1]) <= Len(name)
            BY <1>1, <1>a, <5>1
          <6>2. Occurs(name, c[1], parts[1])
            BY <3>2, <4>1
          <6> QED BY <4>1, <6>1, <6>2
        <5> QED BY <4>1, <5>1, <5>2 DEF Fits
      <4> QED BY <4>3 DEF Placed
    <3> QED BY <3>1, <3>2 DEF Placed
  <2>2. SegmentMatches(parts, name) <=> parts[1] = name
    BY <1>3, <1>b
  <2>3. parts[1] = name <=> h = L /\ Occurs(name, 0, parts[1])
    <3>1. ASSUME parts[1] = name PROVE h = L /\ Occurs(name, 0, parts[1])
      <4>1. \A j \in 1..h : 0 + j = j
        BY <1>1
      <4> QED BY <1>a, <3>1, <4>1 DEF Occurs
    <3>2. ASSUME h = L, Occurs(name, 0, parts[1]) PROVE parts[1] = name
      <4>1. \A j \in 1..h : name[j] = parts[1][j]
        <5>1. \A j \in 1..h : 0 + j = j
          BY <1>1
        <5> QED BY <1>a, <3>2, <5>1 DEF Occurs
      <4> QED BY <1>1, <1>a, <3>2, <4>1, SeqEqual
    <3> QED BY <3>1, <3>2
  <2> QED BY <1>2, <1>3, <2>1, <2>2, <2>3
<1>4. CASE n > 1
  <2> DEFINE rest == SubSeq(name, h + 1, L)
             mid == SubSeq(rest, 1, Len(rest) - l)
             M == L - l
  <2>1. SegmentMatches(parts, name) <=>
          IsPrefix(parts[1], name) /\ IsSuffix(parts[n], rest) /\ AfterParts(parts, mid) # {}
    BY <1>1, <1>4, <1>b
  <2> HIDE DEF mid
  <2>2. IsPrefix(parts[1], name) <=> h <= L /\ Occurs(name, 0, parts[1])
    <3>1. \A j \in 1..h : 0 + j = j
      BY <1>1
    <3>2. IsPrefix(parts[1], name) <=> h <= L /\ \A k \in 1..h : parts[1][k] = name[k]
      BY <1>1, <1>a, PrefixIs
    <3> QED BY <1>a, <3>1, <3>2 DEF Occurs
  <2>3. ASSUME h <= L
        PROVE  rest \in Seq(S) /\ Len(rest) = L - h /\ \A k \in 1..(L - h) : rest[k] = name[h + k]
    <3>1. h \in Nat /\ L \in Nat /\ h <= L /\ L <= Len(name)
      BY <1>1, <1>a, <2>3
    <3> QED BY <3>1, WindowIs
  <2> HIDE DEF rest
  <2>4. ASSUME h <= L
        PROVE  IsSuffix(parts[n], rest) <=> h <= M /\ Occurs(name, M, parts[n])
    <3>1. IsSuffix(parts[n], rest) <=> l <= L - h /\ Occurs(rest, (L - h) - l, parts[n])
      BY <1>1, <1>a, <2>3, <2>4, SuffixIs
    <3>2. l <= L - h <=> h <= M
      BY <1>1
    <3>3. ASSUME h <= M
          PROVE  Occurs(rest, (L - h) - l, parts[n]) <=> Occurs(name, M, parts[n])
      <4>1. \A j \in 1..l : rest[((L - h) - l) + j] = name[M + j]
        <5> TAKE j \in 1..l
        <5>1. ((L - h) - l) + j \in 1..(L - h) /\ h + (((L - h) - l) + j) = M + j
          BY <1>1, <3>3
        <5> QED BY <2>3, <2>4, <5>1
      <4> QED BY <1>a, <4>1 DEF Occurs
    <3> QED BY <3>1, <3>2, <3>3
  <2>5. ASSUME h <= M PROVE mid = SubSeq(name, h + 1, M)
    <3> DEFINE N == M - h
               z == 0
               w == SubSeq(name, h + 1, M)
    <3>0. h <= L
      BY <1>1, <2>5
    <3>a. Len(rest) = L - h /\ rest \in Seq(S)
      BY <2>3, <3>0
    <3>1. /\ N \in Nat /\ z \in Nat /\ z <= N /\ N = Len(rest) - l /\ z + 1 = 1 /\ N - z = N
          /\ N <= Len(rest) /\ M \in Nat /\ M <= L /\ \A k \in 1..N : z + k = k /\ k \in 1..(L - h)
      BY <1>1, <2>5, <3>a
    <3>2. rest \in Seq(S) /\ N \in Nat /\ z \in Nat /\ z <= N /\ N <= Len(rest)
      BY <3>1, <3>a
    <3>3. mid = SubSeq(rest, z + 1, N)
      BY <3>1 DEF mid
    <3> HIDE DEF z, N
    <3>4. /\ SubSeq(rest, z + 1, N) \in Seq(S) /\ Len(SubSeq(rest, z + 1, N)) = N - z
          /\ \A k \in 1..(N - z) : SubSeq(rest, z + 1, N)[k] = rest[z + k]
      BY <3>2, WindowIs
    <3>5. mid \in Seq(S) /\ Len(mid) = N /\ \A k \in 1..N : mid[k] = name[h + k]
      BY <2>3, <3>0, <3>1, <3>3, <3>4
    <3>6. w \in Seq(S) /\ Len(w) = M - h /\ \A k \in 1..(M - h) : w[k] = name[h + k]
      <4>1. h \in Nat /\ M \in Nat /\ h <= M /\ M <= Len(name)
        BY <1>1, <1>a, <2>5, <3>1
      <4> HIDE DEF M
      <4> QED BY <4>1, WindowIs
    <3> HIDE DEF w
    <3>7. mid = w
      BY <3>5, <3>6, SeqEqual DEF N
    <3> QED BY <3>7 DEF w
  <2> DEFINE left == AfterParts(parts, SubSeq(name, h + 1, M))
  <2>6. SegmentMatches(parts, name) <=>
          /\ h <= M /\ Occurs(name, 0, parts[1]) /\ Occurs(name, M, parts[n])
          /\ left # {}
    <3>1. h <= M => h <= L
      BY <1>1
    <3> QED BY <2>1, <2>2, <2>4, <2>5, <3>1
  <2>7. ASSUME h <= M, Occurs(name, 0, parts[1]) PROVE M \in Nat /\ Leftmost(parts, name, M, n - 1, left)
    <3>0. M \in Nat /\ M <= L
      BY <1>1, <2>7
    <3>1. M \in Nat /\ M <= Len(name)
      BY <1>a, <3>0
    <3> HIDE DEF M
    <3>2. Leftmost(parts, name, M, Len(parts) - 1, AfterParts(parts, SubSeq(name, Len(parts[1]) + 1, M)))
      BY <1>4, <1>a, <2>7, <3>1, AfterPartsLeftmost
    <3> QED BY <1>a, <3>1, <3>2
  <2>8. \A e : Placed(parts, name, n, e) <=>
          \E d, q \in Nat : /\ Placed(parts, name, n - 1, d) /\ d <= q /\ Occurs(name, q, parts[n])
                            /\ q + l <= L /\ e = q + l
    <3> DEFINE i == n - 1
    <3>0. i \in Nat \ {0} /\ i < n /\ i + 1 = n
      BY <1>1, <1>4
    <3>1. i \in Nat \ {0} /\ i < Len(parts) /\ i + 1 = n
      BY <1>a, <3>0
    <3> HIDE DEF i
    <3>2. \A e : Placed(parts, name, i + 1, e) <=> Follows(parts, name, i, e)
      BY <3>1, PlacedNext
    <3>3. \A e : Placed(parts, name, n, e) <=> Follows(parts, name, i, e)
      BY <3>1, <3>2
    <3> QED BY <1>a, <3>1, <3>3 DEF Follows, i
  <2> HIDE DEF left
  <2>9. ASSUME SegmentMatches(parts, name) PROVE Placed(parts, name, n, L)
    <3>1. PICK p \in 0..M : Placed(parts, name, n - 1, p)
      BY <2>6, <2>7, <2>9 DEF Leftmost
    <3>2. p \in Nat /\ M \in Nat /\ p <= M /\ M + l <= L /\ L = M + l /\ Occurs(name, M, parts[n])
      BY <1>1, <2>6, <2>7, <2>9
    <3> HIDE DEF M
    <3> QED BY <2>8, <3>1, <3>2
  <2>10. ASSUME Placed(parts, name, n, L) PROVE SegmentMatches(parts, name)
    <3>1. PICK d \in Nat, q \in Nat : /\ Placed(parts, name, n - 1, d) /\ d <= q
                                      /\ Occurs(name, q, parts[n]) /\ q + l <= L /\ L = q + l
      BY <2>8, <2>10
    <3>2. q = M
      BY <1>1, <3>1
    <3>3. h <= d /\ Occurs(name, 0, parts[1])
      <4>1. PICK c : Fits(parts, name, n - 1, d, c)
        BY <3>1 DEF Placed
      <4>2. c \in [1..(n - 1) -> Nat] /\ c[1] = 0 /\ d = c[n - 1] + Len(parts[n - 1])
            /\ (\A j \in 1..(n - 1) : c[j] + Len(parts[j]) <= Len(name) /\ Occurs(name, c[j], parts[j]))
            /\ \A j \in 1..((n - 1) - 1) : c[j] + Len(parts[j]) <= c[j + 1]
        BY <4>1 DEF Fits
      <4>3. Occurs(name, 0, parts[1])
        BY <1>1, <1>4, <4>2
      <4>4. \A j \in 1..n : Len(parts[j]) \in Nat
        BY <1>a, ElementOfSeq, LenProperties
      <4> DEFINE H == {k \in Nat : k + 1 <= n - 1 => h <= c[k + 1] + Len(parts[k + 1])}
      <4>5. 0 \in H
        <5>1. 0 + 1 = 1 /\ c[1] + h = h /\ h <= h
          BY <1>1, <4>2
        <5> QED BY <1>a, <5>1
      <4>6. \A k \in Nat : k \in H => k + 1 \in H
        <5> SUFFICES ASSUME NEW k \in Nat, (k + 1) + 1 <= n - 1, h <= c[k + 1] + Len(parts[k + 1])
                     PROVE  h <= c[(k + 1) + 1] + Len(parts[(k + 1) + 1])
          BY <1>1
        <5>1. k + 1 \in 1..((n - 1) - 1) /\ k + 1 \in 1..(n - 1) /\ (k + 1) + 1 \in 1..(n - 1)
              /\ k + 1 \in 1..n /\ (k + 1) + 1 \in 1..n
          BY <1>1
        <5>2. c[k + 1] \in Nat /\ c[(k + 1) + 1] \in Nat /\ Len(parts[k + 1]) \in Nat
              /\ Len(parts[(k + 1) + 1]) \in Nat /\ c[k + 1] + Len(parts[k + 1]) <= c[(k + 1) + 1]
          BY <4>2, <4>4, <5>1
        <5> DEFINE u == c[k + 1]
                   v == Len(parts[k + 1])
                   w == c[(k + 1) + 1]
                   x == Len(parts[(k + 1) + 1])
        <5>3. u \in Nat /\ v \in Nat /\ w \in Nat /\ x \in Nat /\ u + v <= w /\ h <= u + v
          BY <5>2
        <5> HIDE DEF u, v, w, x
        <5>4. h <= w + x
          BY <1>1, <5>3
        <5> QED BY <5>4 DEF w, x
      <4>7. n - 2 \in H
        <5>1. n - 2 \in Nat
          BY <1>1, <1>4
        <5> HIDE DEF H
        <5> QED BY <4>5, <4>6, <5>1, NatSetInduction
      <4>8. h <= c[n - 1] + Len(parts[n - 1])
        <5>1. (n - 2) + 1 = n - 1 /\ (n - 2) + 1 <= n - 1
          BY <1>1
        <5> QED BY <4>7, <5>1
      <4> QED BY <4>2, <4>3, <4>8
    <3>4. h <= M /\ M \in Nat
      BY <1>1, <3>1, <3>2, <3>3
    <3>5. left # {}
      <4>1. Leftmost(parts, name, M, n - 1, left)
        BY <2>7, <3>3, <3>4
      <4>2. d <= M
        BY <3>1, <3>2
      <4>3. ~(d > M)
        BY <3>4, <4>2
      <4>4. CASE left = {} /\ \A e \in Nat : Placed(parts, name, n - 1, e) => e > M
        BY <3>1, <4>3, <4>4
      <4> HIDE DEF M
      <4> QED BY <4>1, <4>4 DEF Leftmost
    <3> HIDE DEF M
    <3> QED BY <2>6, <3>1, <3>2, <3>3, <3>4, <3>5
  <2> QED BY <1>2, <2>9, <2>10
<1>5. n = 1 \/ n > 1
  BY <1>1
<1> QED BY <1>3, <1>4, <1>5

-----------------------------------------------------------------------------
(***************************************************************************)
(* Scaffold: the walk of a member                                          *)
(* PathMatches, split at a directory: Leads says that the names after it   *)
(* fall into pieces for the segments after the first k.  The nesting of    *)
(* the calls is bounded by the segments left and by the levels below a     *)
(* directory.                                                              *)
(***************************************************************************)

\* Sequences of names, and a member of a workspace.
Trails == Seq(Seq(Nat))
Globs == Seq(Seq(Seq(Nat)) \ {<<>>})

Begins(d, e) == Len(d) <= Len(e) /\ \A j \in 1..Len(d) : d[j] = e[j]

\* The names of e after those of d fall into one piece per segment after the first k.
Pieces(segs, k, d, e, c) ==
  /\ c \in [1..(Len(segs) + 1) -> 0..Len(e)] /\ c[k + 1] = Len(d) /\ c[Len(segs) + 1] = Len(e)
  /\ Begins(d, e)
  /\ \A i \in (k + 1)..Len(segs) :
       /\ c[i] <= c[i + 1]
       /\ \/ segs[i] = DoubleStar
          \/ c[i + 1] = c[i] + 1 /\ GlobMatches(segs[i], e[c[i + 1]])
Leads(segs, k, d, e) == \E c : Pieces(segs, k, d, e, c)

LEMMA BeginsNext ==
  ASSUME NEW d \in Trails, NEW e \in Trails, NEW x \in Seq(Nat)
  PROVE  Begins(Append(d, x), e) <=> Begins(d, e) /\ Len(d) + 1 <= Len(e) /\ x = e[Len(d) + 1]
<1> DEFINE f == Append(d, x)
           n == Len(d)
           m == Len(e)
<1>1. n \in Nat /\ m \in Nat
  BY LenProperties DEF Trails
<1>2. Len(f) = n + 1 /\ f[n + 1] = x /\ \A j \in 1..n : f[j] = d[j]
  <2>1. d \in Seq(Seq(Nat))
    BY DEF Trails
  <2> QED BY <2>1, AppendProperties
<1>a. Begins(d, e) <=> n <= m /\ \A j \in 1..n : d[j] = e[j]
  BY DEF Begins
<1>b. Begins(f, e) <=> n + 1 <= m /\ \A j \in 1..(n + 1) : f[j] = e[j]
  BY <1>2 DEF Begins
<1> HIDE DEF f, n, m
<1>3. (\A j \in 1..(n + 1) : f[j] = e[j]) <=> (\A j \in 1..n : f[j] = e[j]) /\ f[n + 1] = e[n + 1]
  <2>1. \A j : j \in 1..(n + 1) <=> j \in 1..n \/ j = n + 1
    BY <1>1
  <2> QED BY <2>1
<1>4. n + 1 <= m => n <= m
  BY <1>1
<1>5. (\A j \in 1..n : f[j] = e[j]) <=> \A j \in 1..n : d[j] = e[j]
  BY <1>2
<1>6. f[n + 1] = x
  BY <1>2
<1> QED BY <1>a, <1>b, <1>3, <1>4, <1>5, <1>6 DEF f, n, m

\* No segment left, `**`, and any other segment.
LEMMA LeadsEnd ==
  ASSUME NEW segs \in Globs, NEW d \in Trails, NEW e \in Trails
  PROVE  Leads(segs, Len(segs), d, e) <=> d = e
<1> DEFINE L == Len(segs)
<1>1. L \in Nat /\ Len(d) \in Nat /\ Len(e) \in Nat
  BY LenProperties DEF Globs, Trails
<1>2. ASSUME NEW c, Pieces(segs, L, d, e, c) PROVE d = e
  <2>1. Len(d) = Len(e) /\ \A j \in 1..Len(d) : d[j] = e[j]
    BY <1>2 DEF Pieces, Begins
  <2> QED BY <2>1, SeqEqual DEF Trails
<1>3. ASSUME d = e PROVE Leads(segs, L, d, e)
  <2> DEFINE c == [i \in 1..(L + 1) |-> Len(e)]
  <2>1. c \in [1..(L + 1) -> 0..Len(e)] /\ c[L + 1] = Len(e)
    BY <1>1
  <2>2. (L + 1)..L = {} /\ Begins(d, e)
    BY <1>1, <1>3 DEF Begins
  <2> HIDE DEF c
  <2>3. Pieces(segs, L, d, e, c)
    BY <1>3, <2>1, <2>2 DEF Pieces
  <2> QED BY <2>3 DEF Leads
<1> QED BY <1>2, <1>3 DEF Leads

LEMMA LeadsStar ==
  ASSUME NEW segs \in Globs, NEW k \in Nat, k < Len(segs), segs[k + 1] = DoubleStar,
         NEW d \in Trails, NEW e \in Trails
  PROVE  Leads(segs, k, d, e) <=>
           \/ Leads(segs, k + 1, d, e)
           \/ \E x \in Seq(Nat) : Leads(segs, k, Append(d, x), e)
<1> DEFINE L == Len(segs)
           n == Len(d)
           m == Len(e)
<1>1. L \in Nat /\ n \in Nat /\ m \in Nat /\ k + 1 \in (k + 1)..L /\ k + 1 \in 1..(L + 1)
      /\ k + 2 \in 1..(L + 1) /\ (k + 1) + 1 = k + 2
      /\ \A i : i \in (k + 1)..L <=> i = k + 1 \/ i \in (k + 2)..L
  <2>1. L \in Nat /\ n \in Nat /\ m \in Nat
    BY LenProperties DEF Globs, Trails
  <2> QED BY <2>1
<1>2. \A x \in Seq(Nat) : /\ Len(Append(d, x)) = n + 1
                          /\ Begins(Append(d, x), e) <=> Begins(d, e) /\ n + 1 <= m /\ x = e[n + 1]
  <2> TAKE x \in Seq(Nat)
  <2>1. d \in Seq(Seq(Nat))
    BY DEF Trails
  <2> QED BY <2>1, BeginsNext, AppendProperties
<1>3. \A i \in 1..m : e[i] \in Seq(Nat)
  BY ElementOfSeq DEF Trails
<1>a. \A f, c : Pieces(segs, k, f, e, c) <=>
        /\ c \in [1..(L + 1) -> 0..m] /\ c[k + 1] = Len(f) /\ c[L + 1] = m /\ Begins(f, e)
        /\ c[k + 1] <= c[k + 2]
        /\ \A i \in (k + 2)..L : /\ c[i] <= c[i + 1]
                                 /\ \/ segs[i] = DoubleStar
                                    \/ c[i + 1] = c[i] + 1 /\ GlobMatches(segs[i], e[c[i + 1]])
  BY <1>1 DEF Pieces
<1>b. \A c : Pieces(segs, k + 1, d, e, c) <=>
        /\ c \in [1..(L + 1) -> 0..m] /\ c[k + 2] = n /\ c[L + 1] = m /\ Begins(d, e)
        /\ \A i \in (k + 2)..L : /\ c[i] <= c[i + 1]
                                 /\ \/ segs[i] = DoubleStar
                                    \/ c[i + 1] = c[i] + 1 /\ GlobMatches(segs[i], e[c[i + 1]])
  BY <1>1 DEF Pieces
<1>c. Begins(d, e) => n <= m
  BY DEF Begins
<1>d. n = Len(d)
  OBVIOUS
<1> HIDE DEF L, n, m
<1>4. ASSUME NEW c, Pieces(segs, k, d, e, c)
      PROVE  Leads(segs, k + 1, d, e) \/ \E x \in Seq(Nat) : Leads(segs, k, Append(d, x), e)
  <2>1. /\ c \in [1..(L + 1) -> 0..m] /\ c[k + 1] = n /\ c[L + 1] = m /\ Begins(d, e)
        /\ c[k + 1] <= c[k + 2]
        /\ \A i \in (k + 2)..L : /\ c[i] <= c[i + 1]
                                 /\ \/ segs[i] = DoubleStar
                                    \/ c[i + 1] = c[i] + 1 /\ GlobMatches(segs[i], e[c[i + 1]])
    BY <1>4, <1>a, <1>d
  <2>2. CASE c[k + 2] = n
    <3>1. Pieces(segs, k + 1, d, e, c)
      BY <1>b, <2>1, <2>2
    <3> QED BY <3>1 DEF Leads
  <2>3. CASE c[k + 2] # n
    <3> DEFINE x == e[n + 1]
               b == [c EXCEPT ![k + 1] = n + 1]
    <3>1. c[k + 2] \in 0..m /\ n <= c[k + 2]
      BY <1>1, <2>1
    <3>2. n + 1 <= c[k + 2] /\ n + 1 <= m /\ n + 1 \in 1..m /\ n + 1 \in 0..m
      BY <1>1, <2>3, <3>1
    <3>3. b \in [1..(L + 1) -> 0..m] /\ b[k + 1] = n + 1 /\ \A i \in 1..(L + 1) : i # k + 1 => b[i] = c[i]
      BY <1>1, <2>1, <3>2
    <3> HIDE DEF b
    <3>4. \A i \in (k + 2)..L : i \in 1..(L + 1) /\ i + 1 \in 1..(L + 1) /\ i # k + 1 /\ i + 1 # k + 1
      BY <1>1
    <3>5. \A i \in (k + 2)..L : b[i] = c[i] /\ b[i + 1] = c[i + 1]
      BY <3>3, <3>4
    <3>6. b[k + 2] = c[k + 2] /\ b[L + 1] = c[L + 1]
      <4>1. k + 2 # k + 1 /\ L + 1 \in 1..(L + 1) /\ L + 1 # k + 1
        BY <1>1
      <4> QED BY <1>1, <3>3, <4>1
    <3>7. x \in Seq(Nat) /\ Begins(Append(d, x), e) /\ Len(Append(d, x)) = n + 1
      BY <1>2, <1>3, <2>1, <3>2
    <3> HIDE DEF x
    <3>8. Pieces(segs, k, Append(d, x), e, b)
      BY <1>a, <2>1, <3>2, <3>3, <3>5, <3>6, <3>7
    <3> QED BY <3>7, <3>8 DEF Leads
  <2> QED BY <2>2, <2>3
<1>5. ASSUME NEW c \in [1..(L + 1) -> 0..m], c[L + 1] = m, Begins(d, e), n <= c[k + 2],
             \A i \in (k + 2)..L : /\ c[i] <= c[i + 1]
                                   /\ \/ segs[i] = DoubleStar
                                      \/ c[i + 1] = c[i] + 1 /\ GlobMatches(segs[i], e[c[i + 1]])
      PROVE  Leads(segs, k, d, e)
  <2> DEFINE b == [c EXCEPT ![k + 1] = n]
  <2>1. n \in 0..m
    BY <1>1, <1>5, <1>c
  <2>2. b \in [1..(L + 1) -> 0..m] /\ b[k + 1] = n /\ \A i \in 1..(L + 1) : i # k + 1 => b[i] = c[i]
    BY <1>1, <1>5, <2>1
  <2> HIDE DEF b
  <2>3. \A i \in (k + 2)..L : i \in 1..(L + 1) /\ i + 1 \in 1..(L + 1) /\ i # k + 1 /\ i + 1 # k + 1
    BY <1>1
  <2>4. \A i \in (k + 2)..L : b[i] = c[i] /\ b[i + 1] = c[i + 1]
    BY <2>2, <2>3
  <2>5. b[k + 2] = c[k + 2] /\ b[L + 1] = c[L + 1]
    <3>1. k + 2 # k + 1 /\ L + 1 \in 1..(L + 1) /\ L + 1 # k + 1
      BY <1>1
    <3> QED BY <1>1, <2>2, <3>1
  <2>6. Pieces(segs, k, d, e, b)
    BY <1>5, <1>a, <1>d, <2>2, <2>4, <2>5
  <2> QED BY <2>6 DEF Leads
<1>6. ASSUME Leads(segs, k + 1, d, e) PROVE Leads(segs, k, d, e)
  <2>1. PICK c : Pieces(segs, k + 1, d, e, c)
    BY <1>6 DEF Leads
  <2>2. n <= n
    BY <1>1
  <2> QED BY <1>5, <1>b, <2>1, <2>2
<1>7. ASSUME NEW x \in Seq(Nat), Leads(segs, k, Append(d, x), e) PROVE Leads(segs, k, d, e)
  <2>1. PICK c : Pieces(segs, k, Append(d, x), e, c)
    BY <1>7 DEF Leads
  <2>2. c \in [1..(L + 1) -> 0..m] /\ c[k + 1] = n + 1 /\ c[k + 1] <= c[k + 2] /\ Begins(d, e)
    BY <1>2, <1>a, <2>1
  <2>3. n <= c[k + 2]
    <3>1. c[k + 2] \in Int
      BY <1>1, <2>2
    <3> QED BY <1>1, <2>2, <3>1
  <2> QED BY <1>5, <1>a, <2>1, <2>2, <2>3
<1> QED BY <1>4, <1>6, <1>7 DEF Leads

LEMMA LeadsOne ==
  ASSUME NEW segs \in Globs, NEW k \in Nat, k < Len(segs), segs[k + 1] # DoubleStar,
         NEW d \in Trails, NEW e \in Trails
  PROVE  Leads(segs, k, d, e) <=>
           \E x \in Seq(Nat) : GlobMatches(segs[k + 1], x) /\ Leads(segs, k + 1, Append(d, x), e)
<1> DEFINE L == Len(segs)
           n == Len(d)
           m == Len(e)
           Rest(c) == \A i \in (k + 2)..L : /\ c[i] <= c[i + 1]
                                            /\ \/ segs[i] = DoubleStar
                                               \/ c[i + 1] = c[i] + 1 /\ GlobMatches(segs[i], e[c[i + 1]])
<1>1. L \in Nat /\ n \in Nat /\ m \in Nat /\ k + 1 \in (k + 1)..L /\ k + 1 \in 1..(L + 1)
      /\ k + 2 \in 1..(L + 1) /\ (k + 1) + 1 = k + 2
      /\ \A i : i \in (k + 1)..L <=> i = k + 1 \/ i \in (k + 2)..L
  <2>1. L \in Nat /\ n \in Nat /\ m \in Nat
    BY LenProperties DEF Globs, Trails
  <2> QED BY <2>1
<1>2. \A x \in Seq(Nat) : /\ Len(Append(d, x)) = n + 1
                          /\ Begins(Append(d, x), e) <=> Begins(d, e) /\ n + 1 <= m /\ x = e[n + 1]
  <2> TAKE x \in Seq(Nat)
  <2>1. d \in Seq(Seq(Nat))
    BY DEF Trails
  <2> QED BY <2>1, BeginsNext, AppendProperties
<1>3. \A i \in 1..m : e[i] \in Seq(Nat)
  BY ElementOfSeq DEF Trails
<1>a. \A c : Pieces(segs, k, d, e, c) <=>
        /\ c \in [1..(L + 1) -> 0..m] /\ c[k + 1] = n /\ c[L + 1] = m /\ Begins(d, e)
        /\ c[k + 1] <= c[k + 2] /\ c[k + 2] = c[k + 1] + 1 /\ GlobMatches(segs[k + 1], e[c[k + 2]])
        /\ Rest(c)
  BY <1>1 DEF Pieces
<1>b. \A f, c : Pieces(segs, k + 1, f, e, c) <=>
        /\ c \in [1..(L + 1) -> 0..m] /\ c[k + 2] = Len(f) /\ c[L + 1] = m /\ Begins(f, e)
        /\ Rest(c)
  BY <1>1 DEF Pieces
<1>c. \A b, c : (\A i \in (k + 2)..L : b[i] = c[i] /\ b[i + 1] = c[i + 1]) => (Rest(b) <=> Rest(c))
  OBVIOUS
<1> HIDE DEF L, n, m, Rest
<1>4. ASSUME NEW c, Pieces(segs, k, d, e, c)
      PROVE  \E x \in Seq(Nat) : GlobMatches(segs[k + 1], x) /\ Leads(segs, k + 1, Append(d, x), e)
  <2>1. /\ c \in [1..(L + 1) -> 0..m] /\ c[k + 1] = n /\ c[L + 1] = m /\ Begins(d, e)
        /\ c[k + 2] = n + 1 /\ GlobMatches(segs[k + 1], e[n + 1]) /\ Rest(c)
    BY <1>4, <1>a
  <2> DEFINE x == e[n + 1]
  <2>2. c[k + 2] \in 0..m
    BY <1>1, <2>1
  <2>3. n + 1 \in 1..m /\ n + 1 <= m
    BY <1>1, <2>1, <2>2
  <2>4. x \in Seq(Nat) /\ Begins(Append(d, x), e) /\ Len(Append(d, x)) = n + 1
    BY <1>2, <1>3, <2>1, <2>3
  <2>5. Pieces(segs, k + 1, Append(d, x), e, c)
    BY <1>b, <2>1, <2>4
  <2> QED BY <2>1, <2>4, <2>5 DEF Leads
<1>5. ASSUME NEW x \in Seq(Nat), GlobMatches(segs[k + 1], x), NEW c, Pieces(segs, k + 1, Append(d, x), e, c)
      PROVE  Leads(segs, k, d, e)
  <2>1. /\ c \in [1..(L + 1) -> 0..m] /\ c[k + 2] = n + 1 /\ c[L + 1] = m /\ Begins(d, e) /\ Rest(c)
        /\ n + 1 <= m /\ x = e[n + 1]
    BY <1>2, <1>5, <1>b
  <2> DEFINE b == [c EXCEPT ![k + 1] = n]
  <2>2. n \in 0..m
    BY <1>1, <2>1
  <2>3. b \in [1..(L + 1) -> 0..m] /\ b[k + 1] = n /\ \A i \in 1..(L + 1) : i # k + 1 => b[i] = c[i]
    BY <1>1, <2>1, <2>2
  <2> HIDE DEF b
  <2>4. \A i \in (k + 2)..L : i \in 1..(L + 1) /\ i + 1 \in 1..(L + 1) /\ i # k + 1 /\ i + 1 # k + 1
    BY <1>1
  <2>5. \A i \in (k + 2)..L : b[i] = c[i] /\ b[i + 1] = c[i + 1]
    BY <2>3, <2>4
  <2>6. b[k + 2] = c[k + 2] /\ b[L + 1] = c[L + 1]
    <3>1. k + 2 # k + 1 /\ L + 1 \in 1..(L + 1) /\ L + 1 # k + 1
      BY <1>1
    <3> QED BY <1>1, <2>3, <3>1
  <2>7. n <= n + 1 /\ Rest(b)
    <3>1. n <= n + 1
      BY <1>1
    <3>2. Rest(b) <=> Rest(c)
      BY <1>c, <2>5
    <3> QED BY <2>1, <3>1, <3>2
  <2>8. Pieces(segs, k, d, e, b)
    BY <1>5, <1>a, <2>1, <2>3, <2>6, <2>7
  <2> QED BY <2>8 DEF Leads
<1> QED BY <1>4, <1>5 DEF Leads

LEMMA LeadsTop ==
  ASSUME NEW segs \in Globs, NEW e \in Trails
  PROVE  Leads(segs, 0, Top, e) <=> PathMatches(segs, e)
<1> DEFINE L == Len(segs)
           m == Len(e)
           Good(c) == \A i \in 1..L : \/ segs[i] = DoubleStar
                                      \/ c[i + 1] = c[i] + 1 /\ GlobMatches(segs[i], e[c[i + 1]])
<1>1. L \in Nat /\ m \in Nat /\ Len(Top) = 0 /\ 0 + 1 = 1 /\ (L + 1) - 1 = L
  BY LenProperties, EmptySeq DEF Globs, Trails, Top
<1>2. Begins(Top, e)
  <2>1. 1..0 = {}
    OBVIOUS
  <2> QED BY <1>1, <2>1 DEF Begins
<1>3. \A c : Pieces(segs, 0, Top, e, c) <=>
        /\ c \in [1..(L + 1) -> 0..m] /\ c[1] = 0 /\ c[L + 1] = m
        /\ (\A i \in 1..L : c[i] <= c[i + 1]) /\ Good(c)
  BY <1>1, <1>2 DEF Pieces
<1>4. PathMatches(segs, e) <=> \E c \in Cuts(L + 1, m) : c[1] = 0 /\ c[L + 1] = m /\ Good(c)
  BY DEF PathMatches
<1>5. Cuts(L + 1, m) = {c \in [1..(L + 1) -> 0..m] : \A i \in 1..L : c[i] <= c[i + 1]}
  BY <1>1 DEF Cuts
<1> HIDE DEF L, m, Good
<1> QED BY <1>3, <1>4, <1>5 DEF Leads

\* A directory is a sequence of names, and so is the one that holds it.
LEMMA DirsAre ==
  ASSUME NEW e \in Dirs
  PROVE  /\ e \in Trails /\ Len(e) \in 0..Depth
         /\ \A i \in 1..Len(e) : e[i] \in ToSet(Names)
<1> DEFINE N == ToSet(Names)
<1>1. Names \in Seq(Seq(Nat)) /\ Depth \in Nat
  BY ScaffoldAssumption
<1>2. N \subseteq Seq(Nat)
  <2>1. \A i \in 1..Len(Names) : Names[i] \in Seq(Nat)
    BY <1>1, ElementOfSeq
  <2>2. DOMAIN Names = 1..Len(Names)
    BY <1>1, LenProperties
  <2> QED BY <2>1, <2>2 DEF ToSet
<1> HIDE DEF N
<1>3. PICK m \in 0..Depth : e \in [1..m -> N]
  <2>1. e \in UNION {[1..m -> N] : m \in 0..Depth}
    BY DEF Dirs, BoundedSeq, SeqOf, N
  <2> QED BY <2>1
<1>4. m \in Nat
  BY <1>1
<1>5. e \in Seq(N) /\ Len(e) = m
  BY <1>3, <1>4
<1>6. \A i \in 1..m : e[i] \in N
  BY <1>3
<1>7. e \in Seq(Seq(Nat))
  BY <1>2, <1>3, <1>4
<1> QED BY <1>3, <1>5, <1>6, <1>7 DEF Trails, N

LEMMA TreeHolds ==
  ASSUME dirs \in DirTrees, NEW e \in dirs
  PROVE  e \in Dirs /\ (e # Top => Front(e) \in dirs)
BY DEF DirTrees

\* A sequence of names that begins a directory of the tree is one.
LEMMA TreeClosed ==
  ASSUME dirs \in DirTrees, NEW d \in Trails, NEW e \in dirs, Begins(d, e)
  PROVE  d \in dirs
<1> DEFINE n == Len(d)
           H == {k \in Nat : \A f \in dirs : Begins(d, f) /\ Len(f) = n + k => d \in dirs}
<1>1. n \in Nat /\ \A f \in dirs : f \in Trails /\ Len(f) \in Nat
  <2>1. n \in Nat
    BY LenProperties DEF Trails
  <2>2. \A f \in dirs : f \in Trails /\ Len(f) \in 0..Depth
    BY TreeHolds, DirsAre
  <2> QED BY <2>1, <2>2, ScaffoldAssumption
<1>2. 0 \in H
  <2> SUFFICES ASSUME NEW f \in dirs, Begins(d, f), Len(f) = n PROVE d \in dirs
    BY <1>1
  <2>1. f \in Trails /\ Len(f) = Len(d) /\ \A j \in 1..Len(d) : d[j] = f[j]
    BY <1>1 DEF Begins
  <2>2. d = f
    BY <2>1, SeqEqual DEF Trails
  <2> QED BY <2>2
<1>3. \A k \in Nat : k \in H => k + 1 \in H
  <2> SUFFICES ASSUME NEW k \in Nat, k \in H, NEW f \in dirs, Begins(d, f), Len(f) = n + (k + 1)
               PROVE  d \in dirs
    BY <1>1
  <2> DEFINE g == Front(f)
  <2>a. \A h \in dirs : Begins(d, h) /\ Len(h) = n + k => d \in dirs
    OBVIOUS
  <2>b. \A j \in 1..n : d[j] = f[j]
    BY DEF Begins
  <2>c. Len(f) = n + (k + 1)
    OBVIOUS
  <2> HIDE DEF n, H
  <2>1. f \in Seq(Seq(Nat)) /\ f # <<>>
    <3>1. f \in Seq(Seq(Nat))
      BY <1>1 DEF Trails
    <3>2. Len(f) # 0
      BY <1>1, <2>c
    <3> QED BY <3>1, <3>2, EmptySeq
  <2>2. g \in dirs
    BY <2>1, TreeHolds DEF Top
  <2>3. Len(g) = n + k /\ \A j \in 1..(n + k) : g[j] = f[j]
    <3>1. Len(f) \in Nat /\ 1 \in Int /\ Len(f) - 1 = n + k /\ n + k \in Nat
      BY <1>1, <2>c
    <3>2. \A i \in 1..(n + k) : f[i] \in Seq(Nat)
      <4>1. \A i \in 1..(n + k) : i \in 1..Len(f)
        BY <1>1, <2>c
      <4> QED BY <2>1, <4>1, ElementOfSeq
    <3>3. g = SubSeq(f, 1, n + k)
      BY <3>1 DEF Front
    <3> DEFINE l == n + k
    <3>4. l \in Nat /\ \A i \in 1..l : f[i] \in Seq(Nat)
      BY <3>1, <3>2
    <3> HIDE DEF l, g
    <3>5. /\ Len(SubSeq(f, 1, l)) = IF 1 <= l THEN l - 1 + 1 ELSE 0
          /\ \A i \in 1..(l - 1 + 1) : SubSeq(f, 1, l)[i] = f[1 + i - 1]
      BY <3>4, SubSeqProperties
    <3>6. Len(SubSeq(f, 1, l)) = l /\ \A i \in 1..l : SubSeq(f, 1, l)[i] = f[i]
      BY <3>4, <3>5
    <3> QED BY <3>3, <3>6 DEF l
  <2> HIDE DEF g
  <2>4. Begins(d, g)
    <3>1. n <= Len(g) /\ \A j \in 1..n : j \in 1..(n + k)
      BY <1>1, <2>3
    <3> QED BY <2>b, <2>3, <3>1 DEF Begins, n
  <2> QED BY <2>2, <2>3, <2>4, <2>a
<1>4. Len(e) - n \in Nat /\ n + (Len(e) - n) = Len(e)
  BY <1>1 DEF Begins
<1>5. Len(e) - n \in H
  <2> HIDE DEF H
  <2> QED BY <1>2, <1>3, <1>4, NatSetInduction
<1> QED BY <1>4, <1>5

\* The directories in d.
LEMMA SubdirsAre ==
  ASSUME dirs \in DirTrees, NEW d \in Trails
  PROVE  /\ Subdirs(d) \in Seq(Trails)
         /\ \A f : f \in ToSet(Subdirs(d)) <=> f \in dirs /\ \E x \in Seq(Nat) : f = Append(d, x)
<1> DEFINE m == Len(Names)
           s == [i \in 1..m |-> Append(d, Names[i])]
<1>1. m \in Nat /\ Names \in Seq(Seq(Nat)) /\ \A i \in 1..m : Names[i] \in Seq(Nat)
  BY ScaffoldAssumption, LenProperties, ElementOfSeq
<1>2. \A x \in Seq(Nat) : /\ Append(d, x) \in Trails /\ Len(Append(d, x)) = Len(d) + 1
                          /\ Append(d, x)[Len(d) + 1] = x
  BY AppendProperties DEF Trails
<1>3. s \in Seq(Trails) /\ Len(s) = m /\ \A i \in 1..m : s[i] = Append(d, Names[i])
  <2>1. \A i \in 1..m : Append(d, Names[i]) \in Trails
    BY <1>1, <1>2
  <2> QED BY <1>1, <2>1
<1>4. ToSet(s) = {s[i] : i \in 1..m}
  <2>1. DOMAIN s = 1..m
    OBVIOUS
  <2> QED BY <2>1 DEF ToSet
<1>5. Subdirs(d) = Picked(s, dirs)
  BY DEF Subdirs
<1> HIDE DEF s
<1>6. Subdirs(d) \in Seq(Trails) /\ ToSet(Subdirs(d)) = ToSet(s) \cap dirs
  BY <1>3, <1>5, PickedIs
<1>7. ASSUME NEW f \in dirs, NEW x \in Seq(Nat), f = Append(d, x) PROVE f \in ToSet(s)
  <2>1. f \in Dirs
    BY <1>7, TreeHolds
  <2>2. \A i \in 1..Len(f) : f[i] \in ToSet(Names)
    BY <2>1, DirsAre
  <2>3. Len(d) + 1 \in 1..Len(f)
    BY <1>2, <1>7, LenProperties DEF Trails
  <2>4. x \in ToSet(Names)
    BY <1>2, <1>7, <2>2, <2>3
  <2>5. DOMAIN Names = 1..m
    BY <1>1, LenProperties
  <2>6. PICK i \in 1..m : x = Names[i]
    BY <2>4, <2>5 DEF ToSet
  <2> QED BY <1>3, <1>4, <1>7, <2>6
<1>8. ASSUME NEW f \in ToSet(s) PROVE \E x \in Seq(Nat) : f = Append(d, x)
  BY <1>1, <1>3, <1>4, <1>8
<1> QED BY <1>6, <1>7, <1>8

\* What Each finds.
LEMMA EachFinds ==
  ASSUME NEW ds \in Seq(Trails), NEW f \in [Trails -> Seq(Trails)]
  PROVE  /\ Each(ds, f) \in Seq(Trails)
         /\ \A e : e \in ToSet(Each(ds, f)) <=> \E x \in ToSet(ds) : e \in ToSet(f[x])
<1> DEFINE n == Len(ds)
           s == [i \in 1..n |-> f[ds[i]]]
<1>1. n \in Nat /\ DOMAIN ds = 1..n /\ \A i \in 1..n : ds[i] \in Trails
  BY LenProperties, ElementOfSeq
<1>2. s \in Seq(Seq(Trails)) /\ Len(s) = n /\ \A i \in 1..n : s[i] = f[ds[i]]
  <2>1. \A i \in 1..n : f[ds[i]] \in Seq(Trails)
    BY <1>1
  <2> QED BY <1>1, <2>1
<1>3. Each(ds, f) = FlattenSeq(s)
  BY DEF Each
<1> HIDE DEF s
<1>4. Each(ds, f) \in Seq(Trails) /\ ToSet(Each(ds, f)) = UNION {ToSet(s[i]) : i \in 1..Len(s)}
  BY <1>2, <1>3, FlattenHolds
<1>5. \A e : e \in ToSet(Each(ds, f)) <=> \E i \in 1..n : e \in ToSet(f[ds[i]])
  <2>1. \A e : e \in ToSet(Each(ds, f)) <=> \E i \in 1..Len(s) : e \in ToSet(s[i])
    BY <1>4
  <2>2. Len(s) = n /\ \A i \in 1..n : s[i] = f[ds[i]]
    BY <1>2
  <2> HIDE DEF n
  <2> QED BY <2>1, <2>2
<1>6. \A x : x \in ToSet(ds) <=> \E i \in 1..n : x = ds[i]
  BY <1>1 DEF ToSet
<1> QED BY <1>4, <1>5, <1>6

\* The four kinds of call; s is the next segment, P what it matches.
Calls(segs, deeper, k, d, s, P) ==
  /\ k = Len(segs) => WalkCall(segs, deeper, k, d) = <<d>>
  /\ k < Len(segs) /\ s = DoubleStar =>
       WalkCall(segs, deeper, k, d) = deeper[k + 1][d] \o Each(Subdirs(d), deeper[k])
  /\ k < Len(segs) /\ s # DoubleStar /\ Globbed(s) =>
       WalkCall(segs, deeper, k, d) = Each(Picked(Subdirs(d), P), deeper[k + 1])
  /\ k < Len(segs) /\ s # DoubleStar /\ ~Globbed(s) =>
       WalkCall(segs, deeper, k, d) = deeper[k + 1][Append(d, s[1])]

LEMMA WalkCallIs ==
  ASSUME NEW segs \in Globs, NEW k \in 0..Len(segs), NEW d, NEW deeper, NEW s, s = segs[k + 1],
         NEW P, P = {x \in dirs \ {Top} : SegmentMatches(s, Last(x))}
  PROVE  Calls(segs, deeper, k, d, s, P)
<1>1. Len(segs) \in Nat
  BY LenProperties DEF Globs
<1>2. k < Len(segs) => k # Len(segs)
  BY <1>1
<1> QED BY <1>2 DEF WalkCall, Calls

\* A call of walk keeps to sequences of sequences of names.
LEMMA WalkCallType ==
  ASSUME dirs \in DirTrees, NEW segs \in Globs, NEW k \in 0..Len(segs), NEW d \in Trails,
         NEW deeper \in [0..Len(segs) -> [Trails -> Seq(Trails)]]
  PROVE  WalkCall(segs, deeper, k, d) \in Seq(Trails)
<1> DEFINE L == Len(segs)
           s == segs[k + 1]
           P == {x \in dirs \ {Top} : SegmentMatches(s, Last(x))}
<1>1. L \in Nat /\ \A i \in 1..L : segs[i] \in Seq(Seq(Nat)) \ {<<>>}
  BY LenProperties, ElementOfSeq DEF Globs
<1>2. /\ k = L => WalkCall(segs, deeper, k, d) = <<d>>
      /\ k < L /\ s = DoubleStar =>
           WalkCall(segs, deeper, k, d) = deeper[k + 1][d] \o Each(Subdirs(d), deeper[k])
      /\ k < L /\ s # DoubleStar /\ Globbed(s) =>
           WalkCall(segs, deeper, k, d) = Each(Picked(Subdirs(d), P), deeper[k + 1])
      /\ k < L /\ s # DoubleStar /\ ~Globbed(s) =>
           WalkCall(segs, deeper, k, d) = deeper[k + 1][Append(d, s[1])]
  <2>1. s = segs[k + 1] /\ P = {x \in dirs \ {Top} : SegmentMatches(s, Last(x))}
    OBVIOUS
  <2> HIDE DEF s, P
  <2>2. Calls(segs, deeper, k, d, s, P)
    BY <2>1, WalkCallIs
  <2> QED BY <2>2 DEF Calls
<1> HIDE DEF P
<1>3. CASE k = L
  <2>1. <<d>> \in Seq(Trails)
    OBVIOUS
  <2>2. WalkCall(segs, deeper, k, d) = <<d>>
    BY <1>2, <1>3
  <2> QED BY <2>1, <2>2
<1>4. k < L => k + 1 \in 0..L /\ k + 1 \in 1..L
  BY <1>1
<1>a. \A ds \in Seq(Trails), f \in [Trails -> Seq(Trails)] : Each(ds, f) \in Seq(Trails)
  BY EachFinds
<1>5. Subdirs(d) \in Seq(Trails) /\ Picked(Subdirs(d), P) \in Seq(Trails)
  <2>1. Subdirs(d) \in Seq(Trails)
    BY SubdirsAre
  <2> QED BY <2>1, PickedIs
<1>6. CASE k < L /\ s = DoubleStar
  <2>1. deeper[k + 1][d] \in Seq(Trails) /\ deeper[k] \in [Trails -> Seq(Trails)]
    BY <1>4, <1>6
  <2>2. Each(Subdirs(d), deeper[k]) \in Seq(Trails)
    BY <1>5, <1>a, <2>1
  <2>3. deeper[k + 1][d] \o Each(Subdirs(d), deeper[k]) \in Seq(Trails)
    BY <2>1, <2>2, ConcatProperties
  <2> QED BY <1>2, <1>6, <2>3
<1>7. CASE k < L /\ s # DoubleStar /\ Globbed(s)
  <2>1. deeper[k + 1] \in [Trails -> Seq(Trails)]
    BY <1>4, <1>7
  <2>2. Each(Picked(Subdirs(d), P), deeper[k + 1]) \in Seq(Trails)
    BY <1>5, <1>a, <2>1
  <2> QED BY <1>2, <1>7, <2>2
<1>8. CASE k < L /\ s # DoubleStar /\ ~Globbed(s)
  <2>1. deeper[k + 1] \in [Trails -> Seq(Trails)]
    BY <1>4, <1>8
  <2>2. s \in Seq(Seq(Nat)) /\ s # <<>>
    BY <1>1, <1>4, <1>8
  <2>3. s[1] \in Seq(Nat)
    <3>1. 1 \in 1..Len(s)
      BY <2>2, EmptySeq, LenProperties
    <3> QED BY <2>2, <3>1, ElementOfSeq
  <2>4. Append(d, s[1]) \in Trails
    BY <2>3, AppendProperties DEF Trails
  <2> QED BY <1>2, <1>8, <2>1, <2>4
<1> QED BY <1>1, <1>3, <1>6, <1>7, <1>8

\* The calls WalkPattern makes.
Walks(calls, segs) ==
  /\ calls \in [0..(Len(segs) + Depth) -> [0..Len(segs) -> [Trails -> Seq(Trails)]]]
  /\ \A k \in 0..Len(segs), d \in Trails : calls[0][k][d] = <<d>>
  /\ \A n \in 1..(Len(segs) + Depth), k \in 0..Len(segs), d \in Trails :
       calls[n][k][d] = WalkCall(segs, calls[n - 1], k, d)
  /\ WalkPattern(segs) = calls[Len(segs) + Depth][0][Top]

LEMMA WalkPatternDef ==
  ASSUME dirs \in DirTrees, NEW segs \in Globs
  PROVE  \E calls : Walks(calls, segs)
<1> DEFINE L == Len(segs)
           M == L + Depth
           X == [0..L -> [Trails -> Seq(Trails)]]
           Zero == [k \in 0..L |-> [d \in Trails |-> <<d>>]]
           Go(y) == [k \in 0..L |-> [d \in Trails |-> WalkCall(segs, y, k, d)]]
           Step(n, y) == [k \in 0..L |-> [d \in Trails |-> IF n = 0 THEN <<d>> ELSE WalkCall(segs, y, k, d)]]
           Solves(f) == f = [n \in 0..M |-> Step(n, f[n - 1])]
           F == [n \in 1..M |-> [y \in X |-> Go(y)]]
<1>0. WalkPattern(segs) = (CHOOSE f : Solves(f))[M][0][Top]
  BY DEF WalkPattern, Trails
<1>1. L \in Nat /\ M \in Nat /\ 0 \in Nat /\ 0 <= M /\ 1 = 0 + 1
  BY LenProperties, ScaffoldAssumption DEF Globs
<1>2. Zero \in X
  OBVIOUS
<1>3. \A y \in X : Go(y) \in X
  <2> TAKE y \in X
  <2>1. \A k \in 0..L, d \in Trails : WalkCall(segs, y, k, d) \in Seq(Trails)
    BY WalkCallType
  <2> QED BY <2>1
<1>4. \A y : Step(0, y) = Zero
  OBVIOUS
<1>5. \A n \in 1..M : \A y : Step(n, y) = Go(y)
  OBVIOUS
<1>6. \A y : \A k \in 0..L, d \in Trails : Go(y)[k][d] = WalkCall(segs, y, k, d)
  OBVIOUS
<1>7. \A k \in 0..L, d \in Trails : Zero[k][d] = <<d>>
  OBVIOUS
<1>8. F \in [1..M -> [X -> X]] /\ \A n \in 1..M, y \in X : F[n][y] = Go(y)
  <2> HIDE DEF Go, X, M
  <2> QED BY <1>3
<1>b. X = [0..L -> [Trails -> Seq(Trails)]]
  OBVIOUS
<1> HIDE DEF Zero, Go, Step, F, X, M, L
<1>9. PICK f \in [0..M -> X] : f[0] = Zero /\ \A n \in 1..M : f[n] = F[n][f[n - 1]]
  <2> DEFINE a == 0
             b == 1
  <2>1. a \in Nat /\ b = a + 1 /\ M \in Nat /\ a <= M /\ F \in [b..M -> [X -> X]]
    BY <1>1, <1>8
  <2> HIDE DEF a, b
  <2>2. \E f : Recurses(f, X, Zero, a, b, M, F)
    BY <1>2, <2>1, RecursionSolved
  <2> QED BY <2>2 DEF Recurses, a, b
<1>10. \A n \in 1..M : f[n - 1] \in X /\ f[n] = Go(f[n - 1])
  <2> TAKE n \in 1..M
  <2>1. n - 1 \in 0..M
    BY <1>1
  <2> QED BY <1>8, <1>9, <2>1
<1>11. Solves(f)
  <2>1. \A n \in 0..M : f[n] = Step(n, f[n - 1])
    <3> TAKE n \in 0..M
    <3>1. n = 0 \/ n \in 1..M
      BY <1>1
    <3> QED BY <1>4, <1>5, <1>9, <1>10, <3>1
  <2> QED BY <1>9, <2>1
<1>12. PICK g : g = CHOOSE h : Solves(h)
  OBVIOUS
<1>13. Solves(g) /\ WalkPattern(segs) = g[M][0][Top]
  <2> HIDE DEF Solves
  <2> QED BY <1>0, <1>11, <1>12
<1>14. DOMAIN g = 0..M /\ g = [n \in 0..M |-> g[n]] /\ \A n \in 0..M : g[n] = Step(n, g[n - 1])
  BY <1>13
<1>15. g[0] = Zero /\ \A n \in 1..M : g[n] = Go(g[n - 1])
  <2>1. 0 \in 0..M /\ \A n \in 1..M : n \in 0..M
    BY <1>1
  <2> QED BY <1>4, <1>5, <1>14, <2>1
<1>16. \A n \in 0..M : g[n] \in X
  <2> DEFINE H == {n \in Nat : n <= M => g[n] \in X}
  <2>1. 0 \in H
    BY <1>2, <1>15
  <2>2. \A n \in Nat : n \in H => n + 1 \in H
    <3> SUFFICES ASSUME NEW n \in Nat, n + 1 <= M, g[n] \in X PROVE g[n + 1] \in X
      BY <1>1
    <3>1. n + 1 \in 1..M /\ (n + 1) - 1 = n
      BY <1>1
    <3>2. g[n + 1] = Go(g[n])
      BY <1>15, <3>1
    <3> QED BY <1>3, <3>2
  <2>3. Nat \subseteq H
    <3> HIDE DEF H
    <3> QED BY <2>1, <2>2, NatSetInduction
  <2> QED BY <1>1, <2>3
<1>17. g \in [0..M -> X]
  BY <1>14, <1>16
<1>18. \A n \in 1..M, k \in 0..L, d \in Trails : g[n][k][d] = WalkCall(segs, g[n - 1], k, d)
  BY <1>6, <1>15
<1>19. \A k \in 0..L, d \in Trails : g[0][k][d] = <<d>>
  BY <1>7, <1>15
<1>20. Walks(g, segs)
  <2>1. M = Len(segs) + Depth /\ L = Len(segs)
    BY DEF M, L
  <2> QED BY <1>13, <1>17, <1>18, <1>19, <1>b, <2>1 DEF Walks
<1> QED BY <1>20

\* What a walk from d with k segments behind it finds.
Reaches(found, segs, k, d) ==
  \A e \in dirs : e \in ToSet(found) <=> Leads(segs, k, d, e)

LEMMA LeadsIn ==
  ASSUME dirs \in DirTrees, NEW segs, NEW k, NEW f \in Trails, NEW e \in dirs, Leads(segs, k, f, e)
  PROVE  f \in dirs
<1>1. Begins(f, e)
  BY DEF Leads, Pieces
<1> QED BY <1>1, TreeClosed

LEMMA WalkDown ==
  ASSUME dirs \in DirTrees, NEW segs \in Globs, NEW w, Walks(w, segs),
         NEW n \in Nat, n < Len(segs) + Depth,
         NEW k \in 0..Len(segs), NEW d \in Trails, NEW h \in Nat,
         Depth <= Len(d) + h, (Len(segs) - k) + h <= n + 1,
         \A j \in 0..Len(segs), f \in Trails, i \in Nat :
           Depth <= Len(f) + i /\ (Len(segs) - j) + i <= n => Reaches(w[n][j][f], segs, j, f)
  PROVE  Reaches(w[n + 1][k][d], segs, k, d)
<1> DEFINE L == Len(segs)
           s == segs[k + 1]
           P == {x \in dirs \ {Top} : SegmentMatches(s, Last(x))}
           sub == Subdirs(d)
           v == w[n]
           got == WalkCall(segs, v, k, d)
<1>1. /\ L \in Nat /\ Depth \in Nat /\ Len(d) \in Nat
      /\ \A i \in 1..L : segs[i] \in Seq(Seq(Nat)) \ {<<>>}
  <2>1. L \in Nat /\ \A i \in 1..L : segs[i] \in Seq(Seq(Nat)) \ {<<>>}
    BY LenProperties, ElementOfSeq DEF Globs
  <2> QED BY <2>1, ScaffoldAssumption, LenProperties DEF Trails
<1>a. /\ k = L => got = <<d>>
      /\ k < L /\ s = DoubleStar => got = v[k + 1][d] \o Each(sub, v[k])
      /\ k < L /\ s # DoubleStar /\ Globbed(s) => got = Each(Picked(sub, P), v[k + 1])
      /\ k < L /\ s # DoubleStar /\ ~Globbed(s) => got = v[k + 1][Append(d, s[1])]
  <2>1. s = segs[k + 1] /\ P = {x \in dirs \ {Top} : SegmentMatches(s, Last(x))}
    OBVIOUS
  <2> HIDE DEF s, P, v
  <2>2. Calls(segs, v, k, d, s, P)
    BY <2>1, WalkCallIs
  <2> QED BY <2>2 DEF Calls
<1>b. w[n + 1][k][d] = got /\ v \in [0..L -> [Trails -> Seq(Trails)]]
  <2>1. n < L + Depth
    OBVIOUS
  <2>2. n + 1 \in 1..(L + Depth) /\ (n + 1) - 1 = n /\ n \in 0..(L + Depth)
    <3> HIDE DEF L, s, P, sub, v, got
    <3> QED BY <1>1, <2>1
  <2> QED BY <2>2 DEF Walks
<1>c. \A j \in 0..L, f \in Trails, i \in Nat :
        Depth <= Len(f) + i /\ (L - j) + i <= n => Reaches(v[j][f], segs, j, f)
  OBVIOUS
<1>d. \A x \in Seq(Nat) : /\ Append(d, x) \in Trails /\ Len(Append(d, x)) = Len(d) + 1
                          /\ Last(Append(d, x)) = x /\ Append(d, x) # Top
  BY AppendProperties DEF Trails, Last, Top
<1>e. /\ sub \in Seq(Trails)
      /\ \A f : f \in ToSet(sub) <=> f \in dirs /\ \E x \in Seq(Nat) : f = Append(d, x)
  BY SubdirsAre
<1>f. \A e \in dirs : e \in Trails
  BY TreeHolds, DirsAre
<1>g. \A x \in Seq(Nat), e \in dirs : \A j : Leads(segs, j, Append(d, x), e) => Append(d, x) \in dirs
  BY <1>d, LeadsIn
<1>h. Depth <= Len(d) + h /\ (L - k) + h <= n + 1
  OBVIOUS
<1>i. k < L => k + 1 \in 0..L /\ k + 1 \in 1..L /\ k \in Nat
  BY <1>1
<1> HIDE DEF P, sub, v, got
<1>2. CASE k = L
  <2>1. ToSet(<<d>>) = {d}
    BY DEF ToSet
  <2>2. \A e \in dirs : Leads(segs, L, d, e) <=> d = e
    BY <1>f, LeadsEnd
  <2> QED BY <1>2, <1>a, <1>b, <2>1, <2>2 DEF Reaches
<1> HIDE DEF L, s
\* What is found deeper, in a directory of d.
<1>3. ASSUME k < L PROVE Reaches(v[k + 1][d], segs, k + 1, d)
  <2>1. Depth <= Len(d) + h /\ (L - (k + 1)) + h <= n
    BY <1>1, <1>3, <1>h
  <2> QED BY <1>c, <1>i, <1>3, <2>1
<1>4. ASSUME k < L, NEW x \in Seq(Nat) PROVE Reaches(v[k + 1][Append(d, x)], segs, k + 1, Append(d, x))
  <2>1. Depth <= Len(Append(d, x)) + h /\ (L - (k + 1)) + h <= n
    BY <1>1, <1>4, <1>h, <1>d
  <2> QED BY <1>c, <1>d, <1>i, <1>4, <2>1
<1>5. ASSUME NEW x \in Seq(Nat), Append(d, x) \in dirs PROVE Reaches(v[k][Append(d, x)], segs, k, Append(d, x))
  <2>1. Len(d) + 1 <= Depth
    <3>1. Len(Append(d, x)) \in 0..Depth
      BY <1>5, TreeHolds, DirsAre
    <3> QED BY <1>1, <1>d, <3>1
  <2> DEFINE i == h - 1
  <2>2. i \in Nat /\ Depth <= Len(Append(d, x)) + i /\ (L - k) + i <= n
    BY <1>1, <1>d, <1>h, <2>1
  <2> HIDE DEF i
  <2>3. k \in 0..L
    BY DEF L
  <2> QED BY <1>c, <1>d, <2>2, <2>3
<1>6. CASE k < L /\ s = DoubleStar
  <2> DEFINE a == v[k + 1][d]
             b == Each(sub, v[k])
  <2>1. a \in Seq(Trails) /\ v[k] \in [Trails -> Seq(Trails)]
    <3>1. k \in 0..L
      BY DEF L
    <3> QED BY <1>b, <1>i, <1>6, <3>1
  <2>2. b \in Seq(Trails) /\ \A e : e \in ToSet(b) <=> \E x \in ToSet(sub) : e \in ToSet(v[k][x])
    BY <1>e, <2>1, EachFinds
  <2>3. got = a \o b
    BY <1>a, <1>6
  <2> HIDE DEF a, b
  <2>4. ToSet(got) = ToSet(a) \cup ToSet(b)
    BY <2>1, <2>2, <2>3, ConcatHolds
  <2>5. \A e \in dirs : e \in ToSet(a) <=> Leads(segs, k + 1, d, e)
    BY <1>3, <1>6 DEF Reaches, a
  <2>6. ASSUME NEW e \in dirs
        PROVE  e \in ToSet(b) <=> \E x \in Seq(Nat) : Leads(segs, k, Append(d, x), e)
    <3>1. ASSUME NEW f \in ToSet(sub), e \in ToSet(v[k][f])
          PROVE  \E x \in Seq(Nat) : Leads(segs, k, Append(d, x), e)
      <4>1. PICK x \in Seq(Nat) : f = Append(d, x) /\ Append(d, x) \in dirs
        BY <1>e, <3>1
      <4> QED BY <1>5, <2>6, <3>1, <4>1 DEF Reaches
    <3>2. ASSUME NEW x \in Seq(Nat), Leads(segs, k, Append(d, x), e)
          PROVE  \E f \in ToSet(sub) : e \in ToSet(v[k][f])
      <4>1. Append(d, x) \in dirs
        BY <1>g, <2>6, <3>2
      <4>2. Append(d, x) \in ToSet(sub)
        BY <1>e, <4>1
      <4>3. e \in ToSet(v[k][Append(d, x)])
        BY <1>5, <2>6, <3>2, <4>1 DEF Reaches
      <4> QED BY <4>2, <4>3
    <3> QED BY <2>2, <3>1, <3>2
  <2>7. ASSUME NEW e \in dirs
        PROVE  Leads(segs, k, d, e) <=>
                 Leads(segs, k + 1, d, e) \/ \E x \in Seq(Nat) : Leads(segs, k, Append(d, x), e)
    <3>1. k \in Nat /\ k < Len(segs) /\ segs[k + 1] = DoubleStar /\ e \in Trails
      BY <1>6, <1>i, <1>f, <2>7 DEF L, s
    <3> QED BY <3>1, LeadsStar
  <2> QED BY <1>b, <2>4, <2>5, <2>6, <2>7 DEF Reaches
<1>7. ASSUME k < L, s # DoubleStar, NEW e \in dirs
      PROVE  Leads(segs, k, d, e) <=>
               \E x \in Seq(Nat) : SegmentMatches(s, x) /\ Leads(segs, k + 1, Append(d, x), e)
  <2>1. k \in Nat /\ k < Len(segs) /\ segs[k + 1] # DoubleStar /\ e \in Trails
    BY <1>7, <1>i, <1>f DEF L, s
  <2>2. Leads(segs, k, d, e) <=>
          \E x \in Seq(Nat) : GlobMatches(segs[k + 1], x) /\ Leads(segs, k + 1, Append(d, x), e)
    BY <2>1, LeadsOne
  <2>3. s \in Seq(Seq(Nat)) /\ s # <<>>
    BY <1>1, <1>i, <1>7 DEF s
  <2>4. \A x \in Seq(Nat) : SegmentMatches(s, x) <=> GlobMatches(s, x)
    BY <2>3, SegmentMatchesIs
  <2> QED BY <2>2, <2>4 DEF s
<1>8. CASE k < L /\ s # DoubleStar /\ Globbed(s)
  <2> DEFINE ds == Picked(sub, P)
  <2>1. v[k + 1] \in [Trails -> Seq(Trails)]
    BY <1>b, <1>i, <1>8
  <2>2. ds \in Seq(Trails) /\ ToSet(ds) = ToSet(sub) \cap P
    BY <1>e, PickedIs
  <2>3. got = Each(ds, v[k + 1])
    BY <1>a, <1>8
  <2> HIDE DEF ds
  <2>4. \A e : e \in ToSet(got) <=> \E x \in ToSet(ds) : e \in ToSet(v[k + 1][x])
    BY <2>1, <2>2, <2>3, EachFinds
  <2>5. \A x \in Seq(Nat) : Append(d, x) \in ToSet(ds) <=> Append(d, x) \in dirs /\ SegmentMatches(s, x)
    BY <1>d, <1>e, <2>2 DEF P
  <2>6. ASSUME NEW e \in dirs
        PROVE  e \in ToSet(got) <=>
                 \E x \in Seq(Nat) : SegmentMatches(s, x) /\ Leads(segs, k + 1, Append(d, x), e)
    <3>1. ASSUME NEW f \in ToSet(ds), e \in ToSet(v[k + 1][f])
          PROVE  \E x \in Seq(Nat) : SegmentMatches(s, x) /\ Leads(segs, k + 1, Append(d, x), e)
      <4>1. PICK x \in Seq(Nat) : f = Append(d, x)
        BY <1>e, <2>2, <3>1
      <4>2. SegmentMatches(s, x)
        BY <2>5, <3>1, <4>1
      <4> QED BY <1>4, <1>8, <2>6, <3>1, <4>1, <4>2 DEF Reaches
    <3>2. ASSUME NEW x \in Seq(Nat), SegmentMatches(s, x), Leads(segs, k + 1, Append(d, x), e)
          PROVE  \E f \in ToSet(ds) : e \in ToSet(v[k + 1][f])
      <4>1. Append(d, x) \in dirs
        BY <1>g, <2>6, <3>2
      <4>2. Append(d, x) \in ToSet(ds)
        BY <2>5, <3>2, <4>1
      <4>3. e \in ToSet(v[k + 1][Append(d, x)])
        BY <1>4, <1>8, <2>6, <3>2 DEF Reaches
      <4> QED BY <4>2, <4>3
    <3> QED BY <2>4, <3>1, <3>2
  <2> QED BY <1>7, <1>8, <1>b, <2>6 DEF Reaches
<1>9. CASE k < L /\ s # DoubleStar /\ ~Globbed(s)
  <2>1. s \in Seq(Seq(Nat)) /\ Len(s) = 1 /\ s[1] \in Seq(Nat)
    <3>1. s \in Seq(Seq(Nat)) /\ s # <<>>
      BY <1>1, <1>i, <1>9 DEF s
    <3>2. Len(s) = 1
      <4>1. Len(s) \in Nat /\ Len(s) # 0
        BY <3>1, LenProperties, EmptySeq
      <4>2. ~(Len(s) > 1)
        BY <1>9 DEF Globbed
      <4> DEFINE l == Len(s)
      <4>3. l \in Nat /\ l # 0 /\ ~(l > 1)
        BY <4>1, <4>2
      <4> HIDE DEF l
      <4>4. l = 1
        BY <4>3
      <4> QED BY <4>4 DEF l
    <3>3. 1 \in 1..Len(s)
      BY <3>2
    <3> QED BY <3>1, <3>2, <3>3, ElementOfSeq
  <2>2. \A x : SegmentMatches(s, x) <=> s[1] = x
    BY <2>1 DEF SegmentMatches
  <2>3. \A e \in dirs : Leads(segs, k, d, e) <=> Leads(segs, k + 1, Append(d, s[1]), e)
    BY <1>7, <1>9, <2>1, <2>2
  <2>4. Reaches(v[k + 1][Append(d, s[1])], segs, k + 1, Append(d, s[1]))
    BY <1>4, <1>9, <2>1
  <2>5. got = v[k + 1][Append(d, s[1])]
    BY <1>a, <1>9
  <2> QED BY <1>b, <2>3, <2>4, <2>5 DEF Reaches
<1>10. k < L \/ k = L
  BY <1>1 DEF L
<1> QED BY <1>2, <1>6, <1>8, <1>9, <1>10

\* The walk of a member finds the directories its pattern matches, and no other.
Matched(found, segs) ==
  found \in Seq(Trails) /\ \A e \in dirs : e \in ToSet(found) <=> PathMatches(segs, e)

LEMMA WalkPatternIs ==
  ASSUME dirs \in DirTrees, NEW segs \in Globs
  PROVE  Matched(WalkPattern(segs), segs)
<1> DEFINE L == Len(segs)
           M == L + Depth
<1>1. PICK w : Walks(w, segs)
  BY WalkPatternDef
<1>2. /\ L \in Nat /\ M \in Nat /\ Depth \in Nat /\ Top \in Trails /\ Len(Top) = 0
      /\ \A d \in Trails : Len(d) \in Nat
  <2>1. L \in Nat
    BY LenProperties DEF Globs
  <2>2. \A d \in Trails : Len(d) \in Nat
    BY LenProperties DEF Trails
  <2> QED BY <2>1, <2>2, ScaffoldAssumption, EmptySeq DEF Top, Trails
<1>3. \A e \in dirs : e \in Trails
  BY TreeHolds, DirsAre
<1>4. WalkPattern(segs) = w[M][0][Top] /\ w[M][0][Top] \in Seq(Trails)
  <2>1. WalkPattern(segs) = w[M][0][Top] /\ w \in [0..M -> [0..L -> [Trails -> Seq(Trails)]]]
    BY <1>1 DEF Walks
  <2>2. M \in 0..M /\ 0 \in 0..L
    BY <1>2
  <2>3. w[M] \in [0..L -> [Trails -> Seq(Trails)]]
    BY <2>1, <2>2
  <2>4. w[M][0] \in [Trails -> Seq(Trails)]
    BY <2>2, <2>3
  <2> QED BY <1>2, <2>1, <2>4
<1> DEFINE Found(n) == \A k \in 0..L, d \in Trails, h \in Nat :
                         Depth <= Len(d) + h /\ (L - k) + h <= n => Reaches(w[n][k][d], segs, k, d)
           H == {n \in Nat : n <= M => Found(n)}
<1>5. 0 \in H
  <2> SUFFICES ASSUME NEW k \in 0..L, NEW d \in Trails, NEW h \in Nat,
                      Depth <= Len(d) + h, (L - k) + h <= 0
               PROVE  Reaches(w[0][k][d], segs, k, d)
    OBVIOUS
  <2>1. k = L
    BY <1>2
  <2>2. w[0][k][d] = <<d>> /\ ToSet(<<d>>) = {d}
    BY <1>1 DEF Walks, ToSet
  <2>3. \A e \in dirs : Leads(segs, L, d, e) <=> d = e
    BY <1>3, LeadsEnd
  <2> QED BY <2>1, <2>2, <2>3 DEF Reaches
<1>6. \A n \in Nat : n \in H => n + 1 \in H
  <2> SUFFICES ASSUME NEW n \in Nat, Found(n), n + 1 <= M PROVE Found(n + 1)
    <3> HIDE DEF Found
    <3>1. \A n \in Nat : n + 1 <= M => n <= M
      BY <1>2
    <3> QED BY <3>1
  <2> SUFFICES ASSUME NEW k \in 0..L, NEW d \in Trails, NEW h \in Nat,
                      Depth <= Len(d) + h, (L - k) + h <= n + 1
               PROVE  Reaches(w[n + 1][k][d], segs, k, d)
    OBVIOUS
  <2>1. n < Len(segs) + Depth
    BY <1>2
  <2>2. \A j \in 0..Len(segs), f \in Trails, i \in Nat :
          Depth <= Len(f) + i /\ (Len(segs) - j) + i <= n => Reaches(w[n][j][f], segs, j, f)
    OBVIOUS
  <2> HIDE DEF H
  <2>3. k \in 0..Len(segs) /\ (Len(segs) - k) + h <= n + 1
    OBVIOUS
  <2> HIDE DEF M, L
  <2> QED BY <1>1, <2>1, <2>2, <2>3, WalkDown
<1>7. M \in H
  <2> HIDE DEF H
  <2> QED BY <1>2, <1>5, <1>6, NatSetInduction
<1>8. Reaches(w[M][0][Top], segs, 0, Top)
  <2>1. Found(M)
    BY <1>2, <1>7
  <2> DEFINE z == 0
  <2>2. z \in 0..L /\ Depth <= Len(Top) + Depth /\ (L - z) + Depth <= M
    BY <1>2
  <2> HIDE DEF z
  <2>3. Reaches(w[M][z][Top], segs, z, Top)
    BY <1>2, <2>1, <2>2
  <2> QED BY <2>3 DEF z
<1>9. \A e \in dirs : Leads(segs, 0, Top, e) <=> PathMatches(segs, e)
  BY <1>3, LeadsTop
<1> QED BY <1>4, <1>8, <1>9 DEF Matched, Reaches

-----------------------------------------------------------------------------
(***************************************************************************)
(* Scaffold: discovery and the manifest                                    *)
(***************************************************************************)

\* Discovery finds the members that are packages; the root once, if no member
\* pattern finds it again.
RootIsNoMember == members # NoTable => \A m \in ToSet(members) : ~PathMatches(m, Top)
Discovered(found) ==
  /\ found \in Seq(Trails) /\ \A d : d \in ToSet(found) <=> d \in Members /\ pkg[d] # "none"
  /\ RootIsNoMember => Once(found, Top)

LEMMA ExpandMembersIs ==
  ASSUME dirs \in DirTrees, members \in Workspaces
  PROVE  /\ ExpandMembers \in Seq(Trails)
         /\ \A e \in dirs : e \in ToSet(ExpandMembers) <=> \E m \in ToSet(members) : PathMatches(m, e)
<1> DEFINE n == Len(members)
           s == [i \in 1..n |-> WalkPattern(members[i])]
<1>1. members \in Seq(Globs)
  BY ScaffoldAssumption DEF Globs
<1>2. n \in Nat /\ DOMAIN members = 1..n /\ \A i \in 1..n : members[i] \in Globs
  BY <1>1, LenProperties, ElementOfSeq
<1>3. \A i \in 1..n : Matched(WalkPattern(members[i]), members[i])
  BY <1>2, WalkPatternIs
<1>4. s \in Seq(Seq(Trails)) /\ Len(s) = n /\ \A i \in 1..n : s[i] = WalkPattern(members[i])
  <2>1. \A i \in 1..n : WalkPattern(members[i]) \in Seq(Trails)
    BY <1>3 DEF Matched
  <2> QED BY <1>2, <2>1
<1>5. ExpandMembers = FlattenSeq(s)
  BY DEF ExpandMembers
<1> HIDE DEF s
<1>6. ExpandMembers \in Seq(Trails) /\ ToSet(ExpandMembers) = UNION {ToSet(s[i]) : i \in 1..Len(s)}
  BY <1>4, <1>5, FlattenHolds
<1>7. \A e : e \in ToSet(ExpandMembers) <=> \E i \in 1..n : e \in ToSet(s[i])
  <2>1. \A e : e \in ToSet(ExpandMembers) <=> \E i \in 1..Len(s) : e \in ToSet(s[i])
    BY <1>6
  <2>2. Len(s) = n
    BY <1>4
  <2> HIDE DEF n
  <2> QED BY <2>1, <2>2
<1>8. \A e \in dirs : \A i \in 1..n : e \in ToSet(s[i]) <=> PathMatches(members[i], e)
  BY <1>3, <1>4 DEF Matched
<1>9. \A m : m \in ToSet(members) <=> \E i \in 1..n : m = members[i]
  BY <1>2 DEF ToSet
<1> HIDE DEF n
<1>10. ASSUME NEW e \in dirs
       PROVE  e \in ToSet(ExpandMembers) <=> \E m \in ToSet(members) : PathMatches(m, e)
  <2>1. e \in ToSet(ExpandMembers) <=> \E i \in 1..n : e \in ToSet(s[i])
    BY <1>5, <1>7
  <2>2. \A i \in 1..n : e \in ToSet(s[i]) <=> PathMatches(members[i], e)
    BY <1>8, <1>10
  <2>3. (\E i \in 1..n : PathMatches(members[i], e)) <=> \E m \in ToSet(members) : PathMatches(m, e)
    BY <1>9
  <2> QED BY <2>1, <2>2, <2>3
<1> QED BY <1>6, <1>10

LEMMA DiscoverPackagesIs ==
  ASSUME ScaffoldTypeOK
  PROVE  Discovered(DiscoverPackages)
<1> DEFINE E == IF members = NoTable THEN <<>> ELSE ExpandMembers
           r == <<Top>>
           P == {d \in dirs : pkg[d] # "none"}
<1>1. dirs \in DirTrees /\ (members # NoTable => members \in Workspaces) /\ Top \in dirs
  BY DEF ScaffoldTypeOK, DirTrees
<1>2. Top \in Trails /\ \A d \in dirs : d \in Trails
  BY <1>1, TreeHolds, DirsAre
<1>3. /\ E \in Seq(Trails)
      /\ \A d \in dirs : d \in ToSet(E) <=>
           members # NoTable /\ \E m \in ToSet(members) : PathMatches(m, d)
  <2>1. CASE members = NoTable
    <3>1. E = <<>> /\ ToSet(<<>>) = {}
      BY <2>1 DEF ToSet
    <3>2. <<>> \in Seq(Trails)
      BY EmptySeq
    <3> HIDE DEF E
    <3> QED BY <2>1, <3>1, <3>2
  <2>2. CASE members # NoTable
    <3>1. E = ExpandMembers
      BY <2>2
    <3> HIDE DEF E
    <3> QED BY <1>1, <2>2, <3>1, ExpandMembersIs
  <2> QED BY <2>1, <2>2
<1>4. r \in Seq(Trails) /\ ToSet(r) = {Top} /\ Len(r) = 1 /\ r[1] = Top
  <2>1. r \in Seq(Trails) /\ Len(r) = 1 /\ r[1] = Top
    BY <1>2
  <2>2. ToSet(r) = {Top}
    BY DEF ToSet
  <2> QED BY <2>1, <2>2
<1>5. DiscoverPackages = Picked(r \o E, P)
  BY DEF DiscoverPackages
<1> HIDE DEF E, r, P
<1>6. r \o E \in Seq(Trails) /\ ToSet(r \o E) = {Top} \cup ToSet(E)
  BY <1>3, <1>4, ConcatHolds
<1>7. /\ DiscoverPackages \in Seq(Trails) /\ ToSet(DiscoverPackages) = ToSet(r \o E) \cap P
      /\ Once(r \o E, Top) => Once(DiscoverPackages, Top)
  BY <1>5, <1>6, PickedIs
<1>8. \A d : d \in ToSet(DiscoverPackages) <=> d \in Members /\ pkg[d] # "none"
  <2>1. \A d : d \in ToSet(DiscoverPackages) <=> (d = Top \/ d \in ToSet(E)) /\ d \in dirs /\ pkg[d] # "none"
    BY <1>6, <1>7 DEF P
  <2>2. \A d : d \in Members <=> d \in dirs /\ (d = Top \/ d \in ToSet(E))
    BY <1>3 DEF Members
  <2> QED BY <2>1, <2>2
<1>9. ASSUME RootIsNoMember PROVE Once(r \o E, Top)
  <2>1. Top \notin ToSet(E)
    BY <1>1, <1>3, <1>9 DEF RootIsNoMember
  <2>2. Len(E) \in Nat /\ DOMAIN E = 1..Len(E)
    BY <1>3, LenProperties
  <2>3. \A i \in 1..Len(E) : E[i] # Top
    BY <2>1, <2>2 DEF ToSet
  <2>4. Len(r \o E) = 1 + Len(E) /\ \A i \in 1..(1 + Len(E)) : (r \o E)[i] = IF i <= 1 THEN r[i] ELSE E[i - 1]
    <3>1. Len(r \o E) = Len(r) + Len(E) /\ \A i \in 1..(Len(r) + Len(E)) :
            (r \o E)[i] = IF i <= Len(r) THEN r[i] ELSE E[i - Len(r)]
      BY <1>3, <1>4, ConcatProperties
    <3>2. Len(r) = 1
      BY <1>4
    <3> QED BY <3>1, <3>2
  <2>5. \A i \in 1..(1 + Len(E)) : (r \o E)[i] = Top => i = 1
    <3> SUFFICES ASSUME NEW i \in 1..(1 + Len(E)), (r \o E)[i] = Top, i # 1 PROVE FALSE
      OBVIOUS
    <3>1. i - 1 \in 1..Len(E) /\ ~(i <= 1)
      BY <2>2
    <3>2. E[i - 1] = Top
      BY <2>4, <3>1
    <3> QED BY <2>3, <3>1, <3>2
  <2> QED BY <2>4, <2>5 DEF Once
<1> QED BY <1>7, <1>8, <1>9 DEF Discovered

\* What `init` writes, of the workspace as it is.
Tells(t) ==
  /\ t \in Manifests
  /\ {a.id : a \in ToSet(t.artifacts)} = IF Contracts = {} THEN {Placeholder} ELSE Contracts
  /\ IsPlaceholder(t) <=> Contracts = {} \/ Placeholder \in Contracts
  /\ Contracts \subseteq {Top} /\ t.named /\ RootIsNoMember => Validate(t)

LEMMA ScaffoldManifestIs ==
  ASSUME ScaffoldTypeOK, NEW named \in BOOLEAN, NEW t, t = ScaffoldManifest(named)
  PROVE  Tells(t)
<1> DEFINE P == {d \in dirs : pkg[d] = "cdylib"}
           found == Picked(DiscoverPackages, P)
           n == Len(found)
           R == [id : Dirs \cup {Placeholder}, relative : BOOLEAN]
           entry == [i \in 1..n |-> [id |-> found[i], relative |-> found[i] = Top]]
           none == <<[id |-> Placeholder, relative |-> TRUE]>>
           s == IF found = <<>> THEN none ELSE entry
<1>1. t = [named |-> named, artifacts |-> s]
  BY DEF ScaffoldManifest
<1>2. Discovered(DiscoverPackages) /\ \A d \in dirs : d \in Dirs /\ d \in Trails
  <2>1. dirs \in DirTrees
    BY DEF ScaffoldTypeOK
  <2> QED BY <2>1, DiscoverPackagesIs, TreeHolds, DirsAre
<1>3. /\ found \in Seq(Trails) /\ ToSet(found) = ToSet(DiscoverPackages) \cap P
      /\ RootIsNoMember => Once(found, Top)
  <2>1. DiscoverPackages \in Seq(Trails) /\ (RootIsNoMember => Once(DiscoverPackages, Top))
    BY <1>2 DEF Discovered
  <2> HIDE DEF P
  <2>2. \A x : Once(DiscoverPackages, x) => Once(Picked(DiscoverPackages, P), x)
    BY <2>1, PickedIs
  <2> QED BY <2>1, <2>2, PickedIs
<1>4. ToSet(found) = Contracts /\ Contracts \subseteq Dirs
  <2>1. \A d : d \in ToSet(DiscoverPackages) <=> d \in Members /\ pkg[d] # "none"
    BY <1>2 DEF Discovered
  <2>2. \A d : d \in Contracts <=> d \in Members /\ pkg[d] = "cdylib"
    BY DEF Contracts
  <2>3. \A d \in Members : d \in dirs
    BY DEF Members
  <2>4. \A d : d \in ToSet(found) <=> d \in ToSet(DiscoverPackages) /\ d \in dirs /\ pkg[d] = "cdylib"
    BY <1>3
  <2>5. \A d : d \in ToSet(found) <=> d \in Contracts
    BY <2>1, <2>2, <2>3, <2>4
  <2> HIDE DEF found
  <2> QED BY <1>2, <2>2, <2>3, <2>5
<1> HIDE DEF found
<1>5. n \in Nat /\ DOMAIN found = 1..n /\ (found = <<>> <=> n = 0)
  BY <1>3, LenProperties, EmptySeq
<1>6. ToSet(found) = {found[i] : i \in 1..n}
  BY <1>5 DEF ToSet
<1>a. n = Len(found)
  OBVIOUS
<1> HIDE DEF n
<1>7. \A i \in 1..n : found[i] \in Contracts /\ found[i] \in Dirs
  BY <1>4, <1>6
<1>b. t.named = named /\ t.artifacts = s
  BY <1>1
<1>9. CASE found = <<>>
  <2>1. s = none /\ none \in Seq(R) /\ none # <<>> /\ Len(none) = 1 /\ none[1] = [id |-> Placeholder, relative |-> TRUE]
    BY <1>9
  <2>2. ToSet(none) = {[id |-> Placeholder, relative |-> TRUE]}
    <3> DEFINE x == [id |-> Placeholder, relative |-> TRUE]
    <3> HIDE DEF x
    <3>1. ToSet(<<x>>) = {x}
      BY DEF ToSet
    <3> QED BY <3>1 DEF x
  <2>3. Contracts = {}
    BY <1>4, <1>5, <1>6, <1>9
  <2> HIDE DEF none, s, R
  <2>4. t \in Manifests
    BY <1>1, <2>1 DEF Manifests, R
  <2>5. {a.id : a \in ToSet(t.artifacts)} = {Placeholder} /\ IsPlaceholder(t)
    BY <1>b, <2>1, <2>2 DEF IsPlaceholder
  <2>6. t.named => Validate(t)
    <3>1. t.artifacts # <<>> /\ Len(t.artifacts) = 1 /\ \A i, j \in 1..1 : i = j
      BY <1>b, <2>1
    <3>2. \A a \in ToSet(t.artifacts) : a.relative
      BY <1>b, <2>1, <2>2
    <3> QED BY <3>1, <3>2 DEF Validate
  <2> QED BY <2>3, <2>4, <2>5, <2>6 DEF Tells
<1>10. CASE found # <<>>
  <2>1. /\ s = entry /\ entry \in Seq(R) /\ entry # <<>> /\ Len(entry) = n /\ DOMAIN entry = 1..n
        /\ \A i \in 1..n : entry[i] = [id |-> found[i], relative |-> found[i] = Top]
    <3>1. \A i \in 1..n : [id |-> found[i], relative |-> found[i] = Top] \in R
      BY <1>7
    <3>2. entry \in Seq(R) /\ Len(entry) = n /\ DOMAIN entry = 1..n
      <4> HIDE DEF R
      <4> QED BY <1>5, <3>1
    <3>3. n # 0
      BY <1>5, <1>10
    <3>4. entry # <<>>
      <4> HIDE DEF entry
      <4> QED BY <3>2, <3>3, EmptySeq
    <3> QED BY <1>10, <3>2, <3>4
  <2> HIDE DEF entry, s, R
  <2>2. ToSet(entry) = {entry[i] : i \in 1..n}
    BY <2>1 DEF ToSet
  <2>3. Contracts # {}
    <3>1. 1 \in 1..n
      BY <1>5, <1>10
    <3> QED BY <1>7, <3>1
  <2>4. t \in Manifests
    BY <1>1, <2>1 DEF Manifests, R
  <2>5. \A i \in 1..n : entry[i].id = found[i] /\ entry[i].relative = (found[i] = Top)
    BY <2>1
  <2>6. {a.id : a \in ToSet(t.artifacts)} = Contracts
    <3>1. {a.id : a \in ToSet(t.artifacts)} = {found[i] : i \in 1..n}
      BY <1>b, <2>1, <2>2, <2>5
    <3> QED BY <1>4, <1>6, <3>1
  <2>7. IsPlaceholder(t) <=> Placeholder \in Contracts
    BY <2>6 DEF IsPlaceholder
  <2>8. ASSUME Contracts \subseteq {Top}, t.named, RootIsNoMember PROVE Validate(t)
    <3>1. \A i \in 1..n : found[i] = Top
      BY <1>7, <2>8
    <3>2. \A i, j \in 1..n : i = j
      BY <1>3, <1>a, <2>8, <3>1 DEF Once
    <3>3. t.artifacts # <<>> /\ Len(t.artifacts) = n
      BY <1>b, <2>1
    <3>4. \A a \in ToSet(t.artifacts) : a.relative
      <4>1. \A i \in 1..n : entry[i].relative
        BY <2>5, <3>1
      <4>2. ToSet(t.artifacts) = {entry[i] : i \in 1..n}
        BY <1>b, <2>1, <2>2
      <4> QED BY <4>1, <4>2
    <3> QED BY <2>8, <3>2, <3>3, <3>4 DEF Validate
  <2> QED BY <2>3, <2>4, <2>6, <2>7, <2>8 DEF Tells
<1> QED BY <1>9, <1>10

\* The invariant: besides what ScaffoldCorrect says of the manifest, one whose only
\* contract is a root that no pattern finds again will be accepted by Validate.
RootLoads ==
  Scaffolded => (Contracts \subseteq {Top} /\ toml.named /\ RootIsNoMember => Validate(toml))
ScaffoldInv == ScaffoldTypeOK /\ FindsEveryContract /\ RootLoads

LEMMA ScaffoldInvInit == ScaffoldInit => ScaffoldInv
<1> SUFFICES ASSUME ScaffoldInit PROVE ScaffoldInv
  OBVIOUS
<1>1. ScaffoldTypeOK
  BY DEF ScaffoldInit, ScaffoldTypeOK
<1>2. ~Scaffolded
  BY DEF ScaffoldInit, Scaffolded
<1> QED BY <1>1, <1>2 DEF ScaffoldInv, FindsEveryContract, RootLoads

LEMMA ScaffoldInvStep == ScaffoldInv /\ [ScaffoldNext]_scaffoldVars => ScaffoldInv'
<1> SUFFICES ASSUME ScaffoldInv, [ScaffoldNext]_scaffoldVars PROVE ScaffoldInv'
  OBVIOUS
<1>1. ScaffoldTypeOK /\ FindsEveryContract /\ RootLoads
  BY DEF ScaffoldInv
<1>2. dirs' = dirs /\ pkg' = pkg /\ members' = members
  BY DEF ScaffoldNext, Load, InitCommand, scaffoldVars, project
<1>3. Contracts' = Contracts /\ RootIsNoMember' = RootIsNoMember
  BY <1>2 DEF Contracts, Members, RootIsNoMember
\* Steps that leave the manifest alone.
<1>4. ASSUME toml' = toml, told' \in {"nothing", "exists", "loads", "error"} PROVE ScaffoldInv'
  <2>1. ScaffoldTypeOK'
    BY <1>1, <1>2, <1>4 DEF ScaffoldTypeOK
  <2>2. Scaffolded' = Scaffolded
    BY <1>4 DEF Scaffolded
  <2>3. FindsEveryContract'
    BY <1>1, <1>3, <1>4, <2>2 DEF FindsEveryContract
  <2>4. RootLoads'
    <3>1. Validate(toml)' = Validate(toml)
      BY <1>4
    <3> QED BY <1>1, <1>3, <1>4, <2>2, <3>1 DEF RootLoads
  <2> QED BY <2>1, <2>3, <2>4 DEF ScaffoldInv
<1>5. CASE UNCHANGED scaffoldVars
  <2>1. toml' = toml /\ told' = told
    BY <1>5 DEF scaffoldVars
  <2>2. ScaffoldTypeOK'
    BY <1>1, <1>2, <2>1 DEF ScaffoldTypeOK
  <2>3. Scaffolded' = Scaffolded
    BY <2>1 DEF Scaffolded
  <2>4. FindsEveryContract'
    BY <1>1, <1>3, <2>1, <2>3 DEF FindsEveryContract
  <2>5. RootLoads'
    <3>1. Validate(toml)' = Validate(toml)
      BY <2>1
    <3> QED BY <1>1, <1>3, <2>1, <2>3, <3>1 DEF RootLoads
  <2> QED BY <2>2, <2>4, <2>5 DEF ScaffoldInv
<1>6. CASE Load
  <2>1. toml' = toml /\ told' \in {"loads", "error"}
    BY <1>6 DEF Load
  <2> QED BY <1>4, <2>1
<1>7. ASSUME NEW force \in BOOLEAN, NEW named \in BOOLEAN, InitCommand(force, named) PROVE ScaffoldInv'
  <2>1. CASE toml # Absent /\ ~force
    BY <1>4, <1>7, <2>1 DEF InitCommand
  <2>2. CASE ~(toml # Absent /\ ~force)
    <3>1. toml' = ScaffoldManifest(named) /\ told' = IF IsPlaceholder(toml') THEN "placeholder" ELSE "written"
      BY <1>7, <2>2 DEF InitCommand
    <3>2. Tells(toml')
      BY <1>1, <3>1, ScaffoldManifestIs
    <3>3. ScaffoldTypeOK'
      BY <1>1, <1>2, <3>1, <3>2 DEF ScaffoldTypeOK, Tells
    <3>4. FindsEveryContract'
      BY <1>3, <3>1, <3>2 DEF FindsEveryContract, Tells
    <3>5. RootLoads'
      BY <1>3, <3>2 DEF RootLoads, Tells
    <3> QED BY <3>3, <3>4, <3>5 DEF ScaffoldInv
  <2> QED BY <2>1, <2>2
<1> QED BY <1>5, <1>6, <1>7 DEF ScaffoldNext

\* The manifest that `init` writes is well formed and has an entry for every contract
\* of the workspace and for nothing else, whatever globs name its members
\* (discover_packages, expand_members and walk_pattern of scaffold.rs).
THEOREM ScaffoldIsCorrect == ScaffoldSpec => []ScaffoldCorrect
<1>1. ScaffoldInv => ScaffoldCorrect
  BY DEF ScaffoldInv, ScaffoldCorrect
<1> QED BY <1>1, ScaffoldInvInit, ScaffoldInvStep, PTL DEF ScaffoldSpec

\* A manifest of `init` that a later command loads has each contract once, and that of
\* a project whose only contract is its root loads, unless it has no name or a member
\* pattern finds the root again (validate of manifest.rs).
THEOREM LoadedWorks == ScaffoldSpec => LoadedIsUsable
<1> DEFINE Usable ==
       Load /\ Scaffolded =>
         /\ told' = "loads" => Len(toml.artifacts) = Cardinality({a.id : a \in ToSet(toml.artifacts)})
         /\ (Contracts \subseteq {Top} /\ toml.named
               /\ (members # NoTable => \A m \in ToSet(members) : ~PathMatches(m, Top)))
              => told' = "loads"
<1>1. ScaffoldInv => Usable
  <2> SUFFICES ASSUME ScaffoldInv, Load, Scaffolded PROVE Usable
    OBVIOUS
  <2>1. toml \in Manifests /\ toml # HandWritten /\ toml # Absent
    BY DEF ScaffoldInv, ScaffoldTypeOK, Scaffolded
  <2>2. told' = "loads" <=> Validate(toml)
    BY <2>1 DEF Load
  <2>3. RootIsNoMember /\ Contracts \subseteq {Top} /\ toml.named => told' = "loads"
    BY <2>2 DEF ScaffoldInv, RootLoads
  <2>4. ASSUME Validate(toml)
        PROVE  Len(toml.artifacts) = Cardinality({a.id : a \in ToSet(toml.artifacts)})
    <3> DEFINE s == toml.artifacts
               n == Len(s)
               R == [id : Dirs \cup {Placeholder}, relative : BOOLEAN]
               f == [i \in 1..n |-> s[i].id]
               T == {a.id : a \in ToSet(s)}
    <3>1. s \in Seq(R) /\ n \in Nat /\ DOMAIN s = 1..n
      <4>1. s \in Seq(R)
        BY <2>1 DEF Manifests
      <4> HIDE DEF s, R
      <4> QED BY <4>1, LenProperties
    <3>2. \A i, j \in 1..n : s[i].id = s[j].id => i = j
      BY <2>4 DEF Validate
    <3>3. T = {s[i].id : i \in 1..n}
      BY <3>1 DEF ToSet
    <3> HIDE DEF s, n, T
    <3>4. f \in Bijection(1..n, T)
      BY <3>2, <3>3 DEF Bijection, Injection, Surjection, IsInjective
    <3>a. ExistsBijection(1..n, T)
      BY <3>4 DEF ExistsBijection
    <3>5. IsFiniteSet(1..n) /\ Cardinality(1..n) = n
      BY <3>1, FS_Interval
    <3>6. Cardinality(T) = Cardinality(1..n)
      BY <3>a, <3>5, FS_Bijection
    <3> QED BY <3>5, <3>6 DEF n, s, T
  <2> QED BY <2>2, <2>3, <2>4 DEF RootIsNoMember
<1> QED BY <1>1, ScaffoldInvInit, ScaffoldInvStep, PTL DEF ScaffoldSpec, LoadedIsUsable
=============================================================================
