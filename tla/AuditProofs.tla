---------------------------- MODULE AuditProofs -----------------------------
(***************************************************************************)
(* Proofs about Audit, for chains of every length, pages of every size and *)
(* any number of requests: type correctness, that a report is the history  *)
(* of the contract, what the verdict "consistent" is worth, and that the   *)
(* exit code follows the ledger.                                           *)
(***************************************************************************)
EXTENDS Audit, LineageProofs

\* What the ledger does: its events come in the order of their ledgers, and an
\* upgrade of this contract decodes and starts from what was deployed by then.
ChainInv ==
  /\ \A i \in 1..Len(chain) : chain[i].ledger <= latest
  /\ \A i, j \in 1..Len(chain) : i < j => chain[i].ledger <= chain[j].ledger
  /\ \A i \in Mine : /\ chain[i].ok /\ chain[i].old \in Wasms /\ chain[i].new \in Wasms
                     /\ chain[i].old = After({j \in Mine : j < i})

\* What a scan has collected is in the order of the chain, and nothing of it is
\* behind the cursor, which has been seen.
ScanInv ==
  /\ run.pc \in {"idle", "window"} => run.got = <<>> /\ run.seen = {} /\ run.cursor = 0
  /\ run.pc \in {"window", "page"} => run.cli = "audit"
  /\ run.pc \in {"fetch", "report"} => run.cli \in {"audit", "verify"}
  /\ \A k, l \in 1..Len(run.got) : k < l => run.got[k] < run.got[l]
  /\ run.pc = "page" =>
       /\ run.seen \subseteq 1..run.cursor
       /\ run.cursor > 0 => run.cursor \in run.seen
       /\ \A k \in 1..Len(run.got) : run.got[k] <= run.cursor

\* Of a run under which nothing moved: it has collected the upgrades of its
\* window that it has come past, and in the end all of them.
CalmInv ==
  run.calm =>
    /\ run.pc \in {"page", "fetch", "report"} =>
         \A k \in 1..Len(run.got) : chain[run.got[k]].ledger >= run.first
    /\ run.pc = "page" =>
         /\ oldest <= run.first
         /\ \A i \in Mine : chain[i].ledger >= run.first /\ i <= run.cursor =>
              \E k \in 1..Len(run.got) : run.got[k] = i
    /\ run.pc \in {"fetch", "report"} /\ run.cli = "audit" =>
         \A i \in Mine : chain[i].ledger \in run.first..run.last =>
           \E k \in 1..Len(run.got) : run.got[k] = i

\* The deployed wasm is that of the moment it was read at, and the scan was
\* before that.
ReportInv ==
  run.pc = "report" =>
    /\ run.cur = After({i \in Mine : i <= run.top})
    /\ \A k \in 1..Len(run.got) : run.got[k] <= run.top
    /\ run.calm => \A i \in Mine : i <= run.top

AuditInv == TypeOK /\ ChainInv /\ ScanInv /\ CalmInv /\ ReportInv

-----------------------------------------------------------------------------
(***************************************************************************)
(* The operators of Audit                                                  *)
(***************************************************************************)
LEMMA MaxIs ==
  ASSUME NEW S, NEW x \in S, x \in Int, \A y \in S : y \in Int /\ y <= x
  PROVE  Max(S) = x
<1> DEFINE m == Max(S)
<1>1. m \in S /\ \A y \in S : m >= y
  BY \A y \in S : x >= y DEF Max
<1> HIDE DEF m
<1>2. m \in Int /\ m <= x /\ m >= x
  BY <1>1
<1>3. m = x
  BY <1>2
<1> QED BY <1>3 DEF m

LEMMA MinIs ==
  ASSUME NEW S, NEW x \in S, x \in Int, \A y \in S : y \in Int /\ x <= y
  PROVE  Min(S) = x
<1> DEFINE m == Min(S)
<1>1. m \in S /\ \A y \in S : m <= y
  BY DEF Min
<1> HIDE DEF m
<1>2. m \in Int /\ m <= x /\ m >= x
  BY <1>1
<1>3. m = x
  BY <1>2
<1> QED BY <1>3 DEF m

LEMMA ClampedWindow ==
  ASSUME NEW a \in Nat, NEW b \in Nat
  PROVE  /\ Max({a, b}) \in {a, b} /\ Max({a, b}) >= a /\ Max({a, b}) >= b
         /\ Min({a, b}) \in {a, b} /\ Min({a, b}) <= a /\ Min({a, b}) <= b
<1>1. CASE a <= b
  <2>1. Max({a, b}) = b
    BY <1>1, MaxIs
  <2>2. Min({a, b}) = a
    BY <1>1, MinIs
  <2> QED BY <1>1, <2>1, <2>2
<1>2. CASE b <= a
  <2>1. Max({a, b}) = a
    BY <1>2, MaxIs
  <2>2. Min({a, b}) = b
    BY <1>2, MinIs
  <2> QED BY <1>2, <2>1, <2>2
<1> QED BY <1>1, <1>2

\* The wasm after some upgrades is that of the newest of them.
LEMMA AfterUpgrades ==
  ASSUME TypeOK, ChainInv, NEW s, s \subseteq Mine
  PROVE  /\ s = {} => After(s) = genesis
         /\ s # {} => Max(s) \in s /\ (\A i \in s : i <= Max(s))
                      /\ After(s) = chain[Max(s)].new
         /\ After(s) \in Wasms
<1>1. s \subseteq 1..Len(chain) /\ Len(chain) \in Nat
  BY DEF Mine, TypeOK
<1>2. s # {} => Max(s) \in s /\ \A i \in s : i <= Max(s)
  BY <1>1, PositionsHaveMax
<1>3. s = {} => After(s) = genesis
  BY DEF After
<1>4. s # {} => After(s) = chain[Max(s)].new
  BY DEF After
<1>5. s # {} => chain[Max(s)].new \in Wasms
  BY <1>2 DEF ChainInv
<1> QED BY <1>2, <1>3, <1>4, <1>5 DEF TypeOK

\* Positions in the order of the chain are in the order of their ledgers, so
\* that the sort leaves them as they are (audit.rs:332-333).
LEMMA SortKeeps ==
  ASSUME TypeOK, ChainInv, NEW got \in Seq(Nat),
         \A k \in 1..Len(got) : got[k] \in 1..Len(chain),
         \A k, l \in 1..Len(got) : k < l => got[k] < got[l]
  PROVE  SortedByLedger(got) = got
<1> DEFINE n == Len(got)
           time(i) == chain[got[i]].ledger
           before(i) == {j \in 1..n : \/ time(j) < time(i)
                                      \/ time(j) = time(i) /\ j <= i}
           place(k) == CHOOSE i \in 1..n : Cardinality(before(i)) = k
<1>1. n \in Nat
  OBVIOUS
<1>2. \A i \in 1..n : time(i) \in Int
  <2> TAKE i \in 1..n
  <2>1. chain[got[i]] \in Events
    BY DEF TypeOK
  <2> QED BY <2>1 DEF Events
<1>3. \A i, j \in 1..n : i < j => time(i) <= time(j)
  BY DEF ChainInv
<1>4. ASSUME NEW i \in 1..n PROVE Cardinality(before(i)) = i
  <2>1. ASSUME NEW j \in 1..n PROVE j \in before(i) <=> j <= i
    <3>1. j < i \/ j = i \/ i < j
      BY <1>1
    <3>2. time(i) \in Int /\ time(j) \in Int
      BY <1>2
    <3>3. j < i => time(j) <= time(i)
      BY <1>3
    <3>4. i < j => time(i) <= time(j)
      BY <1>3
    <3> HIDE DEF time, n
    <3> QED BY <1>1, <3>1, <3>2, <3>3, <3>4
  <2>2. before(i) = 1..i
    <3>1. before(i) \subseteq 1..n
      OBVIOUS
    <3> HIDE DEF before, n
    <3>2. ASSUME NEW j PROVE j \in before(i) <=> j \in 1..i
      BY <1>1, <2>1, <3>1
    <3> QED BY <3>2
  <2> HIDE DEF before, n
  <2> QED BY <1>1, <2>2, FS_Interval
<1>5. ASSUME NEW k \in 1..n PROVE place(k) = k
  <2> HIDE DEF before, n
  <2> QED BY <1>1, <1>4
<1>6. SortedByLedger(got) = [k \in 1..n |-> got[place(k)]]
  BY DEF SortedByLedger
<1>7. [k \in 1..n |-> got[place(k)]] = [k \in 1..n |-> got[k]]
  <2> HIDE DEF place, n
  <2> QED BY <1>5
<1>8. got = [k \in 1..n |-> got[k]]
  OBVIOUS
<1> HIDE DEF n, place
<1> QED BY <1>6, <1>7, <1>8

-----------------------------------------------------------------------------
(***************************************************************************)
(* The ledger                                                              *)
(***************************************************************************)
LEMMA EmittedFields ==
  ASSUME TypeOK, ChainInv, latest < MaxLedger, NEW b \in Batches, NEW n \in 1..Len(b)
  PROVE  /\ Emitted(b)[n] \in Events
         /\ Emitted(b)[n].ledger = latest + 1
         /\ Emitted(b)[n].mine = (b[n] \in Wasms)
         /\ b[n] \in Wasms => /\ Emitted(b)[n].ok /\ Emitted(b)[n].new = b[n]
                              /\ Emitted(b)[n].old = Replaced(b, n)
                              /\ Replaced(b, n) \in Wasms
<1> DEFINE e == Emitted(b)[n]
           mine == b[n] \in Wasms
           ok == b[n] # Malformed
           old == IF mine THEN Replaced(b, n) ELSE NoWasm
           new == IF mine THEN b[n] ELSE NoWasm
<1>1. e = [ledger |-> latest + 1, mine |-> mine, ok |-> ok, old |-> old, new |-> new]
  BY DEF Emitted
<1>2. b \in Seq(Wasms \cup {Foreign, Malformed}) /\ Len(b) \in Nat
  BY ConstantsAssumption
<1>3. Replaced(b, n) \in Wasms
  <2> DEFINE earlier == {m \in 1..(n - 1) : b[m] \in Wasms}
  <2>1. Replaced(b, n) = IF earlier = {} THEN Live ELSE b[Max(earlier)]
    BY DEF Replaced
  <2>2. Live \in Wasms
    BY AfterUpgrades DEF Live
  <2>3. earlier # {} => Max(earlier) \in earlier
    <3>1. earlier \subseteq 1..(n - 1) /\ n - 1 \in Nat
      BY <1>2
    <3> HIDE DEF earlier
    <3> QED BY <3>1, PositionsHaveMax
  <2>4. earlier # {} => b[Max(earlier)] \in Wasms
    BY <2>3
  <2> HIDE DEF earlier
  <2> QED BY <2>1, <2>2, <2>4
<1>4. mine \in BOOLEAN /\ ok \in BOOLEAN
  OBVIOUS
<1>5. old \in Wasms \cup {NoWasm} /\ new \in Wasms \cup {NoWasm}
  BY <1>3
<1>6. latest + 1 \in 1..MaxLedger
  BY ConstantsAssumption DEF TypeOK
<1>7. mine => ok /\ old = Replaced(b, n) /\ new = b[n]
  BY ConstantsAssumption
<1>8. mine => b[n] \in Wasms
  OBVIOUS
<1> HIDE DEF e, old, new, mine, ok
<1>9. e \in Events
  BY <1>1, <1>4, <1>5, <1>6 DEF Events
<1>10. e.ledger = latest + 1 /\ e.mine = mine /\ e.ok = ok /\ e.old = old /\ e.new = new
  BY <1>1
<1> QED BY <1>3, <1>7, <1>9, <1>10 DEF e, mine

\* The chain grows at its end: nothing that was on it moves, and what was
\* deployed after upgrades of the past does not change.
Grows(b) ==
  /\ chain' \in Seq(Events) /\ Len(chain) \in Nat /\ Len(b) \in Nat
  /\ Len(chain') = Len(chain) + Len(b)
  /\ \A i \in 1..Len(chain) : chain'[i] = chain[i]
  /\ \A n \in 1..Len(b) : chain'[Len(chain) + n] = Emitted(b)[n]
  /\ \A i \in 1..Len(chain) : (i \in Mine') <=> (i \in Mine)
  /\ \A n \in 1..Len(b) : (Len(chain) + n \in Mine') <=> (b[n] \in Wasms)

LEMMA Concatenation ==
  ASSUME NEW S, NEW s \in Seq(S), NEW t \in Seq(S)
  PROVE  /\ s \o t \in Seq(S) /\ Len(s) \in Nat /\ Len(t) \in Nat
         /\ Len(s \o t) = Len(s) + Len(t)
         /\ \A i \in 1..Len(s) : (s \o t)[i] = s[i]
         /\ \A n \in 1..Len(t) : (s \o t)[Len(s) + n] = t[n]
<1> DEFINE u == s \o t
           L == Len(s)
           B == Len(t)
<1>1. /\ u \in Seq(S) /\ Len(u) = L + B /\ L \in Nat /\ B \in Nat
      /\ \A i \in 1..(L + B) : u[i] = IF i <= L THEN s[i] ELSE t[i - L]
  BY ConcatProperties
<1> HIDE DEF u, L, B
<1>2. \A i \in 1..L : u[i] = s[i]
  BY <1>1
<1>3. \A n \in 1..B : u[L + n] = t[n]
  BY <1>1
<1> QED BY <1>1, <1>2, <1>3 DEF u, L, B

LEMMA ChainGrows ==
  ASSUME TypeOK, ChainInv, latest < MaxLedger, NEW b \in Batches,
         chain' = chain \o Emitted(b)
  PROVE  Grows(b)
<1> DEFINE L == Len(chain)
           B == Len(b)
           more == Emitted(b)
<1>1. b \in Seq(Wasms \cup {Foreign, Malformed}) /\ B \in Nat
  BY ConstantsAssumption
<1>2. chain \in Seq(Events) /\ L \in Nat
  BY DEF TypeOK
<1>3. more \in Seq(Events) /\ Len(more) = B
  <2> DEFINE e(n) == Emitted(b)[n]
             f == [n \in 1..B |-> e(n)]
  <2>1. \A n \in 1..B : e(n) \in Events
    BY EmittedFields
  <2>2. more = f
    BY DEF Emitted
  <2> HIDE DEF more, B, e
  <2>3. f \in Seq(Events) /\ Len(f) = B
    BY <1>1, <2>1
  <2> QED BY <2>2, <2>3
<1>4. chain' \in Seq(Events) /\ Len(chain') = L + B
  <2>1. chain \o more \in Seq(Events) /\ Len(chain \o more) = L + Len(more)
    <3> HIDE DEF more
    <3> QED BY <1>2, <1>3, Concatenation
  <2> DEFINE u == chain \o more
  <2>2. chain' = u
    OBVIOUS
  <2> HIDE DEF more, u, L, B
  <2> QED BY <1>3, <2>1, <2>2 DEF u
<1>5. \A i \in 1..L : chain'[i] = chain[i]
  BY <1>2, <1>3, Concatenation
<1>6. \A n \in 1..B : chain'[L + n] = more[n]
  BY <1>2, <1>3, Concatenation
<1>7. \A i \in 1..L : (i \in Mine') <=> (i \in Mine)
  <2> HIDE DEF B
  <2> QED BY <1>1, <1>2, <1>4, <1>5 DEF Mine
<1>8. ASSUME NEW n \in 1..B PROVE (L + n \in Mine') <=> (b[n] \in Wasms)
  <2>1. more[n].mine = (b[n] \in Wasms)
    BY EmittedFields
  <2>2. L + n \in 1..Len(chain')
    <3> HIDE DEF B, L
    <3> QED BY <1>1, <1>2, <1>4
  <2>3. (L + n \in Mine') <=> chain'[L + n].mine
    BY <2>2 DEF Mine
  <2> QED BY <1>6, <2>1, <2>3
<1> QED BY <1>1, <1>2, <1>4, <1>5, <1>6, <1>7, <1>8 DEF Grows

LEMMA AfterKept ==
  ASSUME TypeOK, ChainInv, NEW b, Grows(b), genesis' = genesis,
         NEW s, s \subseteq Mine
  PROVE  (IF s = {} THEN genesis' ELSE chain'[Max(s)].new) = After(s)
<1>1. s # {} => Max(s) \in 1..Len(chain)
  BY AfterUpgrades DEF Mine
<1> QED BY <1>1 DEF Grows, After

\* An upgrade behind others of its ledger starts from the last of them.
LEMMA ReplacedIsDeployed ==
  ASSUME TypeOK, ChainInv, latest < MaxLedger, genesis' = genesis,
         NEW b \in Batches, Grows(b), NEW n \in 1..Len(b)
  PROVE  LET past == {j \in Mine' : j < Len(chain) + n}
         IN  Replaced(b, n) = IF past = {} THEN genesis' ELSE chain'[Max(past)].new
<1> DEFINE L == Len(chain)
           past == {j \in Mine' : j < L + n}
           earlier == {m \in 1..(n - 1) : b[m] \in Wasms}
<1>1. L \in Nat /\ Len(b) \in Nat /\ n \in 1..Len(b)
  BY DEF Grows
<1>2. Mine \subseteq 1..L /\ \A j \in Mine' : j \in 1..(L + Len(b))
  BY DEF Mine, Grows
<1>3. \A j \in 1..L : j \in past <=> j \in Mine
  BY <1>1 DEF Grows
<1>4. \A m \in 1..Len(b) : L + m \in past <=> m \in earlier
  BY <1>1 DEF Grows
<1>5. \A j \in past : j \in 1..L \/ \E m \in earlier : j = L + m
  <2> SUFFICES ASSUME NEW j \in past, j \notin 1..L PROVE \E m \in earlier : j = L + m
    OBVIOUS
  <2>1. j \in 1..(L + Len(b))
    BY <1>2
  <2>2. j - L \in 1..Len(b) /\ j = L + (j - L)
    BY <1>1, <2>1
  <2> HIDE DEF past, earlier
  <2> QED BY <1>4, <2>2
<1>6. Replaced(b, n) = IF earlier = {} THEN Live ELSE b[Max(earlier)]
  BY DEF Replaced
<1>7. CASE earlier = {}
  <2>1. past = Mine
    <3> HIDE DEF past, earlier
    <3> QED BY <1>2, <1>3, <1>5, <1>7
  <2>2. (IF Mine = {} THEN genesis' ELSE chain'[Max(Mine)].new) = After(Mine)
    BY AfterKept
  <2> HIDE DEF past, earlier
  <2> QED BY <1>6, <1>7, <2>1, <2>2 DEF Live, past
<1>8. CASE earlier # {}
  <2> DEFINE m == Max(earlier)
  <2>1. m \in earlier /\ \A k \in earlier : k <= m
    <3>1. earlier \subseteq 1..(n - 1) /\ n - 1 \in Nat
      BY <1>1
    <3> HIDE DEF earlier
    <3> QED BY <1>8, <3>1, PositionsHaveMax
  <2>2. m \in 1..Len(b) /\ m \in Int /\ b[m] \in Wasms /\ \A k \in earlier : k \in Int
    <3> HIDE DEF m
    <3> QED BY <1>1, <2>1
  <2>3. L + m \in past
    <3> HIDE DEF m, past, earlier
    <3> QED BY <1>4, <2>1, <2>2
  <2>4. \A j \in past : j \in Int /\ j <= L + m
    <3> HIDE DEF m, past, earlier
    <3> QED BY <1>1, <1>5, <2>1, <2>2
  <2>5. Max(past) = L + m
    <3> HIDE DEF m, past, earlier
    <3> QED BY <1>1, <2>2, <2>3, <2>4, MaxIs
  <2>6. chain'[L + m].new = b[m]
    <3>1. chain'[L + m] = Emitted(b)[m] /\ Emitted(b)[m].new = b[m]
      <4> HIDE DEF m
      <4> QED BY <2>2, EmittedFields DEF Grows
    <3> QED BY <3>1
  <2>7. past # {}
    BY <2>3
  <2>8. Replaced(b, n) = b[m]
    BY <1>6, <1>8
  <2> HIDE DEF past, earlier, m
  <2> QED BY <2>5, <2>6, <2>7, <2>8 DEF past
<1> QED BY <1>7, <1>8

LEMMA CloseKeepsChain ==
  ASSUME AuditInv, CloseLedger
  PROVE  ChainInv'
<1> USE DEF AuditInv
<1>1. PICK b \in Batches : chain' = chain \o Emitted(b)
  BY DEF CloseLedger
<1>2. latest < MaxLedger /\ latest' = latest + 1 /\ genesis' = genesis
  BY DEF CloseLedger
<1>3. Grows(b)
  BY <1>1, <1>2, ChainGrows
<1> DEFINE L == Len(chain)
           past(i) == {j \in Mine' : j < i}
           deployed(s) == IF s = {} THEN genesis' ELSE chain'[Max(s)].new
<1>4. L \in Nat /\ Len(b) \in Nat /\ Len(chain') = L + Len(b)
  BY <1>3 DEF Grows
<1>5. ASSUME NEW i \in 1..Len(chain')
      PROVE  i \in 1..L \/ \E n \in 1..Len(b) : i = L + n
  <2>1. i \in 1..L \/ (i - L \in 1..Len(b) /\ i = L + (i - L))
    BY <1>4
  <2> QED BY <2>1
<1>6. \A i \in 1..L : chain'[i].ledger = chain[i].ledger /\ chain[i].ledger <= latest
                     /\ chain[i].ledger \in Int
  <2>1. \A i \in 1..L : chain[i] \in Events
    BY DEF TypeOK
  <2>2. \A i \in 1..L : chain[i].ledger \in Int
    BY <2>1 DEF Events
  <2> QED BY <1>3, <2>2 DEF Grows, ChainInv
<1>7. \A n \in 1..Len(b) : chain'[L + n].ledger = latest + 1
  BY <1>2, <1>3, EmittedFields DEF Grows
<1>8. latest \in Int
  BY DEF TypeOK
<1>9. ASSUME NEW i \in 1..Len(chain') PROVE chain'[i].ledger <= latest'
  BY <1>2, <1>5, <1>6, <1>7, <1>8
<1>10. ASSUME NEW i \in 1..Len(chain'), NEW j \in 1..Len(chain'), i < j
       PROVE  chain'[i].ledger <= chain'[j].ledger
  <2>1. CASE j \in 1..L
    <3>1. i \in 1..L
      BY <1>4, <1>10, <2>1
    <3>2. chain[i].ledger <= chain[j].ledger
      BY <1>10, <2>1, <3>1 DEF ChainInv
    <3> QED BY <1>6, <2>1, <3>1, <3>2
  <2>2. CASE j \notin 1..L
    <3>1. chain'[j].ledger = latest + 1
      BY <1>5, <1>7, <2>2
    <3>2. chain'[i].ledger <= latest + 1
      BY <1>2, <1>9
    <3> QED BY <3>1, <3>2
  <2> QED BY <2>1, <2>2
<1>11. ASSUME NEW i \in Mine'
       PROVE  /\ chain'[i].ok /\ chain'[i].old \in Wasms /\ chain'[i].new \in Wasms
              /\ chain'[i].old = deployed(past(i))
  <2>1. i \in 1..Len(chain')
    BY DEF Mine
  <2>2. CASE i \in 1..L
    <3>1. i \in Mine /\ chain'[i] = chain[i]
      BY <1>3, <2>2 DEF Grows
    <3>2. past(i) = {j \in Mine : j < i}
      <4>1. Mine \subseteq 1..L
        BY DEF Mine
      <4>2. \A j \in Mine' : j < i => j \in 1..L
        BY <1>4, <2>2 DEF Mine
      <4> QED BY <1>3, <4>1, <4>2 DEF Grows
    <3>3. deployed(past(i)) = After({j \in Mine : j < i})
      BY <1>2, <1>3, <3>2, AfterKept
    <3> HIDE DEF deployed, past
    <3> QED BY <3>1, <3>3 DEF ChainInv
  <2>3. CASE i \notin 1..L
    <3>1. PICK n \in 1..Len(b) : i = L + n
      BY <1>5, <2>1, <2>3
    <3>2. chain'[i] = Emitted(b)[n] /\ b[n] \in Wasms
      BY <1>3, <3>1 DEF Grows
    <3>3. deployed(past(i)) = Replaced(b, n)
      BY <1>2, <1>3, <3>1, ReplacedIsDeployed
    <3>4. Emitted(b)[n].ok /\ Emitted(b)[n].new = b[n]
          /\ Emitted(b)[n].old = Replaced(b, n) /\ Replaced(b, n) \in Wasms
      BY <1>2, <3>2, EmittedFields
    <3> HIDE DEF deployed, past
    <3> QED BY <3>2, <3>3, <3>4
  <2> QED BY <2>2, <2>3
<1> QED BY <1>9, <1>10, <1>11 DEF ChainInv, After

\* Only calm is lost when a ledger closes or is forgotten.
OnlyCalm(b) ==
  /\ run'.cli = run.cli /\ run'.pc = run.pc /\ run'.first = run.first /\ run'.last = run.last
  /\ run'.seen = run.seen /\ run'.cursor = run.cursor /\ run'.got = run.got
  /\ run'.pages = run.pages /\ run'.want = run.want /\ run'.cur = run.cur
  /\ run'.exit = run.exit /\ run'.top = run.top /\ run'.calm = b

LEMMA CalmIsLost ==
  ASSUME TypeOK, NEW b \in BOOLEAN, run' = [run EXCEPT !.calm = b]
  PROVE  run' \in Runs /\ OnlyCalm(b)
BY DEF TypeOK, Runs, OnlyCalm

LEMMA CloseKeepsInv ==
  ASSUME AuditInv, CloseLedger
  PROVE  AuditInv'
<1> USE DEF AuditInv
<1>1. PICK b \in Batches : chain' = chain \o Emitted(b)
                         /\ run' = [run EXCEPT !.calm = @ /\ ToSet(b) \cap Wasms = {}]
  BY DEF CloseLedger
<1>2. latest < MaxLedger /\ latest' = latest + 1 /\ genesis' = genesis /\ oldest' = oldest
      /\ seal' = seal
  BY DEF CloseLedger
<1>3. Grows(b)
  BY <1>1, <1>2, ChainGrows
<1> DEFINE L == Len(chain)
           calm == run.calm /\ ToSet(b) \cap Wasms = {}
<1>4. L \in Nat /\ Len(b) \in Nat /\ Len(chain') = L + Len(b)
  BY <1>3 DEF Grows
<1>5. run' \in Runs /\ OnlyCalm(calm)
  <2>1. calm \in BOOLEAN /\ run' = [run EXCEPT !.calm = calm]
    BY <1>1 DEF TypeOK, Runs
  <2> HIDE DEF calm
  <2> QED BY <2>1, CalmIsLost
<1>6. \A i \in 1..L : i \in 1..Len(chain') /\ chain'[i] = chain[i] /\ (i \in Mine' <=> i \in Mine)
  BY <1>3, <1>4 DEF Grows
<1>7. /\ run.got \in Seq(Nat) /\ Len(run.got) \in Nat
      /\ \A k \in 1..Len(run.got) : run.got[k] \in 1..L /\ chain[run.got[k]].mine
  BY DEF TypeOK, Runs
<1>8. TypeOK'
  <2>1. chain' \in Seq(Events)
    BY <1>3 DEF Grows
  <2>2. latest' \in 1..MaxLedger /\ oldest' \in 1..latest'
    BY <1>2, ConstantsAssumption DEF TypeOK
  <2>3. run'.seen \subseteq 1..Len(chain') /\ run'.cursor \in 0..Len(chain')
        /\ run'.top <= Len(chain')
    BY <1>4, <1>5 DEF TypeOK, OnlyCalm, Runs
  <2>4. \A k \in 1..Len(run'.got) : run'.got[k] \in 1..Len(chain') /\ chain'[run'.got[k]].mine
    BY <1>5, <1>6, <1>7 DEF OnlyCalm
  <2> QED BY <1>2, <1>5, <2>1, <2>2, <2>3, <2>4 DEF TypeOK
<1>9. ChainInv'
  BY CloseKeepsChain
<1>10. ScanInv'
  BY <1>5 DEF ScanInv, OnlyCalm
<1>11. ASSUME run'.calm
       PROVE  run.calm /\ \A i \in Mine' : i \in Mine /\ chain'[i] = chain[i]
  <2>1. run.calm /\ ToSet(b) \cap Wasms = {}
    BY <1>5, <1>11 DEF OnlyCalm
  <2>2. \A n \in 1..Len(b) : b[n] \notin Wasms
    <3>1. \A n \in 1..Len(b) : b[n] \in ToSet(b)
      BY ConstantsAssumption DEF ToSet
    <3> QED BY <2>1, <3>1
  <2>3. ASSUME NEW i \in Mine' PROVE i \in Mine /\ chain'[i] = chain[i]
    <3>1. i \in 1..Len(chain')
      BY DEF Mine
    <3>2. CASE i \in 1..L
      BY <1>6, <3>2
    <3>3. CASE i \notin 1..L
      <4>1. i - L \in 1..Len(b) /\ i = L + (i - L)
        BY <1>4, <3>1, <3>3
      <4>2. b[i - L] \in Wasms
        BY <1>3, <4>1 DEF Grows
      <4> QED BY <2>2, <4>1, <4>2
    <3> QED BY <3>2, <3>3
  <2> QED BY <2>1, <2>3
<1>12. CalmInv'
  <2> SUFFICES ASSUME run'.calm PROVE CalmInv'
    BY DEF CalmInv
  <2>1. CalmInv /\ run.calm
    BY <1>11
  <2> HIDE DEF AuditInv
  <2>2. run'.pc \in {"page", "fetch", "report"} =>
          \A k \in 1..Len(run'.got) : chain'[run'.got[k]].ledger >= run'.first
    BY <1>5, <1>6, <1>7, <2>1 DEF CalmInv, OnlyCalm
  <2>3. run'.pc = "page" => oldest' <= run'.first
    BY <1>2, <1>5, <2>1 DEF CalmInv, OnlyCalm
  <2>4. run'.pc = "page" =>
          \A i \in Mine' : chain'[i].ledger >= run'.first /\ i <= run'.cursor =>
            \E k \in 1..Len(run'.got) : run'.got[k] = i
    BY <1>5, <1>11, <2>1 DEF CalmInv, OnlyCalm
  <2>5. run'.pc \in {"fetch", "report"} /\ run'.cli = "audit" =>
          \A i \in Mine' : chain'[i].ledger \in run'.first..run'.last =>
            \E k \in 1..Len(run'.got) : run'.got[k] = i
    BY <1>5, <1>11, <2>1 DEF CalmInv, OnlyCalm
  <2> QED BY <2>2, <2>3, <2>4, <2>5 DEF CalmInv
<1>13. ReportInv'
  <2> SUFFICES ASSUME run'.pc = "report" PROVE ReportInv'
    BY DEF ReportInv
  <2> DEFINE s == {i \in Mine : i <= run.top}
             t == {i \in Mine' : i <= run'.top}
  <2>1. run.top \in Nat /\ run.top <= L
    BY DEF TypeOK, Runs
  <2>2. t = s
    <3>1. Mine \subseteq 1..L
      BY DEF Mine
    <3>2. \A i \in Mine' : i <= run.top => i \in 1..L
      BY <1>4, <2>1 DEF Mine
    <3> QED BY <1>5, <1>6, <3>1, <3>2 DEF OnlyCalm
  <2>3. (IF t = {} THEN genesis' ELSE chain'[Max(t)].new) = After(s)
    BY <1>2, <1>3, <2>2, AfterKept
  <2>4. run.cur = After(s) /\ \A k \in 1..Len(run.got) : run.got[k] <= run.top
    BY <1>5 DEF ReportInv, OnlyCalm
  <2>5. run'.calm => \A i \in Mine' : i <= run'.top
    BY <1>5, <1>11 DEF ReportInv, OnlyCalm
  <2>6. (run.cur = After(s))' <=> run'.cur = IF t = {} THEN genesis' ELSE chain'[Max(t)].new
    BY DEF After
  <2> HIDE DEF s, t
  <2> QED BY <1>5, <2>3, <2>4, <2>5, <2>6 DEF ReportInv, OnlyCalm, s
<1> QED BY <1>8, <1>9, <1>10, <1>12, <1>13

\* What a step of a command leaves alone.
LEMMA LedgerStill ==
  ASSUME AuditInv, chain' = chain, genesis' = genesis, latest' = latest
  PROVE  Mine' = Mine /\ ChainInv'
<1>1. Mine' = Mine
  BY DEF Mine
<1> QED BY <1>1 DEF AuditInv, ChainInv, After

LEMMA ForgetKeepsInv ==
  ASSUME AuditInv, Forget
  PROVE  AuditInv'
<1> USE DEF AuditInv
<1>1. /\ chain' = chain /\ genesis' = genesis /\ latest' = latest /\ seal' = seal
      /\ oldest' = oldest + 1 /\ oldest < latest
      /\ run' = [run EXCEPT !.calm = FALSE]
  BY DEF Forget
<1>2. run' \in Runs /\ OnlyCalm(FALSE)
  BY <1>1, CalmIsLost
<1>3. Mine' = Mine /\ ChainInv'
  BY <1>1, LedgerStill
<1>4. TypeOK'
  <2>1. oldest' \in 1..latest' /\ latest' \in 1..MaxLedger
    BY <1>1, ConstantsAssumption DEF TypeOK
  <2> QED BY <1>1, <1>2, <2>1 DEF TypeOK, OnlyCalm
<1>5. ScanInv' /\ CalmInv'
  BY <1>2 DEF ScanInv, CalmInv, OnlyCalm
<1>6. ReportInv'
  BY <1>1, <1>2, <1>3 DEF ReportInv, OnlyCalm, After
<1> QED BY <1>3, <1>4, <1>5, <1>6

\* A run with nothing collected.
NewRun(c, p, w, x, b) ==
  [cli |-> c, pc |-> p, first |-> 0, last |-> 0, seen |-> {}, cursor |-> 0,
   got |-> <<>>, pages |-> 0, want |-> w, cur |-> NoWasm, exit |-> x, calm |-> b,
   top |-> 0]

LEMMA NewRunFields ==
  ASSUME NEW c \in {"none", "audit", "verify"}, NEW p \in Steps,
         NEW w \in Wasms \cup {NoWasm}, NEW x \in Exits, NEW b \in BOOLEAN
  PROVE  /\ NewRun(c, p, w, x, b) \in Runs
         /\ NewRun(c, p, w, x, b).cli = c /\ NewRun(c, p, w, x, b).pc = p
         /\ NewRun(c, p, w, x, b).seen = {} /\ NewRun(c, p, w, x, b).cursor = 0
         /\ NewRun(c, p, w, x, b).got = <<>> /\ NewRun(c, p, w, x, b).top = 0
<1> DEFINE r == NewRun(c, p, w, x, b)
<1>1. <<>> \in Seq(Nat) /\ {} \in SUBSET Nat /\ 0 \in 0..MaxPages /\ 0 \in 0..MaxLedger
      /\ 0 \in Nat
  BY ConstantsAssumption
<1>2. r \in Runs
  BY <1>1 DEF Runs, NewRun
<1>3. r.cli = c /\ r.pc = p /\ r.seen = {} /\ r.cursor = 0 /\ r.got = <<>> /\ r.top = 0
  BY DEF NewRun
<1> QED BY <1>2, <1>3

\* A command that begins, or is over, has nothing to keep.
LEMMA FreshRunKeepsInv ==
  ASSUME AuditInv, UNCHANGED <<ledger, seal>>,
         NEW c \in {"none", "audit", "verify"}, NEW p \in Steps \ {"page", "report"},
         NEW w \in Wasms \cup {NoWasm}, NEW x \in Exits, NEW b \in BOOLEAN,
         p = "window" => c = "audit", p = "fetch" => c = "verify",
         run' = NewRun(c, p, w, x, b)
  PROVE  AuditInv'
<1> USE DEF AuditInv
<1>1. chain' = chain /\ genesis' = genesis /\ latest' = latest /\ oldest' = oldest /\ seal' = seal
  BY DEF ledger
<1>2. /\ run' \in Runs /\ run'.cli = c /\ run'.pc = p /\ run'.seen = {} /\ run'.cursor = 0
      /\ run'.got = <<>> /\ run'.top = 0
  BY NewRunFields
<1>3. Mine' = Mine /\ ChainInv'
  BY <1>1, LedgerStill
<1>4. TypeOK'
  BY <1>1, <1>2 DEF TypeOK
<1>5. ScanInv'
  BY <1>2 DEF ScanInv, Steps
<1>6. CalmInv'
  BY <1>2 DEF CalmInv, Steps
<1>7. ReportInv'
  BY <1>2 DEF ReportInv
<1> QED BY <1>3, <1>4, <1>5, <1>6, <1>7

LEMMA QuitKeepsInv ==
  ASSUME AuditInv, UNCHANGED <<ledger, seal>>, NEW x \in Exits, Quit(x)
  PROVE  AuditInv'
<1>1. run' = NewRun("none", "done", NoWasm, x, FALSE)
  BY DEF Quit, NoRun, NewRun
<1>2. "done" \in Steps \ {"page", "report"}
  BY DEF Steps
<1> QED BY <1>1, <1>2, FreshRunKeepsInv

LEMMA StartKeepsInv ==
  ASSUME AuditInv, AuditStart \/ VerifyStart
  PROVE  AuditInv'
<1>1. UNCHANGED <<ledger, seal>>
  BY DEF AuditStart, VerifyStart
<1>2. CASE Quit("error")
  BY <1>1, <1>2, QuitKeepsInv DEF Exits
<1>3. CASE run' = [NoRun EXCEPT !.cli = "audit", !.pc = "window", !.calm = TRUE]
  <2>1. run' = NewRun("audit", "window", NoWasm, "none", TRUE)
    BY <1>3 DEF NoRun, NewRun
  <2>2. "window" \in Steps \ {"page", "report"} /\ "none" \in Exits
    BY DEF Steps, Exits
  <2> QED BY <1>1, <2>1, <2>2, FreshRunKeepsInv
<1>4. ASSUME NEW w \in seal, seal \notin {NoSeal, Corrupt},
             run' = [NoRun EXCEPT !.cli = "verify", !.pc = "fetch", !.want = w, !.calm = TRUE]
      PROVE  AuditInv'
  <2>1. run' = NewRun("verify", "fetch", w, "none", TRUE)
    BY <1>4 DEF NoRun, NewRun
  <2>2. "fetch" \in Steps \ {"page", "report"} /\ "none" \in Exits
    BY DEF Steps, Exits
  <2>3. w \in Wasms
    BY <1>4, ConstantsAssumption DEF AuditInv, TypeOK
  <2> QED BY <1>1, <2>1, <2>2, <2>3, FreshRunKeepsInv
<1> QED BY <1>2, <1>3, <1>4 DEF AuditStart, VerifyStart

LEMMA EndKeepsInv ==
  ASSUME AuditInv, OutOfPages \/ RequestFails \/ Report
  PROVE  AuditInv'
<1>1. UNCHANGED <<ledger, seal>>
  BY DEF OutOfPages, RequestFails, Report
<1>2. \E x \in Exits : Quit(x)
  BY DEF OutOfPages, RequestFails, Report, Exits
<1> QED BY <1>1, <1>2, QuitKeepsInv

-----------------------------------------------------------------------------
(***************************************************************************)
(* The scan                                                                *)
(***************************************************************************)
LEMMA WindowKeepsInv ==
  ASSUME AuditInv, Window
  PROVE  AuditInv'
<1> USE DEF AuditInv
<1>1. /\ run.pc = "window" /\ chain' = chain /\ genesis' = genesis /\ latest' = latest
      /\ oldest' = oldest /\ seal' = seal /\ UNCHANGED <<ledger, seal>>
  BY DEF Window, ledger
<1>2. PICK s \in Asked \cup {oldest}, e \in Asked \cup {latest} :
        IF Max({s, oldest}) > Min({e, latest})
        THEN Quit("error")
        ELSE run' = [run EXCEPT !.pc = "page", !.first = Max({s, oldest}),
                                !.last = Min({e, latest})]
  BY DEF Window
<1>3. CASE Quit("error")
  BY <1>1, <1>3, QuitKeepsInv DEF Exits
<1> DEFINE first == Max({s, oldest})
           last == Min({e, latest})
<1>4. CASE first <= last /\ run' = [run EXCEPT !.pc = "page", !.first = first, !.last = last]
  <2>1. s \in Nat /\ e \in Nat /\ oldest \in Nat /\ latest \in Nat /\ latest <= MaxLedger
        /\ MaxLedger \in Nat
    BY ConstantsAssumption DEF TypeOK
  <2>2. first \in Nat /\ first >= oldest /\ last \in Nat /\ last <= latest
    BY <2>1, ClampedWindow
  <2> HIDE DEF first, last
  <2>3. first \in 0..MaxLedger /\ last \in 0..MaxLedger
    BY <1>4, <2>1, <2>2
  <2>4. /\ run' \in Runs /\ run'.cli = run.cli /\ run'.pc = "page" /\ run'.first = first
        /\ run'.last = last /\ run'.seen = run.seen /\ run'.cursor = run.cursor
        /\ run'.got = run.got /\ run'.top = run.top /\ run'.calm = run.calm
    BY <1>4, <2>3 DEF TypeOK, Runs, Steps
  <2>5. run.got = <<>> /\ run.seen = {} /\ run.cursor = 0 /\ run.cli = "audit"
    BY <1>1 DEF ScanInv
  <2>6. Mine' = Mine /\ ChainInv'
    BY <1>1, LedgerStill
  <2>7. TypeOK'
    BY <1>1, <2>4 DEF TypeOK
  <2>8. ScanInv'
    BY <2>4, <2>5 DEF ScanInv
  <2>9. Mine \subseteq 1..Len(chain) /\ Len(chain) \in Nat
    BY DEF Mine, TypeOK
  <2>10. CalmInv'
    BY <1>1, <2>2, <2>4, <2>5, <2>6, <2>9 DEF CalmInv
  <2>11. ReportInv'
    BY <2>4 DEF ReportInv
  <2> QED BY <2>6, <2>7, <2>8, <2>10, <2>11
<1>5. first \in Int /\ last \in Int
  <2>1. s \in Nat /\ e \in Nat /\ oldest \in Nat /\ latest \in Nat
    BY ConstantsAssumption DEF TypeOK
  <2> QED BY <2>1, ClampedWindow
<1>6. first <= last \/ first > last
  <2> HIDE DEF first, last
  <2> QED BY <1>5
<1> QED BY <1>2, <1>3, <1>4, <1>6

\* A page has only events that are served, the fresh ones are behind the
\* cursor, and none up to its last one is missing.
LEMMA PageFacts ==
  ASSUME AuditInv, run.pc = "page", NEW pg \in Pages
  PROVE  LET all == Served(run.first, run.cursor)
         IN  /\ all \subseteq 1..Len(chain)
             /\ pg \subseteq all
             /\ \A i \in Fresh(pg) : i > run.cursor
             /\ pg # {} =>
                  /\ Max(pg) \in pg /\ \A i \in pg : i <= Max(pg)
                  /\ \A i \in all : i > run.cursor /\ i <= Max(pg) => i \in Fresh(pg)
<1> USE DEF AuditInv
<1> DEFINE all == Served(run.first, run.cursor)
           M == Max({run.first, oldest})
           starts == IF all = {} THEN {} ELSE {Min(all)} \cup (all \cap {run.cursor + 1})
<1>1. /\ run.cursor \in Nat /\ run.first \in Nat /\ oldest \in Nat /\ Len(chain) \in Nat
      /\ \A i \in 1..Len(chain) : chain[i].ledger \in Int
  <2>1. \A i \in 1..Len(chain) : chain[i] \in Events
    BY DEF TypeOK
  <2>2. \A i \in 1..Len(chain) : chain[i].ledger \in Int
    BY <2>1 DEF Events
  <2> QED BY <2>2, ConstantsAssumption DEF TypeOK, Runs
<1>2. M \in Nat
  BY <1>1, ClampedWindow
<1>3. all \subseteq 1..Len(chain)
      /\ \A i \in 1..Len(chain) : i \in all <=> (i >= run.cursor /\ chain[i].ledger >= M)
  BY DEF Served
<1>4. \A i, j \in 1..Len(chain) : i <= j => chain[i].ledger <= chain[j].ledger
  BY <1>1 DEF ChainInv
<1>5. run.seen \subseteq 1..run.cursor /\ (run.cursor > 0 => run.cursor \in run.seen)
  BY DEF ScanInv
<1>6. CASE pg = {}
  BY <1>3, <1>6 DEF Fresh
<1>7. CASE pg # {}
  <2>1. PICK a \in starts, b \in all : pg = a..b
    BY <1>7 DEF Pages
  <2>2. all # {}
    BY <2>1
  <2>3. a \in all /\ (a = run.cursor + 1 \/ \A i \in all : a <= i)
    <3>1. Min(all) \in all /\ \A i \in all : Min(all) <= i
      <4> HIDE DEF all
      <4> QED BY <1>1, <1>3, <2>2, PositionsHaveMin
    <3>2. a = Min(all) \/ (a \in all /\ a = run.cursor + 1)
      BY <2>1, <2>2
    <3> HIDE DEF all, starts
    <3> QED BY <3>1, <3>2
  <2> HIDE DEF all, starts, M
  <2>4. a \in Int /\ b \in Int /\ a <= b
    BY <1>3, <1>7, <2>1, <2>3
  <2>5. Max(pg) = b /\ b \in pg
    <3>1. b \in pg /\ \A i \in pg : i \in Int /\ i <= b
      BY <2>1, <2>4
    <3> QED BY <2>4, <3>1, MaxIs
  <2>6. pg \subseteq all
    <3> SUFFICES ASSUME NEW i \in pg PROVE i \in all
      OBVIOUS
    <3>1. i \in 1..Len(chain) /\ a <= i
      BY <1>3, <2>1, <2>3, <2>4
    <3>2. chain[a].ledger >= M /\ a >= run.cursor /\ a \in 1..Len(chain)
      BY <1>3, <2>3
    <3>3. chain[a].ledger <= chain[i].ledger
      BY <1>4, <3>1, <3>2
    <3> QED BY <1>1, <1>2, <1>3, <3>1, <3>2, <3>3
  <2>7. \A i \in Fresh(pg) : i > run.cursor
    <3> SUFFICES ASSUME NEW i \in pg, i \notin run.seen PROVE i > run.cursor
      BY DEF Fresh
    <3>1. i \in 1..Len(chain) /\ i >= run.cursor
      BY <1>3, <2>6
    <3> QED BY <1>1, <1>5, <3>1
  <2>8. ASSUME NEW i \in all, i > run.cursor, i <= b PROVE i \in Fresh(pg)
    <3>1. i \in Int /\ a <= i
      BY <1>1, <1>3, <2>3, <2>8
    <3>2. i \in pg /\ i \notin run.seen
      BY <1>1, <1>5, <2>1, <2>4, <2>8, <3>1
    <3> QED BY <3>2 DEF Fresh
  <2>9. \A i \in pg : i <= b
    BY <2>1, <2>4
  <2> QED BY <1>3, <2>5, <2>6, <2>7, <2>8, <2>9 DEF all
<1> QED BY <1>6, <1>7

\* What is collected after a page: the upgrades from before, and behind them
\* those of the page before its first stop.
LEMMA CollectedFacts ==
  ASSUME AuditInv, run.pc = "page", NEW pg \in Pages
  PROVE  LET got == Collected(pg)
         IN  /\ got \in Seq(Nat) /\ Len(got) \in Nat
             /\ \A k \in 1..Len(got) : /\ got[k] \in Mine
                                      /\ \/ \E l \in 1..Len(run.got) : got[k] = run.got[l]
                                         \/ got[k] \in pg
             /\ \A k, l \in 1..Len(got) : k < l => got[k] < got[l]
             /\ \A l \in 1..Len(run.got) : \E k \in 1..Len(got) : got[k] = run.got[l]
             /\ \A i \in Fresh(pg) : chain[i].mine /\ (\A j \in Stops(pg) : i < j) =>
                  \E k \in 1..Len(got) : got[k] = i
<1> USE DEF AuditInv
<1> DEFINE new == {i \in Fresh(pg) : chain[i].mine /\ \A j \in Stops(pg) : i < j}
           next == Ascending(new)
           c == Cardinality(new)
           old == run.got
           n == Len(old)
           got == old \o next
<1>1. old \in Seq(Nat) /\ n \in Nat /\ \A k \in 1..n : old[k] \in Mine /\ old[k] <= run.cursor
                                                 /\ old[k] \in Nat
  BY DEF TypeOK, Runs, Mine, ScanInv
<1>2. \A i \in new : i \in pg /\ i \in 1..Len(chain) /\ i \in Mine /\ i > run.cursor
  <2>1. pg \subseteq 1..Len(chain) /\ \A i \in Fresh(pg) : i > run.cursor
    BY PageFacts
  <2> QED BY <2>1 DEF Fresh, Mine
<1>3. /\ c \in Nat /\ next \in [1..c -> new]
      /\ \A k, l \in 1..c : k < l => next[k] < next[l]
      /\ \A i \in new : UpTo(new, i) \in 1..c /\ next[UpTo(new, i)] = i
  <2>1. new \subseteq 1..Len(chain) /\ Len(chain) \in Nat
    BY <1>2 DEF TypeOK
  <2> HIDE DEF new
  <2> QED BY <2>1, AscendingProperties
<1> HIDE DEF new, next, c
<1>4. next \in Seq(Nat) /\ Len(next) = c
  <2>1. \A i \in new : i \in Nat
    BY <1>2
  <2> QED BY <1>3, <2>1
<1>5. got \in Seq(Nat) /\ Len(got) = n + c /\ Len(got) \in Nat
  <2>1. old \o next \in Seq(Nat) /\ Len(old \o next) = Len(old) + Len(next)
    <3> HIDE DEF old
    <3> QED BY <1>1, <1>4, Concatenation
  <2> QED BY <1>1, <1>3, <1>4, <2>1
<1>6. \A k \in 1..n : got[k] = old[k]
  <2> HIDE DEF old
  <2> QED BY <1>1, <1>4, Concatenation
<1>7. \A k \in 1..c : got[n + k] = next[k]
  <2> HIDE DEF old
  <2> QED BY <1>1, <1>4, Concatenation
<1> HIDE DEF got, n, old
<1>8. ASSUME NEW k \in 1..Len(got)
      PROVE  k \in 1..n \/ (k > n /\ k - n \in 1..c /\ got[k] = next[k - n])
  <2>1. k \in 1..n \/ (k > n /\ k - n \in 1..c /\ k = n + (k - n))
    BY <1>1, <1>3, <1>5
  <2> QED BY <1>7, <2>1
<1>9. \A k \in 1..Len(got) : got[k] \in Mine /\ ((\E l \in 1..n : got[k] = old[l]) \/ got[k] \in pg)
  <2> SUFFICES ASSUME NEW k \in 1..Len(got)
               PROVE  got[k] \in Mine /\ ((\E l \in 1..n : got[k] = old[l]) \/ got[k] \in pg)
    OBVIOUS
  <2>1. CASE k \in 1..n
    BY <1>1, <1>6, <2>1
  <2>2. CASE k > n /\ k - n \in 1..c /\ got[k] = next[k - n]
    <3>1. next[k - n] \in new
      BY <1>3, <2>2
    <3> QED BY <1>2, <2>2, <3>1
  <2> QED BY <1>8, <2>1, <2>2
<1>10. ASSUME NEW k \in 1..Len(got), NEW l \in 1..Len(got), k < l
       PROVE  got[k] < got[l]
  <2>1. CASE k \in 1..n /\ l \in 1..n
    BY <1>6, <1>10, <2>1 DEF ScanInv, old, n
  <2>2. CASE k \in 1..n /\ l > n /\ l - n \in 1..c /\ got[l] = next[l - n]
    <3>1. next[l - n] \in new
      BY <1>3, <2>2
    <3>2. run.cursor \in Nat
      BY DEF TypeOK, Runs
    <3>3. got[k] <= run.cursor /\ got[k] \in Nat
      BY <1>1, <1>6, <2>2
    <3>4. got[l] > run.cursor /\ got[l] \in Nat
      BY <1>2, <2>2, <3>1
    <3> QED BY <3>2, <3>3, <3>4
  <2>3. CASE /\ k > n /\ k - n \in 1..c /\ got[k] = next[k - n]
             /\ l > n /\ l - n \in 1..c /\ got[l] = next[l - n]
    <3>1. k - n < l - n
      BY <1>1, <1>10
    <3> QED BY <1>3, <2>3, <3>1
  <2>4. ~(k > n /\ l \in 1..n)
    BY <1>1, <1>5, <1>10
  <2> QED BY <1>8, <2>1, <2>2, <2>3, <2>4
<1>11. ASSUME NEW l \in 1..n PROVE \E k \in 1..Len(got) : got[k] = old[l]
  <2>1. l \in 1..Len(got)
    BY <1>1, <1>3, <1>5
  <2> QED BY <1>6, <2>1
<1>12. ASSUME NEW i \in new PROVE \E k \in 1..Len(got) : got[k] = i
  <2>1. UpTo(new, i) \in 1..c /\ next[UpTo(new, i)] = i
    BY <1>3
  <2>2. n + UpTo(new, i) \in 1..Len(got)
    BY <1>1, <1>3, <1>5, <2>1
  <2> QED BY <1>7, <2>1, <2>2
<1>13. Collected(pg) = got
  BY DEF Collected, got, next, new, old
<1> QED BY <1>5, <1>9, <1>10, <1>11, <1>12, <1>13 DEF new, n, old

\* If nothing moved, the upgrades of the window up to the end of the page have
\* all been collected, or all of the window if the scan ends here.
LEMMA NothingMissed ==
  ASSUME AuditInv, run.pc = "page", run.calm, NEW pg \in Pages,
         NEW i \in Mine, chain[i].ledger >= run.first,
         \/ pg = {} /\ Served(run.first, run.cursor) \subseteq {run.cursor}
         \/ pg # {} /\ Stops(pg) = {} /\ (i <= Max(pg) \/ Len(chain) \in pg \cup {run.cursor})
         \/ pg # {} /\ Stops(pg) # {} /\ chain[Min(Stops(pg))].ok /\ chain[i].ledger <= run.last
  PROVE  \E k \in 1..Len(Collected(pg)) : Collected(pg)[k] = i
<1> USE DEF AuditInv
<1> DEFINE all == Served(run.first, run.cursor)
           stop == Stops(pg)
<1>1. /\ i \in 1..Len(chain) /\ Len(chain) \in Nat /\ run.cursor \in Nat /\ run.last \in Nat
      /\ run.first \in Nat /\ oldest \in Nat /\ chain[i].mine
      /\ \A j \in 1..Len(chain) : chain[j].ledger \in Int
  <2>1. \A j \in 1..Len(chain) : chain[j] \in Events
    BY DEF TypeOK
  <2>2. \A j \in 1..Len(chain) : chain[j].ledger \in Int
    BY <2>1 DEF Events
  <2> QED BY <2>2, ConstantsAssumption DEF TypeOK, Runs, Mine
<1>2. CASE i <= run.cursor
  <2>1. PICK l \in 1..Len(run.got) : run.got[l] = i
    BY <1>2 DEF CalmInv
  <2> QED BY <2>1, CollectedFacts
<1>3. CASE i > run.cursor
  <2>1. i \in all
    <3>1. Max({run.first, oldest}) = run.first
      <4> DEFINE M == Max({run.first, oldest})
      <4>1. oldest <= run.first
        BY DEF CalmInv
      <4>2. M \in {run.first, oldest} /\ M >= run.first
        BY <1>1, ClampedWindow
      <4> HIDE DEF M
      <4>3. M = run.first
        BY <1>1, <4>1, <4>2
      <4> QED BY <4>3 DEF M
    <3> QED BY <1>1, <1>3, <3>1 DEF Served
  <2>2. pg # {}
    BY <1>1, <1>3, <2>1
  <2>3. /\ Max(pg) \in pg /\ pg \subseteq 1..Len(chain)
        /\ \A j \in pg : j <= Max(pg)
        /\ \A j \in all : j > run.cursor /\ j <= Max(pg) => j \in Fresh(pg)
    BY <2>2, PageFacts
  <2> DEFINE top == Max(pg)
  <2>6. top \in Int /\ \A j \in pg : j <= top
    <3>1. top \in pg /\ \A j \in pg : j <= top
      BY <2>3
    <3> HIDE DEF top
    <3> QED BY <2>3, <3>1
  <2> HIDE DEF all, top
  <2>4. CASE stop = {}
    <3>1. i <= Max(pg)
      <4>1. CASE Len(chain) \in pg \cup {run.cursor}
        <5>1. Len(chain) \in pg
          BY <1>1, <1>3, <4>1
        <5>2. i <= top
          BY <1>1, <2>6, <5>1
        <5> QED BY <5>2 DEF top
      <4> QED BY <2>2, <2>4, <4>1
    <3>2. i \in Fresh(pg)
      BY <1>3, <2>1, <2>3, <3>1
    <3> QED BY <1>1, <2>4, <3>2, CollectedFacts
  <2>5. CASE stop # {}
    <3> DEFINE p == Min(stop)
    <3>1. p \in stop /\ \A j \in stop : p <= j
      <4>1. stop \subseteq 1..Len(chain)
        BY <2>3 DEF Stops, Fresh
      <4> HIDE DEF stop
      <4> QED BY <1>1, <2>5, <4>1, PositionsHaveMin
    <3>2. chain[p].ok /\ chain[i].ledger <= run.last
      BY <2>2, <2>5
    <3>3. p \in pg /\ p \in 1..Len(chain) /\ chain[p].ledger > run.last
      BY <2>3, <3>1, <3>2 DEF Stops, Fresh
    <3>4. \A j \in stop : j \in Int
      BY <2>3 DEF Stops, Fresh
    <3> HIDE DEF p, stop
    <3>5. i < p
      <4>1. p < i => chain[p].ledger <= chain[i].ledger
        BY <1>1, <3>3 DEF ChainInv
      <4> QED BY <1>1, <3>2, <3>3, <4>1
    <3>6. i <= Max(pg)
      <4>1. i <= top
        BY <1>1, <2>6, <3>3, <3>5
      <4> QED BY <4>1 DEF top
    <3>7. i \in Fresh(pg)
      BY <1>3, <2>1, <2>3, <3>6
    <3>8. \A j \in stop : i < j
      BY <1>1, <3>1, <3>3, <3>4, <3>5
    <3> QED BY <1>1, <3>7, <3>8, CollectedFacts DEF stop
  <2> QED BY <2>4, <2>5
<1> QED BY <1>1, <1>2, <1>3

\* What is collected from a page that is served was upgraded in the window.
LEMMA CollectedInWindow ==
  ASSUME AuditInv, run.pc = "page", run.calm, NEW pg \in Pages,
         NEW k \in 1..Len(Collected(pg))
  PROVE  chain[Collected(pg)[k]].ledger >= run.first
<1> USE DEF AuditInv
<1>1. CASE \E l \in 1..Len(run.got) : Collected(pg)[k] = run.got[l]
  BY <1>1 DEF CalmInv
<1>2. CASE Collected(pg)[k] \in pg
  <2> DEFINE i == Collected(pg)[k]
  <2>1. i \in Served(run.first, run.cursor) /\ i \in 1..Len(chain)
    BY <1>2, PageFacts
  <2>2. run.first \in Nat /\ oldest \in Nat /\ chain[i] \in Events
    BY <2>1 DEF TypeOK, Runs
  <2> HIDE DEF i
  <2>3. chain[i].ledger \in Int
    BY <2>2 DEF Events
  <2>4. chain[i].ledger >= Max({run.first, oldest})
    BY <2>1 DEF Served
  <2>5. Max({run.first, oldest}) \in Nat /\ Max({run.first, oldest}) >= run.first
    BY <2>2, ClampedWindow
  <2>6. chain[i].ledger >= run.first
    BY <2>2, <2>3, <2>4, <2>5
  <2> QED BY <2>6 DEF i
<1> QED BY <1>1, <1>2, CollectedFacts

LEMMA PageKeepsInv ==
  ASSUME AuditInv, Page
  PROVE  AuditInv'
<1> USE DEF AuditInv
<1>1. /\ run.pc = "page" /\ chain' = chain /\ genesis' = genesis /\ latest' = latest
      /\ oldest' = oldest /\ seal' = seal /\ UNCHANGED <<ledger, seal>> /\ run.pages < MaxPages
  BY DEF Page, ledger
<1>2. PICK pg \in Pages, more \in BOOLEAN :
        LET got == Collected(pg)
            stop == Stops(pg)
            ended == Served(run.first, run.cursor) \subseteq {run.cursor}
        IN  /\ more \/ Len(chain) \in pg \cup {run.cursor}
            /\ \/ /\ pg = {} \/ (stop # {} /\ chain[Min(stop)].ok) \/ (stop = {} /\ ~more)
                  /\ run' = [run EXCEPT !.pc = "fetch", !.got = SortedByLedger(got),
                                         !.calm = @ /\ (pg # {} \/ ended)]
               \/ /\ stop # {} /\ ~chain[Min(stop)].ok
                  /\ Quit("error")
               \/ /\ pg # {} /\ stop = {} /\ more
                  /\ run' = [run EXCEPT !.seen = @ \cup pg, !.cursor = Max(pg),
                                        !.got = got, !.pages = Counted]
  BY DEF Page
<1> DEFINE got == Collected(pg)
           stop == Stops(pg)
           all == Served(run.first, run.cursor)
           ended == all \subseteq {run.cursor}
           calm == run.calm /\ (pg # {} \/ ended)
<1>3. Mine' = Mine /\ ChainInv'
  BY <1>1, LedgerStill
<1>4. /\ got \in Seq(Nat) /\ Len(got) \in Nat
      /\ \A k \in 1..Len(got) : got[k] \in 1..Len(chain) /\ chain[got[k]].mine
      /\ \A k, l \in 1..Len(got) : k < l => got[k] < got[l]
  BY <1>1, CollectedFacts DEF Mine
<1>5. SortedByLedger(got) = got
  <2> HIDE DEF got
  <2> QED BY <1>4, SortKeeps
<1>6. run.calm => \A k \in 1..Len(got) : chain[got[k]].ledger >= run.first
  BY <1>1, CollectedInWindow
<1>7. run.cli = "audit"
  BY <1>1 DEF ScanInv
<1>8. CASE /\ pg = {} \/ (stop # {} /\ chain[Min(stop)].ok) \/ (stop = {} /\ ~more)
           /\ run' = [run EXCEPT !.pc = "fetch", !.got = SortedByLedger(got),
                                  !.calm = @ /\ (pg # {} \/ ended)]
  <2>1. run' = [run EXCEPT !.pc = "fetch", !.got = got, !.calm = calm]
    <3>1. run' = [run EXCEPT !.pc = "fetch", !.got = SortedByLedger(got), !.calm = calm]
      BY <1>8 DEF TypeOK, Runs
    <3> HIDE DEF got, calm
    <3> QED BY <1>5, <3>1
  <2>2. calm \in BOOLEAN
    BY DEF TypeOK, Runs
  <2>3. calm => run.calm /\ \A i \in Mine : chain[i].ledger \in run.first..run.last =>
                               \E k \in 1..Len(got) : got[k] = i
    <3> SUFFICES ASSUME calm, NEW i \in Mine, chain[i].ledger \in run.first..run.last
                 PROVE  \E k \in 1..Len(got) : got[k] = i
      OBVIOUS
    <3>1. /\ chain[i].ledger >= run.first /\ chain[i].ledger <= run.last
          /\ run.calm
      BY DEF TypeOK, Runs
    <3>2. \/ pg = {} /\ ended
          \/ pg # {} /\ stop = {} /\ Len(chain) \in pg \cup {run.cursor}
          \/ pg # {} /\ stop # {} /\ chain[Min(stop)].ok
      BY <1>2, <1>8
    <3> QED BY <1>1, <3>1, <3>2, NothingMissed
  <2> HIDE DEF got, calm
  <2>4. /\ run' \in Runs /\ run'.cli = "audit" /\ run'.pc = "fetch" /\ run'.first = run.first
        /\ run'.last = run.last /\ run'.seen = run.seen /\ run'.cursor = run.cursor
        /\ run'.got = got /\ run'.top = run.top /\ run'.calm = calm
    BY <1>4, <1>7, <2>1, <2>2 DEF TypeOK, Runs, Steps
  <2>5. TypeOK'
    BY <1>1, <1>4, <2>4 DEF TypeOK
  <2>6. ScanInv'
    BY <1>4, <2>4 DEF ScanInv
  <2>7. CalmInv'
    BY <1>1, <1>3, <1>6, <2>3, <2>4 DEF CalmInv
  <2>8. ReportInv'
    BY <2>4 DEF ReportInv
  <2> QED BY <1>3, <2>5, <2>6, <2>7, <2>8
<1>9. CASE Quit("error")
  BY <1>1, <1>9, QuitKeepsInv DEF Exits
<1>10. CASE /\ pg # {} /\ stop = {} /\ more
            /\ run' = [run EXCEPT !.seen = @ \cup pg, !.cursor = Max(pg),
                                  !.got = got, !.pages = Counted]
  <2> DEFINE top == Max(pg)
  <2>1. top \in pg /\ (\A i \in pg : i <= top) /\ pg \subseteq 1..Len(chain)
    BY <1>1, <1>10, PageFacts
  <2>2. \A i \in pg : i >= run.cursor
    BY <1>1, PageFacts DEF Served
  <2>3. ASSUME NEW k \in 1..Len(got) PROVE got[k] <= top
    <3>1. CASE got[k] \in pg
      BY <2>1, <3>1
    <3>2. CASE \E l \in 1..Len(run.got) : got[k] = run.got[l]
      <4>1. got[k] <= run.cursor /\ got[k] \in Nat /\ run.cursor \in Nat
        BY <1>1, <3>2 DEF ScanInv, TypeOK, Runs
      <4>2. run.cursor <= top /\ top \in Int
        <5> HIDE DEF top
        <5> QED BY <2>1, <2>2
      <4> HIDE DEF got, top
      <4> QED BY <4>1, <4>2
    <3> QED BY <1>1, <3>1, <3>2, CollectedFacts
  <2>4. run.calm => \A i \in Mine : chain[i].ledger >= run.first /\ i <= top =>
                      \E k \in 1..Len(got) : got[k] = i
    BY <1>1, <1>10, NothingMissed
  <2> HIDE DEF got, top
  <2>5. run' = [run EXCEPT !.seen = run.seen \cup pg, !.cursor = top, !.got = got,
                           !.pages = run.pages + 1]
    BY <1>10 DEF top, Counted, TypeOK, Runs
  <2>6. /\ run.seen \cup pg \in SUBSET Nat /\ run.seen \cup pg \subseteq 1..Len(chain)
        /\ top \in Nat /\ top \in 1..Len(chain) /\ run.pages + 1 \in 0..MaxPages
    <3>1. run.seen \subseteq 1..Len(chain) /\ run.pages \in 0..MaxPages /\ MaxPages \in Nat
      BY ConstantsAssumption DEF TypeOK, Runs
    <3>2. run.pages + 1 \in 0..MaxPages
      BY <1>1, <3>1
    <3>3. run.seen \cup pg \subseteq 1..Len(chain)
      BY <2>1, <3>1
    <3>4. top \in 1..Len(chain)
      BY <2>1
    <3>5. \A i \in 1..Len(chain) : i \in Nat
      OBVIOUS
    <3> QED BY <3>2, <3>3, <3>4, <3>5
  <2>7. /\ run' \in Runs /\ run'.cli = "audit" /\ run'.pc = "page" /\ run'.first = run.first
        /\ run'.last = run.last /\ run'.seen = run.seen \cup pg /\ run'.cursor = top
        /\ run'.got = got /\ run'.top = run.top /\ run'.calm = run.calm
    BY <1>1, <1>4, <1>7, <2>5, <2>6 DEF TypeOK, Runs
  <2>8. TypeOK'
    BY <1>1, <1>4, <2>6, <2>7 DEF TypeOK
  <2>9. ScanInv'
    <3>1. run.seen \cup pg \subseteq 1..top
      <4>1. run.seen \subseteq 1..run.cursor /\ run.cursor <= top /\ run.cursor \in Nat
        BY <1>1, <2>1, <2>2 DEF ScanInv, TypeOK, Runs
      <4> QED BY <2>1, <2>6, <4>1
    <3> QED BY <1>4, <2>1, <2>3, <2>7, <3>1 DEF ScanInv
  <2>10. CalmInv'
    BY <1>1, <1>3, <1>6, <2>4, <2>7 DEF CalmInv
  <2>11. ReportInv'
    BY <2>7 DEF ReportInv
  <2> QED BY <1>3, <2>8, <2>9, <2>10, <2>11
<1> QED BY <1>2, <1>8, <1>9, <1>10

LEMMA FetchKeepsInv ==
  ASSUME AuditInv, Fetch
  PROVE  AuditInv'
<1> USE DEF AuditInv
<1> DEFINE L == Len(chain)
           live == After(Mine)
<1>1. /\ run.pc = "fetch" /\ chain' = chain /\ genesis' = genesis /\ latest' = latest
      /\ oldest' = oldest /\ seal' = seal /\ L \in Nat
      /\ run' = [run EXCEPT !.pc = "report", !.cur = live, !.top = L]
  BY DEF Fetch, ledger, Live, TypeOK
<1>2. live \in Wasms
  BY AfterUpgrades
<1>3. Mine' = Mine /\ ChainInv'
  BY <1>1, LedgerStill
<1>4. Mine = {i \in Mine : i <= L}
  BY <1>1 DEF Mine
<1> HIDE DEF live
<1>5. /\ run' \in Runs /\ run'.cli = run.cli /\ run'.pc = "report" /\ run'.first = run.first
      /\ run'.last = run.last /\ run'.seen = run.seen /\ run'.cursor = run.cursor
      /\ run'.got = run.got /\ run'.top = L /\ run'.cur = live /\ run'.calm = run.calm
  BY <1>1, <1>2 DEF TypeOK, Runs, Steps
<1>6. TypeOK'
  BY <1>1, <1>5 DEF TypeOK
<1>7. ScanInv'
  BY <1>1, <1>5 DEF ScanInv
<1>8. CalmInv'
  BY <1>1, <1>3, <1>5 DEF CalmInv
<1>9. ReportInv'
  <2>1. run'.cur = (IF {i \in Mine' : i <= run'.top} = {} THEN genesis'
                    ELSE chain'[Max({i \in Mine' : i <= run'.top})].new)
    BY <1>1, <1>3, <1>4, <1>5 DEF live, After
  <2>2. \A k \in 1..Len(run.got) : run.got[k] <= L
    BY <1>1 DEF TypeOK
  <2>3. \A i \in Mine : i <= L
    BY <1>1 DEF Mine
  <2> QED BY <1>3, <1>5, <2>1, <2>2, <2>3 DEF ReportInv, After
<1> QED BY <1>3, <1>6, <1>7, <1>8, <1>9

LEMMA InitInv == Init => AuditInv
<1> SUFFICES ASSUME Init PROVE AuditInv
  OBVIOUS
<1>1. run = NoRun
  BY DEF Init
<1>2. /\ run \in Runs /\ run.cli = "none" /\ run.pc = "idle" /\ run.seen = {} /\ run.cursor = 0
      /\ run.got = <<>> /\ run.top = 0
  <2>1. <<>> \in Seq(Nat) /\ {} \in SUBSET Nat /\ 0 \in 0..MaxPages /\ 0 \in 0..MaxLedger
        /\ 0 \in Nat
    BY ConstantsAssumption
  <2>2. NoRun \in Runs
    BY <2>1 DEF NoRun, Runs, Steps, Exits
  <2> QED BY <1>1, <2>2 DEF NoRun
<1>3. chain = <<>> /\ Mine = {}
  BY DEF Init, Mine
<1>4. TypeOK
  BY <1>2, <1>3, ConstantsAssumption DEF Init, TypeOK
<1>5. ChainInv
  BY <1>3 DEF ChainInv
<1>6. ScanInv /\ CalmInv /\ ReportInv
  BY <1>2 DEF ScanInv, CalmInv, ReportInv
<1> QED BY <1>4, <1>5, <1>6 DEF AuditInv

THEOREM AuditInvariant == Spec => []AuditInv
<1>1. Init => AuditInv
  BY InitInv
<1>2. AuditInv /\ [Next]_vars => AuditInv'
  <2> SUFFICES ASSUME AuditInv, [Next]_vars PROVE AuditInv'
    OBVIOUS
  <2>1. CASE CloseLedger
    BY <2>1, CloseKeepsInv
  <2>2. CASE Forget
    BY <2>2, ForgetKeepsInv
  <2>3. CASE AuditStart \/ VerifyStart
    BY <2>3, StartKeepsInv
  <2>4. CASE Window
    BY <2>4, WindowKeepsInv
  <2>5. CASE Page
    BY <2>5, PageKeepsInv
  <2>6. CASE Fetch
    BY <2>6, FetchKeepsInv
  <2>7. CASE OutOfPages \/ RequestFails \/ Report
    BY <2>7, EndKeepsInv
  <2>8. CASE UNCHANGED vars
    <3>1. /\ chain' = chain /\ genesis' = genesis /\ latest' = latest /\ oldest' = oldest
          /\ seal' = seal /\ run' = run
      BY <2>8 DEF vars
    <3>2. Mine' = Mine /\ ChainInv'
      BY <3>1, LedgerStill
    <3>3. TypeOK'
      BY <3>1 DEF AuditInv, TypeOK
    <3>4. ScanInv'
      BY <3>1 DEF AuditInv, ScanInv
    <3>5. CalmInv'
      BY <3>1, <3>2 DEF AuditInv, CalmInv
    <3>6. ReportInv'
      BY <3>1, <3>2 DEF AuditInv, ReportInv, After
    <3> QED BY <3>2, <3>3, <3>4, <3>5, <3>6 DEF AuditInv
  <2> QED BY <2>1, <2>2, <2>3, <2>4, <2>5, <2>6, <2>7, <2>8 DEF Next, Advance
<1> QED BY <1>1, <1>2, PTL DEF Spec

\* Every run is a run of the scan's variables as declared (audit.rs:256-334).
THEOREM AuditTypeCorrect == Spec => []TypeOK
<1>1. AuditInv => TypeOK
  BY DEF AuditInv
<1> QED BY <1>1, AuditInvariant, PTL

-----------------------------------------------------------------------------
(***************************************************************************)
(* The verdict                                                             *)
(***************************************************************************)

\* The events of this contract.
Upgrades == {chain[i] : i \in Mine}

LEMMA ScannedEvents ==
  ASSUME AuditInv
  PROVE  /\ Scanned \in Seq(Upgrades) /\ Len(Scanned) = Len(run.got) /\ Len(run.got) \in Nat
         /\ \A k \in 1..Len(run.got) : Scanned[k] = chain[run.got[k]] /\ run.got[k] \in Mine
         /\ \A e \in Upgrades : EventOf(e, Wasms)
<1> USE DEF AuditInv
<1> DEFINE n == Len(run.got)
           e(k) == chain[run.got[k]]
<1>1. n \in Nat /\ \A k \in 1..n : run.got[k] \in Mine
  BY DEF TypeOK, Runs, Mine
<1>2. \A k \in 1..n : e(k) \in Upgrades
  BY <1>1 DEF Upgrades
<1>3. Scanned = [k \in 1..n |-> e(k)]
  BY DEF Scanned
<1>4. ASSUME NEW i \in Mine PROVE EventOf(chain[i], Wasms)
  <2>1. chain[i] \in Events
    BY DEF TypeOK, Mine
  <2>2. chain[i].ledger \in Nat
    BY <2>1 DEF Events
  <2> QED BY <2>2 DEF EventOf, ChainInv
<1>5. [k \in 1..n |-> e(k)] \in Seq(Upgrades) /\ Len([k \in 1..n |-> e(k)]) = n
  <2> HIDE DEF n, e
  <2> QED BY <1>1, <1>2
<1>6. \A k \in 1..n : [j \in 1..n |-> e(j)][k] = e(k)
  OBVIOUS
<1>7. \A u \in Upgrades : EventOf(u, Wasms)
  BY <1>4 DEF Upgrades
<1> HIDE DEF n
<1> QED BY <1>1, <1>3, <1>5, <1>6, <1>7 DEF n

LEMMA CurIsAfter ==
  ASSUME AuditInv, run.pc = "report"
  PROVE  /\ run.cur = After({i \in Mine : i <= run.top}) /\ run.cur \in Wasms
         /\ run.top \in Nat /\ run.top <= Len(chain) /\ Len(chain) \in Nat
<1>1. run.cur = After({i \in Mine : i <= run.top})
  BY DEF AuditInv, ReportInv
<1>2. After({i \in Mine : i <= run.top}) \in Wasms
  BY AfterUpgrades DEF AuditInv
<1> QED BY <1>1, <1>2 DEF AuditInv, TypeOK, Runs

\* The exit code speaks of the ledger as it is (main.rs:838-839, 524), for every
\* history of the ledger and whatever the scan has missed of it.
THEOREM VerdictIsSound == Spec => []VerdictFollowsLedger
<1>1. AuditInv => VerdictFollowsLedger
  <2> SUFFICES ASSUME AuditInv, run.pc = "report", Mine \subseteq 1..run.top
               PROVE  Passes <=> IF run.cli = "verify" THEN Live = run.want
                                 ELSE seal = NoSeal \/ Live \in seal
    BY DEF VerdictFollowsLedger
  <2>1. run.cur = Live /\ run.cur \in Wasms
    <3>1. {i \in Mine : i <= run.top} = Mine
      <4>1. run.top \in Nat /\ \A i \in Mine : i \in 1..run.top
        BY CurIsAfter
      <4>2. \A i \in Mine : i <= run.top
        BY <4>1
      <4> QED BY <4>2
    <3> QED BY <3>1, CurIsAfter DEF Live
  <2>2. run.cli \in {"audit", "verify"}
    BY DEF AuditInv, ScanInv
  <2>3. CurrentAttested(Scanned, run.cur, seal) <=> run.cur \in seal
    BY <2>1, ScannedEvents, CurrentIsDeployed
  <2>4. CASE run.cli = "verify"
    BY <2>1, <2>4 DEF Passes
  <2>5. CASE run.cli = "audit"
    BY <2>1, <2>3, <2>5 DEF Passes
  <2> QED BY <2>2, <2>4, <2>5
<1> QED BY <1>1, AuditInvariant, PTL

-----------------------------------------------------------------------------
(***************************************************************************)
(* The order of a report                                                   *)
(***************************************************************************)
WasmAt(k) == IF k = 0 THEN genesis ELSE chain[k].new
Newest(s) == IF s = {} THEN 0 ELSE Max(s)

LEMMA NewestUpgrade ==
  ASSUME AuditInv, NEW s, s \subseteq Mine
  PROVE  /\ Newest(s) \in {0} \cup s /\ Newest(s) \in Nat /\ \A i \in s : i <= Newest(s)
         /\ After(s) = WasmAt(Newest(s))
<1>1. s \subseteq 1..Len(chain)
  BY DEF Mine
<1>2. CASE s = {}
  BY <1>2, AfterUpgrades DEF AuditInv, Newest, WasmAt
<1>3. CASE s # {}
  <2>1. Max(s) \in s /\ (\A i \in s : i <= Max(s)) /\ After(s) = chain[Max(s)].new
    BY <1>3, AfterUpgrades DEF AuditInv
  <2>2. Newest(s) = Max(s)
    BY <1>3 DEF Newest
  <2>3. Max(s) \in Nat /\ Max(s) # 0
    <3> DEFINE m == Max(s)
    <3>1. m \in 1..Len(chain)
      BY <1>1, <2>1
    <3> HIDE DEF m
    <3>2. m \in Nat /\ m # 0
      BY <3>1
    <3> QED BY <3>2 DEF m
  <2> QED BY <2>1, <2>2, <2>3 DEF WasmAt
<1> QED BY <1>2, <1>3

\* When the wasm of a row of the report was deployed: before the first event
\* collected, with each of them, or last before the deployed wasm was read.
Moment(r) ==
  LET n == Len(run.got)
  IN  IF r = 1 /\ n > 0 THEN Newest({i \in Mine : i < run.got[1]})
      ELSE IF r \in 2..n \/ (r = n + 1 /\ n > 0) THEN run.got[r - 1]
      ELSE Newest({i \in Mine : i <= run.top})

LEMMA RowMoments ==
  ASSUME AuditInv, run.pc = "report"
  PROVE  LET rows == Rows(Scanned, run.cur)
         IN  /\ rows \in Seq(RowsOf(Wasms))
             /\ \A r \in 1..Len(rows) :
                  Moment(r) \in {0} \cup Mine /\ rows[r].wasm = WasmAt(Moment(r))
             /\ \A r, t \in 1..Len(rows) : r < t => Moment(r) < Moment(t)
<1> DEFINE rows == Rows(Scanned, run.cur)
           got == run.got
           n == Len(got)
           last == Newest({i \in Mine : i <= run.top})
           before == Newest({i \in Mine : i < got[1]})
<1>1. /\ Scanned \in Seq(Upgrades) /\ Len(Scanned) = n /\ n \in Nat
      /\ \A k \in 1..n : Scanned[k] = chain[got[k]] /\ got[k] \in Mine
      /\ \A e \in Upgrades : EventOf(e, Wasms)
  BY ScannedEvents
<1>2. \A i \in Mine : i \in Nat /\ i # 0
  BY DEF Mine
<1>3. /\ last \in {0} \cup Mine /\ last \in Nat /\ run.cur = WasmAt(last) /\ run.cur \in Wasms
      /\ \A i \in Mine : i <= run.top => i <= last
  <2> DEFINE s == {i \in Mine : i <= run.top}
  <2>1. s \subseteq Mine
    OBVIOUS
  <2>2. run.cur = After(s) /\ run.cur \in Wasms
    BY CurIsAfter
  <2>3. \A i \in Mine : i <= run.top => i \in s
    OBVIOUS
  <2>4. last = Newest(s)
    OBVIOUS
  <2> HIDE DEF s, last
  <2>5. Newest(s) \in {0} \cup s /\ Newest(s) \in Nat /\ (\A i \in s : i <= Newest(s))
        /\ After(s) = WasmAt(Newest(s))
    BY <2>1, NewestUpgrade
  <2> QED BY <2>1, <2>2, <2>3, <2>4, <2>5
<1>4. CASE n = 0
  <2>1. Scanned = <<>>
    BY <1>1, <1>4
  <2>2. rows = <<Row(run.cur, 0, 0, TRUE)>> /\ rows \in Seq(RowsOf(Wasms))
    BY <1>3, <2>1, RowsOfNoEvents
  <2>3. Row(run.cur, 0, 0, TRUE).wasm = run.cur
    BY DEF Row
  <2>4. \A r \in 1..1 : Moment(r) = last
    <3> HIDE DEF last
    <3> QED BY <1>4 DEF Moment, last
  <2> HIDE DEF rows, last
  <2>5. Len(rows) = 1 /\ rows[1].wasm = run.cur
    BY <2>2, <2>3
  <2>6. \A r \in 1..Len(rows) :
          Moment(r) \in {0} \cup Mine /\ rows[r].wasm = WasmAt(Moment(r))
    BY <1>3, <2>4, <2>5
  <2>7. \A r, t \in 1..Len(rows) : r < t => Moment(r) < Moment(t)
    BY <2>5
  <2> QED BY <2>2, <2>6, <2>7 DEF rows
<1>5. CASE n > 0
  <2>1. Scanned # <<>>
    BY <1>1, <1>5
  <2>2. RowPerEvent(rows, Scanned, run.cur, Wasms)
    BY <1>1, <1>3, <2>1, RowsOfEvents
  <2> DEFINE same == Scanned[n].new = run.cur
  <2>3. /\ rows \in Seq(RowsOf(Wasms)) /\ Len(rows) = n + (IF same THEN 1 ELSE 2)
        /\ rows[1] = Row(Scanned[1].old, 0, Scanned[1].ledger, FALSE)
        /\ \A i \in 1..n : rows[i + 1].wasm = Scanned[i].new
        /\ ~same => rows[n + 2] = Row(run.cur, 0, 0, TRUE)
    <3> HIDE DEF rows
    <3> QED BY <1>1, <2>2 DEF RowPerEvent
  <2>4. got[1] \in Mine /\ got[n] \in Mine
    BY <1>1, <1>5
  <2>5. /\ before \in {0} \cup Mine /\ before < got[1] /\ rows[1].wasm = WasmAt(before)
    <3> DEFINE s == {i \in Mine : i < got[1]}
    <3>1. s \subseteq Mine /\ before = Newest(s) /\ \A i \in s : i < got[1]
      OBVIOUS
    <3>2. chain[got[1]].old = After(s)
      BY <2>4 DEF AuditInv, ChainInv
    <3>3. rows[1].wasm = chain[got[1]].old
      <4>1. Scanned[1] = chain[got[1]]
        BY <1>1, <1>5
      <4> HIDE DEF rows
      <4> QED BY <2>3, <4>1 DEF Row
    <3> HIDE DEF s, before, rows
    <3>4. Newest(s) \in {0} \cup s /\ After(s) = WasmAt(Newest(s))
      BY <3>1, NewestUpgrade
    <3> QED BY <1>2, <2>4, <3>1, <3>2, <3>3, <3>4
  <2>6. got[n] <= last
    <3>1. got[n] <= run.top
      BY <1>1, <1>5 DEF AuditInv, ReportInv
    <3> HIDE DEF last
    <3> QED BY <1>3, <2>4, <3>1
  <2>7. \A k \in 1..n : rows[k + 1].wasm = WasmAt(got[k])
    <3> HIDE DEF rows
    <3> QED BY <1>1, <1>2, <2>3 DEF WasmAt
  <2>8. ~same => rows[n + 2].wasm = WasmAt(last) /\ got[n] < last
    <3> SUFFICES ASSUME ~same PROVE rows[n + 2].wasm = WasmAt(last) /\ got[n] < last
      OBVIOUS
    <3>1. rows[n + 2].wasm = run.cur
      <4> HIDE DEF rows
      <4> QED BY <2>3 DEF Row
    <3>2. WasmAt(got[n]) # run.cur
      <4>1. Scanned[n] = chain[got[n]]
        BY <1>1, <1>5
      <4> QED BY <1>2, <2>4, <4>1 DEF WasmAt
    <3> HIDE DEF rows, last, got
    <3>3. got[n] # last
      BY <1>3, <3>2
    <3>4. got[n] < last
      BY <1>2, <1>3, <2>4, <2>6, <3>3
    <3> QED BY <1>3, <3>1, <3>4
  <2>9. Moment(1) = before
    BY <1>1, <1>5 DEF Moment
  <2>10. \A k \in 1..n : Moment(k + 1) = got[k]
    BY <1>1 DEF Moment
  <2>11. Moment(n + 2) = last
    BY <1>1 DEF Moment
  <2>12. \A k, l \in 1..n : k < l => got[k] < got[l]
    BY DEF AuditInv, ScanInv
  <2> HIDE DEF rows, last, before, got, same
  <2> HIDE DEF n
  <2>13. ASSUME NEW r \in 1..Len(rows)
         PROVE  r = 1 \/ (r - 1 \in 1..n /\ r = (r - 1) + 1) \/ (r = n + 2 /\ ~same)
    BY <1>1, <1>5, <2>3
  <2>14. ASSUME NEW r \in 1..Len(rows)
         PROVE  Moment(r) \in {0} \cup Mine /\ rows[r].wasm = WasmAt(Moment(r))
    <3>1. CASE r = 1
      BY <2>5, <2>9, <3>1
    <3>2. CASE r - 1 \in 1..n /\ r = (r - 1) + 1
      <4>1. Moment(r) = got[r - 1] /\ rows[r].wasm = WasmAt(got[r - 1])
        BY <2>7, <2>10, <3>2
      <4> QED BY <1>1, <3>2, <4>1
    <3>3. CASE r = n + 2 /\ ~same
      BY <1>3, <2>8, <2>11, <3>3
    <3> QED BY <2>13, <3>1, <3>2, <3>3
  <2>15. \A k \in 1..n : got[1] <= got[k] /\ got[k] <= got[n] /\ got[k] \in Int
    BY <1>1, <1>2, <1>5, <2>12
  <2>16. ASSUME NEW r \in 1..Len(rows), NEW t \in 1..Len(rows), r < t
         PROVE  Moment(r) < Moment(t)
    <3>1. CASE r = 1 /\ t - 1 \in 1..n /\ t = (t - 1) + 1
      <4>1. Moment(t) = got[t - 1]
        BY <2>10, <3>1
      <4> QED BY <1>2, <2>4, <2>5, <2>9, <2>15, <3>1, <4>1
    <3>2. CASE r = 1 /\ t = n + 2 /\ ~same
      <4>1. before < got[1] /\ got[1] <= got[n] /\ got[n] < last /\ before \in Int
            /\ got[1] \in Int /\ got[n] \in Int /\ last \in Int
        BY <1>1, <1>2, <1>3, <1>5, <2>4, <2>5, <2>8, <2>15, <3>2
      <4> QED BY <2>9, <2>11, <3>2, <4>1
    <3>3. CASE /\ r - 1 \in 1..n /\ r = (r - 1) + 1 /\ t - 1 \in 1..n /\ t = (t - 1) + 1
      <4>1. Moment(r) = got[r - 1] /\ Moment(t) = got[t - 1] /\ r - 1 < t - 1
        BY <2>10, <2>16, <3>3
      <4> QED BY <2>12, <3>3, <4>1
    <3>4. CASE r - 1 \in 1..n /\ r = (r - 1) + 1 /\ t = n + 2 /\ ~same
      <4>1. Moment(r) = got[r - 1] /\ got[r - 1] <= got[n] /\ got[n] < last
            /\ got[r - 1] \in Int /\ got[n] \in Int /\ last \in Int
        BY <1>1, <1>2, <1>3, <1>5, <2>4, <2>8, <2>10, <2>15, <3>4
      <4> QED BY <2>11, <3>4, <4>1
    <3>5. ~(t = 1) /\ ~(r = n + 2)
      BY <1>1, <2>3, <2>16
    <3> QED BY <2>13, <3>1, <3>2, <3>3, <3>4, <3>5
  <2> QED BY <2>3, <2>14, <2>16 DEF rows
<1> QED BY <1>1, <1>4, <1>5

\* The versions of a report were all deployed, in the order it gives them
\* (audit.rs:338-450), whatever happens between the requests of the audit.
THEOREM LineageIsInOrder == Spec => []LineageInOrder
<1>1. AuditInv => LineageInOrder
  <2> SUFFICES ASSUME AuditInv, AtReport("audit") PROVE LineageInOrder
    BY DEF LineageInOrder
  <2> DEFINE rows == Rows(Scanned, run.cur)
             v == Reported
             wasm(k) == IF k = 0 THEN genesis ELSE chain[k].new
  <2>1. run.pc = "report"
    BY DEF AtReport
  <2>2. /\ rows \in Seq(RowsOf(Wasms))
        /\ \A r \in 1..Len(rows) :
             Moment(r) \in {0} \cup Mine /\ rows[r].wasm = wasm(Moment(r))
        /\ \A r, t \in 1..Len(rows) : r < t => Moment(r) < Moment(t)
    BY <2>1, RowMoments DEF WasmAt
  <2>3. Condenses(v, rows, Len(rows), Wasms)
    <3> HIDE DEF rows
    <3>1. Condenses(CollapseNoops(rows), rows, Len(rows), Wasms)
      BY <2>2, CollapseCondenses
    <3> QED BY <3>1 DEF Reported, Versions, rows
  <2>4. Len(rows) \in Nat
    BY <2>2
  <2> HIDE DEF rows, v, wasm
  <2>5. v \in Seq(RowsOf(Wasms)) /\ Len(v) \in Nat
    BY <2>3 DEF Condenses
  <2>6. PICK g \in [1..Len(v) -> 1..Len(rows)] :
          /\ \A k \in 1..Len(v) : v[k].wasm = rows[g[k]].wasm
          /\ \A k, l \in 1..Len(v) : k < l => g[k] < g[l]
    BY <2>3 DEF Condenses
  <2> DEFINE at == [i \in 1..Len(v) |-> Moment(g[i])]
  <2>7. at \in [1..Len(v) -> {0} \cup Mine]
    BY <2>2, <2>6
  <2>8. ASSUME NEW i \in 1..Len(v) PROVE v[i].wasm = wasm(at[i])
    BY <2>2, <2>6
  <2>9. ASSUME NEW i \in 1..Len(v), i > 1 PROVE at[i - 1] < at[i]
    <3>1. i - 1 \in 1..Len(v) /\ i - 1 < i
      BY <2>5, <2>9
    <3>2. g[i - 1] < g[i] /\ g[i - 1] \in 1..Len(rows) /\ g[i] \in 1..Len(rows)
      BY <2>6, <3>1
    <3>3. Moment(g[i - 1]) < Moment(g[i])
      BY <2>2, <3>2
    <3> QED BY <3>1, <3>3
  <2> HIDE DEF at
  <2>10. \E f \in [1..Len(v) -> {0} \cup Mine] :
           \A i \in 1..Len(v) : v[i].wasm = wasm(f[i]) /\ (i > 1 => f[i - 1] < f[i])
    BY <2>7, <2>8, <2>9
  <2> QED BY <2>10 DEF LineageInOrder, v, wasm
<1> QED BY <1>1, AuditInvariant, PTL

-----------------------------------------------------------------------------
(***************************************************************************)
(* Consistent reports                                                      *)
(***************************************************************************)

\* The collected events that changed the wasm are those at positions C.
Collects(C) ==
  /\ C \subseteq Mine
  /\ \A k \in 1..Len(run.got) : run.got[k] \in C <=> k \in Turns(Scanned)
  /\ \A i \in C : \E k \in 1..Len(run.got) : run.got[k] = i

LEMMA TurnsCollected ==
  ASSUME AuditInv, NEW C, Collects(C)
  PROVE  LET m == Cardinality(C)
             A == Ascending(Turns(Scanned))
         IN  /\ m \in Nat /\ Cardinality(Turns(Scanned)) = m /\ Ascending(C) \in [1..m -> C]
             /\ \A k \in 1..m : Scanned[A[k]] = chain[Ascending(C)[k]]
<1> DEFINE got == run.got
           n == Len(got)
           D == Turns(Scanned)
           A == Ascending(D)
           m == Cardinality(D)
           f == [k \in 1..m |-> got[A[k]]]
<1>1. /\ n \in Nat /\ Len(Scanned) = n
      /\ \A k \in 1..n : Scanned[k] = chain[got[k]] /\ got[k] \in Mine
      /\ \A k, l \in 1..n : k < l => got[k] < got[l]
  BY ScannedEvents DEF AuditInv, ScanInv
<1>2. D \subseteq 1..n
  BY <1>1 DEF Turns
<1>3. /\ m \in Nat /\ A \in [1..m -> D]
      /\ \A k, l \in 1..m : k < l => A[k] < A[l]
      /\ \A i \in D : UpTo(D, i) \in 1..m /\ A[UpTo(D, i)] = i
  <2> HIDE DEF D
  <2> QED BY <1>1, <1>2, AscendingProperties
<1>4. \A k \in 1..n : got[k] \in C <=> k \in D
  BY DEF Collects
<1>5. C \subseteq 1..Len(chain) /\ Len(chain) \in Nat
  BY DEF Collects, Mine, AuditInv, TypeOK
<1>6. \A i \in C : \E k \in 1..n : got[k] = i
  BY DEF Collects
<1> HIDE DEF got, n, D, A, m
<1>7. f \in [1..m -> C]
  <2>1. \A k \in 1..m : got[A[k]] \in C
    BY <1>2, <1>3, <1>4
  <2> QED BY <2>1
<1>8. ASSUME NEW k \in 1..m, NEW l \in 1..m, k < l PROVE f[k] < f[l]
  <2>1. A[k] \in 1..n /\ A[l] \in 1..n /\ A[k] < A[l]
    BY <1>2, <1>3, <1>8
  <2> QED BY <1>1, <2>1
<1>9. ASSUME NEW i \in C PROVE \E k \in 1..m : f[k] = i
  <2>1. PICK j \in 1..n : got[j] = i
    BY <1>6
  <2>2. j \in D
    BY <1>4, <2>1
  <2>3. UpTo(D, j) \in 1..m /\ A[UpTo(D, j)] = j
    BY <1>3, <2>2
  <2> QED BY <2>1, <2>3
<1>10. Cardinality(C) = m /\ Ascending(C) = f
  <2> HIDE DEF f
  <2>1. \A k, l \in 1..m : k < l => f[k] < f[l]
    BY <1>8
  <2>2. \A i \in C : \E k \in 1..m : f[k] = i
    BY <1>9
  <2> DEFINE L == Len(chain)
  <2>3. L \in Nat /\ C \subseteq 1..L /\ m \in Nat /\ f \in [1..m -> C]
    BY <1>3, <1>5, <1>7
  <2> HIDE DEF L
  <2> QED BY <2>1, <2>2, <2>3, AscendingUnique
<1>11. \A k \in 1..m : Scanned[A[k]] = chain[f[k]]
  <2>1. \A k \in 1..m : A[k] \in 1..n
    BY <1>2, <1>3
  <2> QED BY <1>1, <2>1
<1> QED BY <1>3, <1>7, <1>10, <1>11 DEF m, A, D

\* The rows of a history whose changes are at positions C and that began with
\* wasm w.
Lived(C, w) ==
  LET m == Cardinality(C)
      turn == Ascending(C)
  IN  [i \in 1..(m + 1) |->
         Row(IF i = 1 THEN w ELSE chain[turn[i - 1]].new,
             IF i = 1 THEN 0 ELSE chain[turn[i - 1]].ledger,
             IF i = m + 1 THEN 0 ELSE chain[turn[i]].ledger, i = m + 1)]

LEMMA ConsistentReport ==
  ASSUME AuditInv, run.pc = "report", ChainConsistent(Scanned, run.cur), NEW C, Collects(C)
  PROVE  Reported = Lived(C, IF Scanned = <<>> THEN run.cur ELSE Scanned[1].old)
<1> DEFINE m == Cardinality(C)
           turn == Ascending(C)
           A == Ascending(Turns(Scanned))
           w == IF Scanned = <<>> THEN run.cur ELSE Scanned[1].old
           told(i) == TurnWasm(Scanned, run.cur, i)
           since(i) == TurnFrom(Scanned, i)
           till(i) == IF i = m + 1 THEN 0 ELSE Scanned[A[i]].ledger
<1>1. /\ m \in Nat /\ Cardinality(Turns(Scanned)) = m
      /\ \A k \in 1..m : Scanned[A[k]] = chain[turn[k]]
  BY TurnsCollected
<1>2. Reported = [i \in 1..(m + 1) |-> Row(told(i), since(i), till(i), i = m + 1)]
  <2>1. Reported = OneVersionPerTurn(Scanned, run.cur)
    BY ScannedEvents, CurIsAfter, ConsistentLineage DEF Reported
  <2> HIDE DEF m
  <2> QED BY <1>1, <2>1 DEF OneVersionPerTurn
<1>3. ASSUME NEW i \in 1..(m + 1)
      PROVE  /\ told(i) = (IF i = 1 THEN w ELSE chain[turn[i - 1]].new)
             /\ since(i) = (IF i = 1 THEN 0 ELSE chain[turn[i - 1]].ledger)
             /\ till(i) = (IF i = m + 1 THEN 0 ELSE chain[turn[i]].ledger)
  <2>1. CASE i = 1
    <3>1. told(i) = w /\ since(i) = 0
      BY <2>1 DEF TurnWasm, TurnFrom
    <3>2. i = m + 1 \/ i \in 1..m
      BY <1>1
    <3> HIDE DEF m, turn, A, told, since, w
    <3> QED BY <1>1, <2>1, <3>1, <3>2
  <2>2. CASE i # 1
    <3>1. i - 1 \in 1..m /\ (i = m + 1 \/ i \in 1..m)
      BY <1>1, <2>2
    <3>2. told(i) = Scanned[A[i - 1]].new /\ since(i) = Scanned[A[i - 1]].ledger
      BY <2>2 DEF TurnWasm, TurnFrom
    <3> HIDE DEF m, turn, A, told, since
    <3> QED BY <1>1, <2>2, <3>1, <3>2
  <2> QED BY <2>1, <2>2
<1>4. Lived(C, w) = [i \in 1..(m + 1) |->
                       Row(IF i = 1 THEN w ELSE chain[turn[i - 1]].new,
                           IF i = 1 THEN 0 ELSE chain[turn[i - 1]].ledger,
                           IF i = m + 1 THEN 0 ELSE chain[turn[i]].ledger, i = m + 1)]
  BY DEF Lived
<1> HIDE DEF told, since, till, w, m, turn
<1>5. [i \in 1..(m + 1) |-> Row(told(i), since(i), till(i), i = m + 1)] = Lived(C, w)
  BY <1>3, <1>4
<1> QED BY <1>2, <1>5 DEF w

LEMMA AfterLast ==
  ASSUME AuditInv, NEW s, s \subseteq Mine, NEW x \in s, \A y \in s : y <= x
  PROVE  After(s) = chain[x].new
<1>1. \A y \in s : y \in Int
  BY DEF Mine
<1>2. Max(s) = x
  BY <1>1, MaxIs
<1> QED BY <1>2, AfterUpgrades DEF AuditInv

\* If nothing moved and no upgrade came after the window, every upgrade since
\* its first ledger has been collected, and each event follows the one before.
CalmScan ==
  /\ AuditInv /\ AtReport("audit") /\ run.calm
  /\ \A i \in Mine : chain[i].ledger <= run.last

LEMMA CalmCollected ==
  ASSUME CalmScan
  PROVE  /\ \A k \in 1..Len(run.got) : /\ run.got[k] \in Mine /\ run.got[k] \in Int
                                      /\ chain[run.got[k]].ledger >= run.first
         /\ \A i \in Mine : i \in Int /\ chain[i].ledger \in Int /\ run.first \in Int
         /\ \A i \in Mine : chain[i].ledger >= run.first =>
              \E k \in 1..Len(run.got) : run.got[k] = i
         /\ run.cur = After(Mine)
<1> USE DEF CalmScan, AuditInv
<1>1. \A k \in 1..Len(run.got) : run.got[k] \in Mine
  BY ScannedEvents
<1>2. \A k \in 1..Len(run.got) : chain[run.got[k]].ledger >= run.first
  BY DEF CalmInv, AtReport
<1>3. ASSUME NEW i \in Mine
      PROVE  i \in Int /\ chain[i].ledger \in Int /\ run.first \in Int /\ run.last \in Int
  <2>1. i \in Int /\ chain[i] \in Events
    BY DEF Mine, TypeOK
  <2>2. chain[i].ledger \in Int
    BY <2>1 DEF Events
  <2> QED BY <2>1, <2>2, ConstantsAssumption DEF TypeOK, Runs
<1>4. ASSUME NEW i \in Mine, chain[i].ledger >= run.first
      PROVE  \E k \in 1..Len(run.got) : run.got[k] = i
  <2>1. chain[i].ledger \in run.first..run.last
    BY <1>3, <1>4
  <2> QED BY <2>1 DEF CalmInv, AtReport
<1>5. run.cur = After(Mine)
  <2>1. \A i \in Mine : i <= run.top
    BY DEF ReportInv, AtReport
  <2>2. {i \in Mine : i <= run.top} = Mine
    BY <2>1
  <2> QED BY <2>2, CurIsAfter DEF AtReport
<1>6. \A k \in 1..Len(run.got) : run.got[k] \in Int
  BY <1>1, <1>3
<1> QED BY <1>1, <1>2, <1>3, <1>4, <1>5, <1>6

LEMMA CalmIsConsistent ==
  ASSUME CalmScan
  PROVE  ChainConsistent(Scanned, run.cur)
<1> DEFINE got == run.got
           n == Len(got)
<1>1. AuditInv
  BY DEF CalmScan
<1>2. /\ n \in Nat /\ Len(Scanned) = n
      /\ \A k \in 1..n : Scanned[k] = chain[got[k]]
      /\ \A k, l \in 1..n : k < l => got[k] < got[l]
  BY <1>1, ScannedEvents DEF AuditInv, ScanInv
<1>3. /\ \A k \in 1..n : got[k] \in Mine /\ got[k] \in Int /\ chain[got[k]].ledger >= run.first
      /\ \A i \in Mine : i \in Int /\ chain[i].ledger \in Int /\ run.first \in Int
      /\ \A i \in Mine : chain[i].ledger >= run.first => \E k \in 1..n : got[k] = i
      /\ run.cur = After(Mine)
  BY CalmCollected
<1> HIDE DEF got, n
<1>4. ASSUME NEW k \in 1..n, NEW i \in Mine, i >= got[k]
      PROVE  \E l \in 1..n : got[l] = i /\ l >= k
  <2>1. chain[got[k]].ledger <= chain[i].ledger
    <3>1. i = got[k] \/ got[k] < i
      BY <1>3, <1>4
    <3>2. i \in 1..Len(chain) /\ got[k] \in 1..Len(chain)
      BY <1>3 DEF Mine
    <3>3. got[k] < i => chain[got[k]].ledger <= chain[i].ledger
      BY <1>1, <3>2 DEF AuditInv, ChainInv
    <3>4. chain[i].ledger \in Int
      BY <1>3
    <3> QED BY <3>1, <3>3, <3>4
  <2>2. got[k] \in Mine /\ chain[got[k]].ledger >= run.first
    BY <1>3
  <2>3. chain[i].ledger >= run.first
    BY <1>3, <2>1, <2>2
  <2>4. PICK l \in 1..n : got[l] = i
    BY <1>3, <2>3
  <2>5. l < k => got[l] < got[k]
    BY <1>2
  <2>6. l >= k
    BY <1>2, <1>3, <1>4, <2>4, <2>5
  <2> QED BY <2>4, <2>6
<1>5. ASSUME NEW k \in 1..(n - 1)
      PROVE  Scanned[k].new = Scanned[k + 1].old
  <2> DEFINE s == {j \in Mine : j < got[k + 1]}
  <2>1. k \in 1..n /\ k + 1 \in 1..n
    BY <1>2
  <2>2. got[k] \in s
    BY <1>2, <1>3, <2>1
  <2>3. ASSUME NEW j \in s PROVE j <= got[k]
    <3>1. SUFFICES ASSUME j >= got[k] PROVE j <= got[k]
      BY <1>3, <2>1
    <3>2. PICK l \in 1..n : got[l] = j /\ l >= k
      BY <1>4, <2>1, <3>1
    <3>3. ~(l >= k + 1)
      <4>1. l > k + 1 => got[k + 1] < got[l]
        BY <1>2, <2>1
      <4> QED BY <1>2, <1>3, <2>1, <3>2, <4>1
    <3>4. l = k
      BY <1>2, <2>1, <3>2, <3>3
    <3> QED BY <1>3, <3>2, <3>4
  <2>4. chain[got[k + 1]].old = After(s)
    BY <1>1, <1>3, <2>1 DEF AuditInv, ChainInv
  <2>5. After(s) = chain[got[k]].new
    <3>1. s \subseteq Mine
      OBVIOUS
    <3> HIDE DEF s
    <3> QED BY <1>1, <2>2, <2>3, <3>1, AfterLast
  <2> QED BY <1>2, <2>1, <2>4, <2>5
<1>6. ASSUME n # 0 PROVE Scanned[n].new = run.cur
  <2>1. n \in 1..n /\ got[n] \in Mine
    BY <1>2, <1>3, <1>6
  <2>2. ASSUME NEW j \in Mine PROVE j <= got[n]
    <3>1. SUFFICES ASSUME j >= got[n] PROVE j <= got[n]
      BY <1>3, <2>1
    <3>2. PICK l \in 1..n : got[l] = j /\ l >= n
      BY <1>4, <2>1, <3>1
    <3> QED BY <1>2, <1>3, <2>1, <3>2
  <2>3. After(Mine) = chain[got[n]].new
    BY <1>1, <2>1, <2>2, AfterLast
  <2> QED BY <1>2, <1>3, <2>1, <2>3
<1> QED BY <1>2, <1>5, <1>6 DEF ChainConsistent, Last

\* The true history, in the form of ConsistentReport.
LEMMA HistoryIsLived ==
  ASSUME AuditInv, NEW l, NEW k
  PROVE  History(l, k) = Lived({i \in Changes(k) : chain[i].ledger >= l},
                               After({p \in Mine : chain[p].ledger < l}))
<1> DEFINE C == {i \in Changes(k) : chain[i].ledger >= l}
           w == After({p \in Mine : chain[p].ledger < l})
           turn == Ascending(C)
           m == Cardinality(C)
           n == Len(turn)
           at(i) == IF i \in 1..n THEN chain[turn[i]].ledger ELSE 0
           wasm(i) == IF i = 0 THEN w ELSE chain[turn[i]].new
<1>1. History(l, k) = [i \in 1..(n + 1) |-> Row(wasm(i - 1), at(i - 1), at(i), i = n + 1)]
  BY DEF History
<1>2. m \in Nat /\ n = m
  <2>1. C \subseteq 1..Len(chain) /\ Len(chain) \in Nat
    BY DEF Changes, Mine, AuditInv, TypeOK
  <2> HIDE DEF C
  <2>2. m \in Nat /\ turn \in [1..m -> C]
    BY <2>1, AscendingProperties
  <2> HIDE DEF turn, m
  <2> QED BY <2>2
<1>3. ASSUME NEW i \in 1..(m + 1)
      PROVE  /\ wasm(i - 1) = (IF i = 1 THEN w ELSE chain[turn[i - 1]].new)
             /\ at(i - 1) = (IF i = 1 THEN 0 ELSE chain[turn[i - 1]].ledger)
             /\ at(i) = (IF i = m + 1 THEN 0 ELSE chain[turn[i]].ledger)
             /\ (i = n + 1) = (i = m + 1)
  <2> HIDE DEF n, m, turn, w
  <2>1. i = 1 <=> i - 1 = 0
    BY <1>2
  <2>2. i - 1 \in 1..n <=> i # 1
    BY <1>2
  <2>3. i \in 1..n <=> i # m + 1
    BY <1>2
  <2> QED BY <1>2, <2>1, <2>2, <2>3
<1>4. Lived(C, w) = [i \in 1..(m + 1) |->
                       Row(IF i = 1 THEN w ELSE chain[turn[i - 1]].new,
                           IF i = 1 THEN 0 ELSE chain[turn[i - 1]].ledger,
                           IF i = m + 1 THEN 0 ELSE chain[turn[i]].ledger, i = m + 1)]
  BY DEF Lived
<1> HIDE DEF n, m, turn, w, wasm, at
<1>5. [i \in 1..(n + 1) |-> Row(wasm(i - 1), at(i - 1), at(i), i = n + 1)] = Lived(C, w)
  BY <1>2, <1>3, <1>4
<1> QED BY <1>1, <1>5 DEF w

LEMMA CalmReport ==
  ASSUME CalmScan
  PROVE  Reported = History(run.first, Len(chain))
<1> DEFINE got == run.got
           n == Len(got)
           C == {i \in Changes(Len(chain)) : chain[i].ledger >= run.first}
           told == IF Scanned = <<>> THEN run.cur ELSE Scanned[1].old
           past == {p \in Mine : chain[p].ledger < run.first}
<1>1. AuditInv /\ run.pc = "report"
  BY DEF CalmScan, AtReport
<1>2. /\ n \in Nat /\ Len(Scanned) = n /\ (Scanned = <<>> <=> n = 0)
      /\ \A k \in 1..n : Scanned[k] = chain[got[k]]
      /\ \A k, l \in 1..n : k < l => got[k] < got[l]
  BY <1>1, ScannedEvents DEF AuditInv, ScanInv
<1>3. /\ \A k \in 1..n : got[k] \in Mine /\ got[k] \in Int /\ chain[got[k]].ledger >= run.first
      /\ \A i \in Mine : i \in Int /\ chain[i].ledger \in Int /\ run.first \in Int
      /\ \A i \in Mine : chain[i].ledger >= run.first => \E k \in 1..n : got[k] = i
      /\ run.cur = After(Mine)
  BY CalmCollected
<1>4. Mine \subseteq 1..Len(chain) /\ Len(chain) \in Nat
  BY <1>1 DEF Mine, AuditInv, TypeOK
<1>5. Collects(C)
  <2>1. C \subseteq Mine
    BY DEF Changes
  <2>2. ASSUME NEW k \in 1..n PROVE got[k] \in C <=> k \in Turns(Scanned)
    <3>1. got[k] \in Mine /\ got[k] <= Len(chain) /\ chain[got[k]].ledger >= run.first
      BY <1>3, <1>4
    <3>2. k \in Turns(Scanned) <=> chain[got[k]].old # chain[got[k]].new
      BY <1>2 DEF Turns
    <3> HIDE DEF got
    <3> QED BY <3>1, <3>2 DEF Changes
  <2>3. \A i \in C : \E k \in 1..n : got[k] = i
    BY <1>3 DEF Changes
  <2> QED BY <2>1, <2>2, <2>3 DEF Collects
<1>6. ChainConsistent(Scanned, run.cur)
  BY CalmIsConsistent
<1>7. told = After(past)
  <2>1. CASE n = 0
    <3>1. past = Mine
      <4>1. \A i \in Mine : chain[i].ledger < run.first
        BY <1>3, <2>1
      <4> QED BY <4>1
    <3> QED BY <1>2, <1>3, <2>1, <3>1
  <2>2. CASE n # 0
    <3>1. 1 \in 1..n /\ got[1] \in Mine
      BY <1>2, <1>3, <2>2
    <3>2. told = chain[got[1]].old
      BY <1>2, <2>2, <3>1
    <3>3. chain[got[1]].old = After({j \in Mine : j < got[1]})
      BY <1>1, <3>1 DEF AuditInv, ChainInv
    <3> HIDE DEF got, n
    <3>4. ASSUME NEW j \in Mine PROVE j < got[1] <=> chain[j].ledger < run.first
      <4>1. CASE chain[j].ledger >= run.first
        <5>1. PICK k \in 1..n : got[k] = j
          BY <1>3, <4>1
        <5>2. got[1] <= got[k]
          <6>1. k = 1 \/ 1 < k
            OBVIOUS
          <6> QED BY <1>2, <1>3, <3>1, <6>1
        <5> QED BY <1>3, <3>1, <4>1, <5>1, <5>2
      <4>2. CASE chain[j].ledger < run.first
        <5>1. got[1] < j => chain[got[1]].ledger <= chain[j].ledger
          BY <1>1, <1>4, <3>1 DEF AuditInv, ChainInv
        <5>2. chain[got[1]].ledger >= run.first /\ chain[got[1]].ledger \in Int
          BY <1>3, <3>1
        <5> QED BY <1>3, <3>1, <4>2, <5>1, <5>2
      <4> QED BY <1>3, <4>1, <4>2
    <3>5. {j \in Mine : j < got[1]} = past
      BY <3>4
    <3> HIDE DEF past
    <3> QED BY <3>2, <3>3, <3>5
  <2> QED BY <2>1, <2>2
<1>8. Reported = Lived(C, told)
  <2> HIDE DEF C
  <2> QED BY <1>1, <1>5, <1>6, ConsistentReport
<1>9. History(run.first, Len(chain)) = Lived(C, After(past))
  BY <1>1, HistoryIsLived
<1> HIDE DEF told, past, C
<1> QED BY <1>7, <1>8, <1>9

\* What a report lists is the history of the contract (audit.rs:250-255,
\* 338-450): if nothing moved, all of it since the first ledger of the window,
\* with when each version went live and was replaced, and no gap; and in any
\* case in order and nothing else.
THEOREM LineageIsTrue == Spec => []TrueLineage
<1>1. AuditInv => CalmLineage
  <2> SUFFICES ASSUME AuditInv, AtReport("audit"), run.calm,
                      \A i \in Mine : chain[i].ledger <= run.last
               PROVE  /\ Reported = History(run.first, Len(chain))
                      /\ ChainConsistent(Scanned, run.cur)
    BY DEF CalmLineage
  <2>1. CalmScan
    BY DEF CalmScan
  <2> QED BY <2>1, CalmReport, CalmIsConsistent
<1> QED BY <1>1, AuditInvariant, LineageIsInOrder, PTL DEF TrueLineage

-----------------------------------------------------------------------------
(***************************************************************************)
(* What the verdict "consistent" is worth                                  *)
(***************************************************************************)

\* A set of positions of which some come after all the others is enumerated by
\* the others first.
LEMMA AscendingSplit ==
  ASSUME NEW n \in Nat, NEW C, C \subseteq 1..n, NEW S, S \subseteq C,
         \A x \in C \ S, y \in S : x < y
  PROVE  /\ Cardinality(C) \in Nat /\ Cardinality(S) \in Nat
         /\ Cardinality(S) <= Cardinality(C)
         /\ \A k \in 1..Cardinality(S) :
              Ascending(C)[Cardinality(C) - Cardinality(S) + k] = Ascending(S)[k]
         /\ Cardinality(S) = Cardinality(C) => C \ S = {}
         /\ Cardinality(S) < Cardinality(C) =>
              /\ C \ S # {}
              /\ Ascending(C)[Cardinality(C) - Cardinality(S)] \in C \ S
              /\ \A x \in C \ S : x <= Ascending(C)[Cardinality(C) - Cardinality(S)]
<1> DEFINE R == C \ S
           r == Cardinality(R)
           m == Cardinality(S)
           A == Ascending(R)
           B == Ascending(S)
           f == [k \in 1..(r + m) |-> IF k <= r THEN A[k] ELSE B[k - r]]
<1>1. \A x \in C : x \in Int
  OBVIOUS
<1>2. R \subseteq 1..n /\ S \subseteq 1..n
  OBVIOUS
<1> HIDE DEF R
<1>3. /\ r \in Nat /\ A \in [1..r -> R]
      /\ \A i \in R : UpTo(R, i) \in 1..r /\ A[UpTo(R, i)] = i
      /\ \A k, l \in 1..r : k < l => A[k] < A[l]
  BY <1>2, AscendingProperties
<1>4. /\ m \in Nat /\ B \in [1..m -> S]
      /\ \A i \in S : UpTo(S, i) \in 1..m /\ B[UpTo(S, i)] = i
      /\ \A k, l \in 1..m : k < l => B[k] < B[l]
  BY <1>2, AscendingProperties
<1>5. C = R \cup S /\ \A x \in R, y \in S : x < y
  BY DEF R
<1> HIDE DEF r, m, A, B
<1>6. r + m \in Nat
  BY <1>3, <1>4
<1>7. ASSUME NEW k \in 1..(r + m)
      PROVE  /\ k <= r => k \in 1..r /\ f[k] = A[k] /\ f[k] \in R
             /\ k > r => k - r \in 1..m /\ f[k] = B[k - r] /\ f[k] \in S
  <2>1. CASE k <= r
    <3>1. k \in 1..r
      BY <1>3, <1>4, <2>1
    <3> QED BY <1>3, <2>1, <3>1
  <2>2. CASE k > r
    <3>1. k - r \in 1..m /\ ~(k <= r)
      BY <1>3, <1>4, <2>2
    <3>2. f[k] = B[k - r]
      BY <3>1
    <3> QED BY <1>3, <1>4, <2>2, <3>1, <3>2
  <2> QED BY <1>3, <1>4, <2>1, <2>2
<1>8. f \in [1..(r + m) -> C]
  <2> SUFFICES \A k \in 1..(r + m) : f[k] \in C
    OBVIOUS
  <2> QED BY <1>3, <1>4, <1>5, <1>7
<1> HIDE DEF f
<1>9. ASSUME NEW k \in 1..(r + m), NEW l \in 1..(r + m), k < l
      PROVE  f[k] < f[l]
  <2>1. CASE l <= r
    <3>1. k <= r
      BY <1>3, <1>4, <1>9, <2>1
    <3> QED BY <1>3, <1>7, <1>9, <2>1, <3>1
  <2>2. CASE k <= r /\ l > r
    BY <1>5, <1>7, <2>2
  <2>3. CASE k > r
    <3>1. l > r /\ k - r < l - r
      BY <1>3, <1>4, <1>9, <2>3
    <3>2. k - r \in 1..m /\ l - r \in 1..m /\ f[k] = B[k - r] /\ f[l] = B[l - r]
      BY <1>7, <2>3, <3>1
    <3> QED BY <1>4, <3>1, <3>2
  <2> QED BY <1>3, <1>4, <2>1, <2>2, <2>3
<1>10. ASSUME NEW i \in C PROVE \E k \in 1..(r + m) : f[k] = i
  <2>1. CASE i \in R
    <3>1. PICK k \in 1..r : A[k] = i
      BY <1>3, <2>1
    <3>2. k \in 1..(r + m) /\ k <= r
      BY <1>3, <1>4
    <3> QED BY <1>7, <3>1, <3>2
  <2>2. CASE i \in S
    <3>1. PICK k \in 1..m : B[k] = i
      BY <1>4, <2>2
    <3>2. r + k \in 1..(r + m) /\ r + k > r /\ (r + k) - r = k
      BY <1>3, <1>4
    <3> QED BY <1>7, <3>1, <3>2
  <2> QED BY <1>5, <2>1, <2>2
<1>11. Cardinality(C) = r + m /\ Ascending(C) = f
  BY <1>6, <1>8, <1>9, <1>10, AscendingUnique
<1>12. \A k \in 1..m : f[(r + m) - m + k] = B[k]
  <2> TAKE k \in 1..m
  <2>1. (r + m) - m + k \in 1..(r + m) /\ (r + m) - m + k > r /\ ((r + m) - m + k) - r = k
    BY <1>3, <1>4
  <2> QED BY <1>7, <2>1
<1>13. ASSUME r > 0 PROVE f[(r + m) - m] \in R /\ \A x \in R : x <= f[(r + m) - m]
  <2>1. (r + m) - m = r /\ r \in 1..(r + m) /\ r \in 1..r
    BY <1>3, <1>4, <1>13
  <2>2. f[r] = A[r] /\ A[r] \in R
    BY <1>3, <1>7, <2>1
  <2>3. ASSUME NEW x \in R PROVE x <= A[r]
    <3>1. PICK k \in 1..r : A[k] = x
      BY <1>3
    <3>2. k < r \/ k = r
      BY <1>3
    <3>3. A[k] \in Int /\ A[r] \in Int
      BY <1>1, <1>5, <2>2, <3>1
    <3> QED BY <1>3, <2>1, <3>1, <3>2, <3>3
  <2> QED BY <2>1, <2>2, <2>3
<1>14. r = 0 => R = {}
  BY <1>3
<1>15. m <= r + m /\ (m = r + m <=> r = 0) /\ (m < r + m <=> r > 0)
  BY <1>3, <1>4
<1> QED BY <1>3, <1>4, <1>6, <1>11, <1>12, <1>13, <1>14, <1>15 DEF m, r, B, R

\* If no wasm was ever deployed twice, different changes led to different ones.
LEMMA NoReturnMeans ==
  ASSUME AuditInv, NEW k, NoReturn(k),
         NEW x \in {0} \cup Changes(k), NEW y \in {0} \cup Changes(k), WasmAt(x) = WasmAt(y)
  PROVE  x = y
<1> DEFINE C == Changes(k)
           D == C \cup {0}
           T == {genesis} \cup {chain[i].new : i \in C}
           f == [z \in D |-> WasmAt(z)]
<1>1. C \subseteq 1..Len(chain) /\ Len(chain) \in Nat
  BY DEF Changes, Mine, AuditInv, TypeOK
<1>2. \A z \in C : z # 0
  BY <1>1
<1> HIDE DEF C
<1>3. IsFiniteSet(C) /\ Cardinality(C) \in Nat
  BY <1>1, RankProperties
<1>4. IsFiniteSet(D) /\ Cardinality(D) = Cardinality(C) + 1
  BY <1>2, <1>3, FS_AddElement
<1>5. Cardinality(T) = 1 + Cardinality(C)
  BY DEF NoReturn, C
<1>6. f \in Surjection(D, T)
  <2>1. \A z \in D : f[z] \in T
    BY <1>2 DEF WasmAt
  <2>2. \A t \in T : \E z \in D : f[z] = t
    <3> TAKE t \in T
    <3>1. CASE t = genesis
      <4>1. 0 \in D /\ f[0] = genesis
        BY DEF WasmAt
      <4> QED BY <3>1, <4>1
    <3>2. CASE t # genesis
      <4>1. PICK i \in C : t = chain[i].new
        BY <3>2
      <4>2. i \in D /\ f[i] = chain[i].new
        BY <1>2 DEF WasmAt
      <4> QED BY <4>1, <4>2
    <3> QED BY <3>1, <3>2
  <2>3. f \in [D -> T]
    BY <2>1
  <2> HIDE DEF f
  <2> QED BY <2>2, <2>3 DEF Surjection
<1>7. f \in Injection(D, T)
  <2>1. Cardinality(D) = Cardinality(T)
    BY <1>3, <1>4, <1>5
  <2> HIDE DEF f, D, T
  <2> QED BY <1>4, <1>6, <2>1, FS_SurjSameCardinalityImpliesInj
<1>8. x \in D /\ y \in D
  BY DEF C
<1>9. f[x] = f[y]
  BY <1>8
<1>10. \A a, b \in D : f[a] = f[b] => a = b
  <2> HIDE DEF f, D, T
  <2>1. f \in [D -> T] /\ IsInjective(f)
    BY <1>7 DEF Injection
  <2> QED BY <2>1 DEF IsInjective
<1> HIDE DEF f, D
<1> QED BY <1>8, <1>9, <1>10

\* Only a change changes what is deployed: after all upgrades up to position p
\* it is the wasm of the newest change among them.
LEMMA ChangesDecide ==
  ASSUME AuditInv, NEW k \in Nat, NEW p \in 0..k
  PROVE  After({i \in Mine : i <= p}) = WasmAt(Newest({c \in Changes(k) : c <= p}))
<1> DEFINE M(q) == {i \in Mine : i <= q}
           K(q) == {c \in Changes(k) : c <= q}
           G == {q \in Nat : q <= k => After(M(q)) = WasmAt(Newest(K(q)))}
<1>1. \A i \in Mine : i \in Nat /\ i # 0
  BY DEF Mine, AuditInv, TypeOK
<1>2. 0 \in G
  <2>1. M(0) = {} /\ K(0) = {}
    BY <1>1 DEF Changes
  <2> QED BY <2>1 DEF After, Newest, WasmAt
<1>3. ASSUME NEW q \in Nat, q \in G PROVE q + 1 \in G
  <2> SUFFICES ASSUME q + 1 <= k PROVE After(M(q + 1)) = WasmAt(Newest(K(q + 1)))
    OBVIOUS
  <2>1. After(M(q)) = WasmAt(Newest(K(q)))
    BY <1>3
  <2>2. CASE q + 1 \notin Mine
    <3>1. \A i \in Mine : i <= q + 1 <=> i <= q
      BY <1>1, <2>2
    <3>2. M(q + 1) = M(q)
      BY <3>1
    <3>3. K(q + 1) = K(q)
      BY <3>1 DEF Changes
    <3> QED BY <2>1, <3>2, <3>3
  <2>3. CASE q + 1 \in Mine
    <3>1. After(M(q + 1)) = chain[q + 1].new
      <4>1. M(q + 1) \subseteq Mine /\ q + 1 \in M(q + 1) /\ \A i \in M(q + 1) : i <= q + 1
        BY <2>3
      <4> HIDE DEF M
      <4> QED BY <4>1, AfterLast
    <3>2. chain[q + 1].old = After(M(q))
      <4>1. \A i \in Mine : i < q + 1 <=> i <= q
        BY <1>1
      <4>2. {i \in Mine : i < q + 1} = M(q)
        BY <4>1
      <4>3. chain[q + 1].old = After({i \in Mine : i < q + 1})
        BY <2>3 DEF AuditInv, ChainInv
      <4> QED BY <4>2, <4>3
    <3>3. CASE chain[q + 1].old = chain[q + 1].new
      <4>1. q + 1 \notin Changes(k)
        BY <3>3 DEF Changes
      <4>2. \A i \in Changes(k) : i <= q + 1 <=> i <= q
        BY <1>1, <4>1 DEF Changes
      <4>3. K(q + 1) = K(q)
        BY <4>2
      <4> QED BY <2>1, <3>1, <3>2, <3>3, <4>3
    <3>4. CASE chain[q + 1].old # chain[q + 1].new
      <4>1. q + 1 \in K(q + 1) /\ \A i \in K(q + 1) : i \in Int /\ i <= q + 1
        BY <1>1, <2>3, <3>4 DEF Changes
      <4> HIDE DEF K
      <4>2. Newest(K(q + 1)) = q + 1
        BY <4>1, MaxIs DEF Newest
      <4>3. q + 1 # 0
        OBVIOUS
      <4> QED BY <3>1, <4>2, <4>3 DEF WasmAt
    <3> QED BY <3>3, <3>4
  <2> QED BY <2>2, <2>3
<1> HIDE DEF G
<1>4. Nat \subseteq G
  BY <1>2, <1>3, NatSetInduction
<1>5. p \in Nat /\ p <= k
  OBVIOUS
<1> QED BY <1>4, <1>5 DEF G

\* If the same wasm was deployed at two moments and none was deployed twice, no
\* change came between them.
LEMMA NoChangeBetween ==
  ASSUME AuditInv, NEW k \in Nat, NoReturn(k), NEW p \in 0..k, NEW q \in 0..k,
         After({i \in Mine : i <= p}) = After({i \in Mine : i <= q}),
         NEW c \in Changes(k), p < c
  PROVE  q < c
<1> DEFINE K(z) == {d \in Changes(k) : d <= z}
<1>1. \A d \in Changes(k) : d \in Int
  BY DEF Changes, Mine
<1>2. K(p) \subseteq Mine /\ K(q) \subseteq Mine
  BY DEF Changes
<1>3. /\ Newest(K(p)) \in {0} \cup K(p)
      /\ Newest(K(q)) \in {0} \cup K(q) /\ \A d \in K(q) : d <= Newest(K(q))
  <2> HIDE DEF K
  <2> QED BY <1>2, NewestUpgrade
<1>4. WasmAt(Newest(K(p))) = WasmAt(Newest(K(q)))
  BY ChangesDecide
<1>5. Newest(K(p)) = Newest(K(q))
  <2>1. K(p) \subseteq Changes(k) /\ K(q) \subseteq Changes(k)
    OBVIOUS
  <2> HIDE DEF K
  <2> QED BY <1>3, <1>4, <2>1, NoReturnMeans
<1>6. SUFFICES ASSUME c <= q PROVE FALSE
  BY <1>1
<1>7. c \in K(q)
  BY <1>6
<1>8. Newest(K(p)) <= p
  BY <1>3
<1> DEFINE z == Newest(K(p))
<1>9. c <= z /\ z <= p /\ z \in Int
  BY <1>1, <1>3, <1>5, <1>7, <1>8
<1> HIDE DEF z
<1> QED BY <1>1, <1>9

\* A consistent report whose wasms never came back has missed no change since
\* the first event it collected.
GapFree ==
  /\ AuditInv /\ run.pc = "report"
  /\ ChainConsistent(Scanned, run.cur) /\ NoReturn(run.top)

\* The changes it has collected.
Caught == {c \in Changes(run.top) : run.got # <<>> /\ c >= run.got[1]}

LEMMA GapFreeFacts ==
  ASSUME GapFree
  PROVE  /\ Len(run.got) \in Nat /\ Len(Scanned) = Len(run.got) /\ run.top \in Nat
         /\ (Scanned = <<>> <=> Len(run.got) = 0) /\ (run.got = <<>> <=> Len(run.got) = 0)
         /\ \A k \in 1..Len(run.got) : /\ Scanned[k] = chain[run.got[k]]
                                      /\ run.got[k] \in Mine /\ run.got[k] \in 1..run.top
         /\ \A k, l \in 1..Len(run.got) : k < l => run.got[k] < run.got[l]
         /\ \A i \in Mine : i \in Nat /\ i # 0
         /\ run.cur = After({i \in Mine : i <= run.top})
<1> DEFINE got == run.got
           n == Len(got)
<1>1. AuditInv
  BY DEF GapFree
<1>2. /\ n \in Nat /\ Len(Scanned) = n /\ Scanned \in Seq(Upgrades) /\ got \in Seq(Nat)
      /\ \A k \in 1..n : Scanned[k] = chain[got[k]] /\ got[k] \in Mine
      /\ \A k, l \in 1..n : k < l => got[k] < got[l]
  BY <1>1, ScannedEvents DEF AuditInv, ScanInv, TypeOK, Runs
<1>3. /\ run.top \in Nat /\ run.cur = After({i \in Mine : i <= run.top})
      /\ \A k \in 1..n : got[k] <= run.top
  BY <1>1, CurIsAfter DEF GapFree, AuditInv, ReportInv
<1>4. \A i \in Mine : i \in Nat /\ i # 0
  BY DEF Mine
<1>5. \A k \in 1..n : got[k] \in 1..run.top
  <2> HIDE DEF got, n
  <2>1. \A k \in 1..n : got[k] \in Nat /\ got[k] # 0 /\ got[k] <= run.top
    BY <1>2, <1>3, <1>4
  <2> QED BY <1>3, <2>1
<1>6. (Scanned = <<>> <=> n = 0) /\ (got = <<>> <=> n = 0)
  BY <1>2
<1> QED BY <1>2, <1>3, <1>4, <1>5, <1>6

LEMMA NoneMissed ==
  ASSUME GapFree, run.got # <<>>, NEW c \in Changes(run.top), c >= run.got[1]
  PROVE  \E k \in 1..Len(run.got) : run.got[k] = c
<1> DEFINE got == run.got
           n == Len(got)
           top == run.top
           M(p) == {i \in Mine : i <= p}
<1>1. AuditInv /\ ChainConsistent(Scanned, run.cur) /\ NoReturn(top)
  BY DEF GapFree
<1>2. /\ n \in Nat \ {0} /\ top \in Nat /\ Len(Scanned) = n /\ Scanned # <<>>
      /\ \A k \in 1..n : Scanned[k] = chain[got[k]] /\ got[k] \in Mine /\ got[k] \in 1..top
      /\ \A k, l \in 1..n : k < l => got[k] < got[l]
      /\ \A i \in Mine : i \in Nat /\ i # 0
      /\ run.cur = After(M(top))
  BY GapFreeFacts
<1>3. c \in Mine /\ c \in Nat /\ c <= top
  BY <1>2 DEF Changes
<1>4. got[1] <= c
  BY <1>2, <1>3
<1> HIDE DEF got, n, top
<1>5. ASSUME NEW k \in 1..n PROVE chain[got[k]].new = After(M(got[k]))
  <2>1. got[k] \in M(got[k]) /\ M(got[k]) \subseteq Mine /\ \A i \in M(got[k]) : i <= got[k]
    BY <1>2
  <2> HIDE DEF M
  <2> QED BY <1>1, <2>1, AfterLast
<1>6. ASSUME NEW k \in 1..n PROVE chain[got[k]].old = After(M(got[k] - 1))
  <2>1. \A i \in Mine : i < got[k] <=> i <= got[k] - 1
    BY <1>2
  <2>2. {i \in Mine : i < got[k]} = M(got[k] - 1)
    BY <2>1
  <2>3. got[k] \in Mine
    BY <1>2
  <2>4. chain[got[k]].old = After({i \in Mine : i < got[k]})
    BY <1>1, <2>3 DEF AuditInv, ChainInv
  <2> QED BY <2>2, <2>4
<1>7. DEFINE P == {k \in 1..n : got[k] <= c}
<1>8. P \subseteq 1..n /\ 1 \in P
  BY <1>2, <1>4
<1>9. PICK m \in P : \A k \in P : k <= m
  <2>1. P # {}
    BY <1>8
  <2> HIDE DEF P
  <2> QED BY <1>2, <1>8, <2>1, PositionsHaveMax
<1>10. m \in 1..n /\ got[m] <= c /\ got[m] \in 0..top /\ got[m] \in Nat
  BY <1>2
<1>11. SUFFICES ASSUME got[m] < c PROVE FALSE
  BY <1>3, <1>10 DEF got, n
<1>12. c \in Changes(top)
  BY DEF top
<1>13. CASE m = n
  <2>1. After(M(got[m])) = After(M(top))
    <3>1. Last(Scanned).new = run.cur
      BY <1>1, <1>2 DEF ChainConsistent
    <3>2. Last(Scanned) = chain[got[m]]
      BY <1>2, <1>10, <1>13 DEF Last
    <3> QED BY <1>2, <1>5, <1>10, <3>1, <3>2
  <2>2. top \in 0..top
    BY <1>2
  <2>3. top < c
    BY <1>1, <1>2, <1>10, <1>11, <1>12, <2>1, <2>2, NoChangeBetween
  <2> QED BY <1>2, <1>3, <2>3
<1>14. CASE m # n
  <2>1. m \in 1..(n - 1) /\ m + 1 \in 1..n
    BY <1>2, <1>10, <1>14
  <2>2. c < got[m + 1]
    <3>1. m + 1 \notin P
      BY <1>2, <1>9, <1>10
    <3> QED BY <1>2, <1>3, <2>1, <3>1
  <2>3. After(M(got[m])) = After(M(got[m + 1] - 1))
    <3>1. Scanned[m].new = Scanned[m + 1].old
      BY <1>1, <1>2, <2>1 DEF ChainConsistent
    <3> QED BY <1>2, <1>5, <1>6, <1>10, <2>1, <3>1
  <2>4. got[m + 1] \in 1..top
    BY <1>2, <2>1
  <2>5. got[m + 1] - 1 \in 0..top
    BY <1>2, <2>4
  <2>6. got[m + 1] - 1 < c
    BY <1>1, <1>2, <1>10, <1>11, <1>12, <2>3, <2>5, NoChangeBetween
  <2> QED BY <1>2, <1>3, <2>2, <2>4, <2>6
<1> QED BY <1>13, <1>14

LEMMA CaughtIsCollected ==
  ASSUME GapFree
  PROVE  Collects(Caught)
<1> DEFINE got == run.got
           n == Len(got)
           top == run.top
<1>1. /\ n \in Nat /\ Len(Scanned) = n /\ (got = <<>> <=> n = 0)
      /\ \A k \in 1..n : Scanned[k] = chain[got[k]] /\ got[k] \in Mine /\ got[k] \in 1..top
      /\ \A k, l \in 1..n : k < l => got[k] < got[l]
      /\ top \in Nat
  BY GapFreeFacts
<1>2. Caught \subseteq Mine
  BY DEF Caught, Changes
<1>3. ASSUME NEW k \in 1..n PROVE got[k] \in Caught <=> k \in Turns(Scanned)
  <2>1. got # <<>> /\ got[k] <= top
    BY <1>1
  <2>2. got[k] >= got[1]
    <3>1. k = 1 \/ 1 < k
      BY <1>1
    <3>2. got[k] \in Int /\ got[1] \in Int /\ 1 \in 1..n
      BY <1>1
    <3> HIDE DEF got, n
    <3> QED BY <1>1, <3>1, <3>2
  <2>3. k \in Turns(Scanned) <=> chain[got[k]].old # chain[got[k]].new
    BY <1>1 DEF Turns
  <2>4. got[k] \in Changes(top) <=> chain[got[k]].old # chain[got[k]].new
    BY <1>1, <2>1 DEF Changes
  <2>5. got[k] \in Caught <=> got[k] \in Changes(top)
    BY <2>1, <2>2 DEF Caught
  <2> QED BY <2>3, <2>4, <2>5
<1>4. \A i \in Caught : \E k \in 1..n : got[k] = i
  BY NoneMissed DEF Caught
<1> QED BY <1>2, <1>3, <1>4 DEF Collects

\* The report begins with the wasm that was deployed before them.
LEMMA BeginsBeforeCaught ==
  ASSUME GapFree
  PROVE  (IF Scanned = <<>> THEN run.cur ELSE Scanned[1].old)
           = WasmAt(Newest(Changes(run.top) \ Caught))
<1> DEFINE got == run.got
           n == Len(got)
           top == run.top
           C == Changes(top)
           told == IF Scanned = <<>> THEN run.cur ELSE Scanned[1].old
<1>1. /\ n \in Nat /\ (got = <<>> <=> n = 0) /\ (Scanned = <<>> <=> n = 0)
      /\ \A k \in 1..n : Scanned[k] = chain[got[k]] /\ got[k] \in Mine /\ got[k] \in 1..top
      /\ top \in Nat /\ run.cur = After({i \in Mine : i <= top})
      /\ \A i \in Mine : i \in Nat /\ i # 0
  BY GapFreeFacts
<1>2. AuditInv
  BY DEF GapFree
<1>3. C \subseteq Mine /\ \A c \in C : c <= top
  BY DEF Changes
<1>4. CASE n = 0
  <2>1. \A c \in C : c <= top /\ c \notin Caught
    BY <1>1, <1>3, <1>4 DEF Caught
  <2>2. C \ Caught = {c \in C : c <= top}
    BY <2>1
  <2>3. top \in 0..top
    BY <1>1
  <2>4. After({i \in Mine : i <= top}) = WasmAt(Newest({c \in C : c <= top}))
    BY <1>1, <1>2, <2>3, ChangesDecide
  <2> QED BY <1>1, <1>4, <2>2, <2>4
<1>5. CASE n # 0
  <2> DEFINE p == got[1] - 1
  <2>1. 1 \in 1..n /\ got # <<>>
    BY <1>1, <1>5
  <2>2. got[1] \in Mine /\ got[1] \in 1..top /\ Scanned[1] = chain[got[1]]
    BY <1>1, <2>1
  <2>3. p \in 0..top
    BY <1>1, <2>2
  <2>4. \A i \in Mine : (i < got[1] <=> i <= p) /\ (i >= got[1] <=> ~(i <= p))
    BY <1>1, <2>2
  <2>5. {i \in Mine : i < got[1]} = {i \in Mine : i <= p}
    BY <2>4
  <2>6. told = After({i \in Mine : i < got[1]})
    BY <1>1, <1>2, <1>5, <2>2 DEF AuditInv, ChainInv
  <2>7. C \ Caught = {c \in C : c <= p}
    <3>1. \A c \in C : c \in Caught <=> c >= got[1]
      BY <2>1 DEF Caught
    <3> HIDE DEF C, p
    <3> QED BY <1>3, <2>4, <3>1
  <2>8. After({i \in Mine : i <= p}) = WasmAt(Newest({c \in C : c <= p}))
    <3> HIDE DEF p
    <3> QED BY <1>1, <1>2, <2>3, ChangesDecide
  <2> QED BY <2>5, <2>6, <2>7, <2>8
<1> QED BY <1>4, <1>5

\* A history is a sequence of one row more than changes.
LEMMA LivedRows ==
  ASSUME AuditInv, NEW C, C \subseteq Mine, NEW w
  PROVE  /\ Cardinality(C) \in Nat
         /\ Len(Lived(C, w)) = Cardinality(C) + 1 /\ DOMAIN Lived(C, w) = 1..(Cardinality(C) + 1)
         /\ \A i \in 1..(Cardinality(C) + 1) : Lived(C, w)[i] =
              Row((IF i = 1 THEN w ELSE chain[Ascending(C)[i - 1]].new),
                  (IF i = 1 THEN 0 ELSE chain[Ascending(C)[i - 1]].ledger),
                  (IF i = Cardinality(C) + 1 THEN 0 ELSE chain[Ascending(C)[i]].ledger),
                  (i = Cardinality(C) + 1))
<1> DEFINE m == Cardinality(C)
           turn == Ascending(C)
           row(i) == Row((IF i = 1 THEN w ELSE chain[turn[i - 1]].new),
                         (IF i = 1 THEN 0 ELSE chain[turn[i - 1]].ledger),
                         (IF i = m + 1 THEN 0 ELSE chain[turn[i]].ledger), (i = m + 1))
<1>1. m \in Nat
  <2>1. Len(chain) \in Nat /\ C \subseteq 1..Len(chain)
    BY DEF AuditInv, TypeOK, Mine
  <2> QED BY <2>1, RankProperties
<1>2. Lived(C, w) = [i \in 1..(m + 1) |-> row(i)]
  BY DEF Lived
<1> HIDE DEF m, row
<1>3. \A i \in 1..(m + 1) : Lived(C, w)[i] = row(i)
  BY <1>2
<1>4. Len(Lived(C, w)) = m + 1 /\ DOMAIN Lived(C, w) = 1..(m + 1)
  BY <1>1, <1>2
<1> QED BY <1>1, <1>3, <1>4 DEF m, row

\* The history from the first ledger.
LEMMA HistoryFromGenesis ==
  ASSUME AuditInv, NEW k
  PROVE  History(1, k) = Lived(Changes(k), genesis)
<1>1. \A i \in Mine : chain[i].ledger \in Nat /\ chain[i].ledger >= 1
  <2> TAKE i \in Mine
  <2>1. chain[i] \in Events
    BY DEF AuditInv, TypeOK, Mine
  <2> QED BY <2>1 DEF Events, AuditInv, TypeOK
<1>2. {i \in Changes(k) : chain[i].ledger >= 1} = Changes(k)
  BY <1>1 DEF Changes
<1>3. {p \in Mine : chain[p].ledger < 1} = {}
  BY <1>1
<1>4. After({p \in Mine : chain[p].ledger < 1}) = genesis
  BY <1>3 DEF After
<1> QED BY <1>2, <1>4, HistoryIsLived

\* Of a history the rows from some change on are the history from that change on,
\* but for the time of the first.
LEMMA LivedSuffix ==
  ASSUME AuditInv, NEW C, C \subseteq Mine, NEW S, S \subseteq C,
         \A x \in C \ S, y \in S : x < y
  PROVE  LET full  == Lived(C, genesis)
             part  == Lived(S, WasmAt(Newest(C \ S)))
             since == Len(full) - Len(part) + 1
         IN  /\ since >= 1
             /\ part = [SubSeq(full, since, Len(full)) EXCEPT ![1].from = 0]
<1> DEFINE N == Cardinality(C)
           m == Cardinality(S)
           T == Ascending(C)
           A == Ascending(S)
           w == WasmAt(Newest(C \ S))
           full == Lived(C, genesis)
           part == Lived(S, w)
           d == N - m
           sub == SubSeq(full, d + 1, N + 1)
<1>1. Len(chain) \in Nat /\ C \subseteq 1..Len(chain)
  BY DEF AuditInv, TypeOK, Mine
<1>2. /\ N \in Nat /\ m \in Nat /\ m <= N
      /\ \A k \in 1..m : T[d + k] = A[k]
      /\ m = N => C \ S = {}
      /\ m < N => C \ S # {} /\ T[d] \in C \ S /\ \A x \in C \ S : x <= T[d]
  BY <1>1, AscendingSplit
<1>3. /\ Len(full) = N + 1
      /\ \A i \in 1..(N + 1) : full[i] =
           Row((IF i = 1 THEN genesis ELSE chain[T[i - 1]].new),
               (IF i = 1 THEN 0 ELSE chain[T[i - 1]].ledger),
               (IF i = N + 1 THEN 0 ELSE chain[T[i]].ledger), (i = N + 1))
  BY LivedRows
<1>4. /\ Len(part) = m + 1 /\ DOMAIN part = 1..(m + 1)
      /\ \A i \in 1..(m + 1) : part[i] =
           Row((IF i = 1 THEN w ELSE chain[A[i - 1]].new),
               (IF i = 1 THEN 0 ELSE chain[A[i - 1]].ledger),
               (IF i = m + 1 THEN 0 ELSE chain[A[i]].ledger), (i = m + 1))
  <2>1. S \subseteq Mine
    OBVIOUS
  <2> HIDE DEF w
  <2> QED BY <2>1, LivedRows
<1>5. w = (IF d = 0 THEN genesis ELSE chain[T[d]].new)
  <2>1. CASE m = N
    BY <1>2, <2>1 DEF Newest, WasmAt
  <2>2. CASE m < N
    <3>1. T[d] \in C \ S /\ (\A x \in C \ S : x <= T[d])
      BY <1>2, <2>2
    <3>2. \A x \in C \ S : x \in Int /\ x # 0
      BY <1>1
    <3> DEFINE t == T[d]
               R == C \ S
    <3>3. Newest(R) = t
      <4>1. t \in R /\ t \in Int /\ \A x \in R : x \in Int /\ x <= t
        BY <3>1, <3>2
      <4> HIDE DEF t, R
      <4> QED BY <4>1, MaxIs DEF Newest
    <3>4. t # 0 /\ d # 0
      BY <1>2, <2>2, <3>1, <3>2
    <3> QED BY <3>3, <3>4 DEF WasmAt
  <2> QED BY <1>2, <2>1, <2>2
<1> HIDE DEF N, m, T, A, w, full, part
<1>6. d \in Nat /\ d + 1 <= N + 1 /\ (N + 1) - (d + 1) + 1 = m + 1
  BY <1>2
<1>7. DOMAIN sub = 1..(m + 1) /\ \A i \in 1..(m + 1) : sub[i] = full[d + i]
  <2> DEFINE V == {full[i] : i \in 1..(N + 1)}
  <2>1. d + 1 \in Int /\ N + 1 \in Int /\ \A i \in (d + 1)..(N + 1) : i \in 1..(N + 1)
    BY <1>2
  <2>2. \A i \in (d + 1)..(N + 1) : full[i] \in V
    BY <2>1
  <2> HIDE DEF d, V
  <2>3. /\ sub \in Seq(V)
        /\ Len(sub) = (N + 1) - (d + 1) + 1
        /\ \A i \in 1..((N + 1) - (d + 1) + 1) : sub[i] = full[(d + 1) + i - 1]
    BY <1>6, <2>1, <2>2, SubSeqProperties
  <2> HIDE DEF sub
  <2>4. DOMAIN sub = 1..(m + 1) /\ \A i \in 1..(m + 1) : sub[i] = full[(d + 1) + i - 1]
    BY <1>6, <2>3
  <2>5. \A i \in 1..(m + 1) : (d + 1) + i - 1 = d + i
    BY <1>6
  <2> QED BY <2>4, <2>5
<1>8. \A i \in 1..(m + 1) : d + i \in 1..(N + 1) /\ (d + i = N + 1 <=> i = m + 1)
  BY <1>2
<1>9. ASSUME NEW i \in 1..(m + 1) PROVE (i = m + 1) = (d + i = N + 1)
  BY <1>8
<1>10. \A i \in 1..(m + 1) : i # m + 1 => T[d + i] = A[i]
  BY <1>2
<1>11. sub[1] = Row(w, (IF d = 0 THEN 0 ELSE chain[T[d]].ledger),
                    (IF 1 = m + 1 THEN 0 ELSE chain[A[1]].ledger), (1 = m + 1))
  <2>1. 1 \in 1..(m + 1) /\ sub[1] = full[d + 1] /\ d + 1 \in 1..(N + 1)
    BY <1>2, <1>7, <1>8
  <2>2. (d + 1 = 1 <=> d = 0) /\ (d + 1) - 1 = d
    BY <1>2
  <2>3. (1 = m + 1) = (d + 1 = N + 1)
    BY <1>9, <2>1
  <2> HIDE DEF d
  <2> QED BY <1>3, <1>5, <1>10, <2>1, <2>2, <2>3
<1>12. ASSUME NEW i \in 2..(m + 1) PROVE sub[i] = part[i]
  <2>1. /\ i \in 1..(m + 1) /\ i # 1 /\ i - 1 \in 1..(m + 1) /\ i - 1 # m + 1
        /\ d + i \in 1..(N + 1) /\ d + i # 1 /\ (d + i) - 1 = d + (i - 1)
    BY <1>2, <1>8
  <2>2. sub[i] = full[d + i]
    BY <1>7, <2>1
  <2>3. T[(d + i) - 1] = A[i - 1]
    BY <1>10, <2>1
  <2>4. (i = m + 1) = (d + i = N + 1)
    BY <1>9, <2>1
  <2>5. i # m + 1 => T[d + i] = A[i]
    BY <1>10, <2>1
  <2> HIDE DEF d, sub
  <2> QED BY <1>3, <1>4, <2>1, <2>2, <2>3, <2>4, <2>5
<1>13. part[1] = Row(w, 0, (IF 1 = m + 1 THEN 0 ELSE chain[A[1]].ledger), (1 = m + 1))
  BY <1>2, <1>4
<1>14. [sub EXCEPT ![1].from = 0] = [i \in 1..(m + 1) |-> IF i = 1 THEN part[1] ELSE sub[i]]
  <2> DEFINE t == IF d = 0 THEN 0 ELSE chain[T[d]].ledger
             u == IF 1 = m + 1 THEN 0 ELSE chain[A[1]].ledger
             b == (1 = m + 1)
  <2>1. DOMAIN sub = 1..(m + 1)
    BY <1>7
  <2>2. sub[1] = Row(w, t, u, b) /\ part[1] = Row(w, 0, u, b)
    BY <1>11, <1>13
  <2> HIDE DEF sub, t, u, b
  <2>3. [Row(w, t, u, b) EXCEPT !.from = 0] = Row(w, 0, u, b)
    BY DEF Row
  <2>4. [sub EXCEPT ![1].from = 0] = [sub EXCEPT ![1] = [sub[1] EXCEPT !.from = 0]]
    OBVIOUS
  <2>5. [sub EXCEPT ![1] = part[1]] = [i \in 1..(m + 1) |-> IF i = 1 THEN part[1] ELSE sub[i]]
    BY <2>1
  <2> QED BY <2>2, <2>3, <2>4, <2>5
<1>15. part = [i \in 1..(m + 1) |-> part[i]]
  <2> SUFFICES \A i \in 1..(m + 1) : Lived(S, w)[i] = part[i]
    BY <1>4 DEF part, Lived, m
  <2> QED BY DEF part
<1>16. [i \in 1..(m + 1) |-> part[i]] = [i \in 1..(m + 1) |-> IF i = 1 THEN part[1] ELSE sub[i]]
  <2>1. \A i \in 1..(m + 1) : i # 1 => i \in 2..(m + 1)
    BY <1>2
  <2> HIDE DEF sub
  <2> QED BY <1>12, <2>1
<1>17. Len(full) - Len(part) + 1 = d + 1 /\ d + 1 >= 1
  BY <1>2, <1>3, <1>4
<1> HIDE DEF d
<1> QED BY <1>3, <1>14, <1>15, <1>16, <1>17 DEF full, part, w

\* A consistent report is complete (audit.rs:406-430): whatever the ledger, the
\* retention window and the pages did during the scan, if no wasm was ever
\* deployed twice, it lists every version from its first one to the moment the
\* deployed wasm was read, with its dates.
THEOREM ConsistencyIsCompleteness == Spec => []ConsistentIsComplete
<1>1. AuditInv => ConsistentIsComplete
  <2> DEFINE C == Changes(run.top)
             w == WasmAt(Newest(C \ Caught))
  <2> SUFFICES ASSUME AuditInv, AtReport("audit"), ChainConsistent(Scanned, run.cur),
                      NoReturn(run.top)
               PROVE  LET full  == History(1, run.top)
                          since == Len(full) - Len(Reported) + 1
                      IN  /\ since >= 1
                          /\ Reported = [SubSeq(full, since, Len(full)) EXCEPT ![1].from = 0]
    BY DEF ConsistentIsComplete
  <2>1. GapFree
    BY DEF GapFree, AtReport
  <2>2. Reported = Lived(Caught, w)
    <3>1. run.pc = "report" /\ Collects(Caught)
      BY <2>1, CaughtIsCollected DEF GapFree
    <3>2. Reported = Lived(Caught, IF Scanned = <<>> THEN run.cur ELSE Scanned[1].old)
      BY <3>1, ConsistentReport
    <3>3. (IF Scanned = <<>> THEN run.cur ELSE Scanned[1].old) = w
      BY <2>1, BeginsBeforeCaught
    <3> QED BY <3>2, <3>3
  <2>3. History(1, run.top) = Lived(C, genesis)
    BY HistoryFromGenesis
  <2>4. C \subseteq Mine /\ Caught \subseteq C
    BY DEF Changes, Caught
  <2>5. \A x \in C \ Caught, y \in Caught : x < y
    <3>1. \A i \in Mine : i \in Nat
      BY DEF Mine
    <3>2. run.got # <<>> => run.got[1] \in Int
      BY <2>1, GapFreeFacts
    <3>3. \A y \in Caught : run.got # <<>> /\ y >= run.got[1] /\ y \in Int
      BY <2>4, <3>1 DEF Caught
    <3>4. \A x \in C \ Caught : run.got # <<>> => x < run.got[1] /\ x \in Int
      BY <2>4, <3>1, <3>2 DEF Caught
    <3> HIDE DEF C
    <3> QED BY <3>2, <3>3, <3>4
  <2> HIDE DEF C
  <2>6. LET full  == Lived(C, genesis)
            since == Len(full) - Len(Lived(Caught, w)) + 1
        IN  /\ since >= 1
            /\ Lived(Caught, w) = [SubSeq(full, since, Len(full)) EXCEPT ![1].from = 0]
    BY <2>4, <2>5, LivedSuffix
  <2> HIDE DEF w
  <2> QED BY <2>2, <2>3, <2>6
<1> QED BY <1>1, AuditInvariant, PTL
=============================================================================
