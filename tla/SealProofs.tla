----------------------------- MODULE SealProofs -----------------------------
(***************************************************************************)
(* Proofs about Seal, for every set of artifacts, sources, commands and    *)
(* processes and every bound, and about CommitGate: what holds of the seal *)
(* workflow holds with a pre-commit hook in the repository too, and the    *)
(* hook keeps its promise.                                                 *)
(***************************************************************************)
EXTENDS CommitGate, SequenceTheorems, TLAPS

(***************************************************************************)
(* What TypeOK needs beside itself to be inductive: a commit's ancestors   *)
(* are commits, and a process that is about to use its seal or the         *)
(* artifact in hand has one.                                               *)
(***************************************************************************)
AncestorsOK == \A k \in 1..Len(commits) : commits[k].anc \subseteq 1..Len(commits)

HoldsSeal(r) == r.pc \in {"status", "build", "wasm", "source", "scan", "write"}
                  \/ (r.pc = "git" /\ r.cli = "verify")

ShapeOK(r) ==
  /\ HoldsSeal(r) => r.seal \in Seals
  /\ r.pc \in {"wasm", "source"} => r.at \in Declared(r.man)
  /\ r.cli = "verify" /\ HoldsSeal(r) => r.todo \subseteq Sealed(r.seal)
  /\ r.pc = "load" => r.todo = {}
  /\ r.cli = "verify" /\ r.pc \in {"wasm", "source"} => r.at \in Sealed(r.seal)
  /\ r.cli = "record" => r.todo \subseteq Declared(r.man)
  /\ r.cli = "record" /\ r.pc = "source" => r.got \in Wasms

TypeInv == TypeOK /\ AncestorsOK /\ \A p \in Procs : ShapeOK(proc[p])

-----------------------------------------------------------------------------
LEMMA StoppedType ==
  ASSUME NEW m \in Manifests, NEW x \in Exits
  PROVE  Stopped(m, x) \in Processes /\ ShapeOK(Stopped(m, x))
BY SentinelsAssumption DEF Stopped, Processes, Steps, Exits, ShapeOK, HoldsSeal, Sealed

LEMMA InitType == Init => TypeInv
<1> SUFFICES ASSUME Init PROVE TypeInv
  OBVIOUS
<1>1. work \in Trees /\ index \in Trees /\ work.man \in Manifests
  BY DEF Init, Trees
<1>2. "none" \in Exits
  BY DEF Exits
<1>3. proc \in [Procs -> Processes] /\ \A p \in Procs : ShapeOK(proc[p])
  BY <1>1, <1>2, StoppedType DEF Init
<1>4. commits \in Seq([tree : Trees, anc : SUBSET (1..MaxCommits)]) /\ Len(commits) = 0
  BY DEF Init
<1>5. QED
  BY <1>1, <1>3, <1>4, ConstantsAssumption DEF Init, TypeInv, TypeOK, AncestorsOK

-----------------------------------------------------------------------------
(***************************************************************************)
(* A step that puts a well-shaped record in for one process and keeps the  *)
(* shared files well typed keeps the type invariant.                       *)
(***************************************************************************)
LEMMA LocalType ==
  ASSUME TypeInv, NEW p \in Procs, NEW r \in Processes, ShapeOK(r), Local(p, r),
         UNCHANGED <<work, repo, wasm, edits>>, starts' \in 0..MaxStarts
  PROVE  TypeInv'
<1>1. /\ proc' \in [Procs -> Processes]
      /\ \A q \in Procs : proc'[q] = proc[q] \/ proc'[q] = r
  BY DEF Local, TypeInv, TypeOK
<1>2. \A q \in Procs : ShapeOK(proc'[q])
  BY <1>1 DEF TypeInv
<1>3. TypeOK' /\ AncestorsOK'
  BY <1>1 DEF TypeInv, TypeOK, AncestorsOK, repo
<1>4. QED
  BY <1>2, <1>3 DEF TypeInv

LEMMA ExitType ==
  ASSUME TypeInv, NEW p \in Procs, NEW x \in Exits, Exit(p, x),
         UNCHANGED <<work, repo, wasm, edits>>, starts' \in 0..MaxStarts
  PROVE  TypeInv'
<1>1. proc[p].man \in Manifests
  BY DEF TypeInv, TypeOK, Processes
<1>2. QED
  BY <1>1, StoppedType, LocalType DEF Exit

\* Losing its calm changes nothing else about a process.
LEMMA CalmType ==
  ASSUME NEW r \in Processes, ShapeOK(r), NEW b \in BOOLEAN
  PROVE  [r EXCEPT !.calm = b] \in Processes /\ ShapeOK([r EXCEPT !.calm = b])
<1>1. [r EXCEPT !.calm = b] \in Processes
  BY DEF Processes
<1>2. ShapeOK([r EXCEPT !.calm = b])
  BY DEF Processes, ShapeOK, HoldsSeal
<1>3. QED
  BY <1>1, <1>2

LEMMA WriteType ==
  ASSUME TypeInv, NEW p \in Procs, NEW r \in Processes, ShapeOK(r), Write(p, r),
         UNCHANGED <<repo, edits, starts>>, work' \in Trees,
         wasm' \in [Artifacts -> Wasms \cup {NoWasm}]
  PROVE  TypeInv'
<1>1. ASSUME NEW q \in Procs
      PROVE  proc'[q] \in Processes /\ ShapeOK(proc'[q])
  <2>1. CASE q = p
    BY <2>1 DEF Write
  <2>2. CASE q # p
    <3>1. (proc[q].calm /\ work' = work /\ wasm' = wasm) \in BOOLEAN
      OBVIOUS
    <3>2. proc[q] \in Processes /\ ShapeOK(proc[q])
      BY DEF TypeInv, TypeOK
    <3>3. proc'[q] = [proc[q] EXCEPT !.calm = proc[q].calm /\ work' = work /\ wasm' = wasm]
      BY <2>2 DEF Write
    <3>4. QED
      BY <3>1, <3>2, <3>3, CalmType
  <2>3. QED
    BY <2>1, <2>2
<1>2. proc' \in [Procs -> Processes]
  BY <1>1 DEF Write
<1>3. TypeOK' /\ AncestorsOK'
  BY <1>2 DEF TypeInv, TypeOK, AncestorsOK, repo
<1>4. QED
  BY <1>1, <1>3 DEF TypeInv

\* A step of the developer: every process loses its calm.
LEMMA EditType ==
  ASSUME TypeInv, Edit
  PROVE  /\ proc' \in [Procs -> Processes]
         /\ \A q \in Procs : ShapeOK(proc'[q])
         /\ edits' \in 0..MaxEdits /\ starts' \in 0..MaxStarts
<1>1. ASSUME NEW q \in Procs
      PROVE  proc'[q] \in Processes /\ ShapeOK(proc'[q])
  <2>1. proc[q] \in Processes /\ ShapeOK(proc[q])
    BY DEF TypeInv, TypeOK
  <2>2. proc'[q] = [proc[q] EXCEPT !.calm = FALSE]
    BY DEF Edit
  <2>3. QED
    BY <2>1, <2>2, CalmType
<1>2. proc' \in [Procs -> Processes]
  BY <1>1 DEF Edit
<1>3. edits' \in 0..MaxEdits /\ starts' \in 0..MaxStarts
  BY ConstantsAssumption DEF Edit, TypeInv, TypeOK
<1>4. QED
  BY <1>1, <1>2, <1>3

-----------------------------------------------------------------------------
(***************************************************************************)
(* Each action keeps the type invariant.                                   *)
(***************************************************************************)
LEMMA ExitsType == \A x \in {"none", "pass", "fail", "error", "killed"} : x \in Exits
BY DEF Exits

LEMMA BeginType ==
  ASSUME TypeInv, NEW p \in Procs, Begin(p)
  PROVE  TypeInv'
<1> SUFFICES ASSUME NEW cli \in {"record", "verify", "analyze"}, NEW pc \in {"git", "load"},
                    NEW d \in BOOLEAN, cli # "record" => pc = "load",
                    Start(p, cli, pc, d)
             PROVE  TypeInv'
  BY ConstantsAssumption DEF Begin, RecordStart, VerifyStart, AnalyzeStart
<1>1. /\ starts' \in 0..MaxStarts
      /\ UNCHANGED <<work, repo, wasm, edits>>
      /\ cli \in Cli
  BY ConstantsAssumption DEF Start, TypeInv, TypeOK
<1>2. work.man \in Manifests
  BY DEF TypeInv, TypeOK, Trees
<1>3. CASE Declared(work.man) = {}
  BY <1>1, <1>3, ExitType, ExitsType DEF Start
<1>4. CASE Declared(work.man) # {}
  <2> DEFINE z == Stopped(work.man, "none")
             r == [z EXCEPT !.cli = cli, !.pc = pc, !.dirtyOk = d, !.calm = TRUE]
  <2>4. z \in Processes
    BY <1>2, StoppedType, ExitsType
  <2>1. r \in Processes
    <3> HIDE DEF z
    <3> QED
      BY <1>1, <2>4 DEF Processes, Steps
  <2>2. /\ r.cli = cli /\ r.pc = pc /\ r.todo = {}
    BY DEF Stopped
  <2>5. ShapeOK(r)
    BY <2>2 DEF ShapeOK, HoldsSeal
  <2>3. Local(p, r)
    BY <1>4 DEF Start
  <2>6. QED
    BY <1>1, <2>1, <2>5, <2>3, LocalType
<1>5. QED
  BY <1>3, <1>4

LEMMA FreshType ==
  ASSUME NEW m \in Manifests, NEW b \in BOOLEAN, NEW c \in 0..MaxCommits
  PROVE  Fresh(m, b, c) \in Seals
BY DEF Fresh, Seals, GitStates, Manifests

LEMMA RecordRevParseType ==
  ASSUME TypeInv, NEW p \in Procs, RecordRevParse(p)
  PROVE  TypeInv'
<1> DEFINE r == proc[p]
<1>1. /\ UNCHANGED <<work, repo, wasm, edits>> /\ starts' \in 0..MaxStarts
      /\ r \in Processes /\ r.man \in Manifests /\ r.cli = "record" /\ r.pc = "git"
  BY DEF RecordRevParse, TypeInv, TypeOK, Processes, At
<1>2. head \in 0..MaxCommits
  BY ConstantsAssumption DEF TypeInv, TypeOK
<1>3. CASE Local(p, [r EXCEPT !.pc = "status", !.seal = Fresh(r.man, TRUE, head)])
  <2> DEFINE n == [r EXCEPT !.pc = "status", !.seal = Fresh(r.man, TRUE, head)]
  <2>1. n.seal \in Seals /\ n \in Processes
    BY <1>1, <1>2, FreshType DEF Processes, Steps
  <2>2. ShapeOK(n)
    BY <1>1, <2>1 DEF ShapeOK, HoldsSeal, Processes, TypeInv
  <2>3. QED
    BY <1>1, <1>3, <2>1, <2>2, LocalType
<1>4. CASE Exit(p, "error")
  BY <1>1, <1>4, ExitType, ExitsType
<1>5. CASE Local(p, [r EXCEPT !.pc = "build", !.seal = Fresh(r.man, FALSE, 0),
                              !.todo = Declared(r.man)])
  <2> DEFINE f == Fresh(r.man, FALSE, 0)
             d == Declared(r.man)
             n == [r EXCEPT !.pc = "build", !.seal = f, !.todo = d]
  <2>1. FALSE \in BOOLEAN /\ 0 \in 0..MaxCommits
    BY ConstantsAssumption
  <2>2. f \in Seals
    BY <1>1, <2>1, FreshType
  <2>3. d \in SUBSET Artifacts
    BY DEF Declared
  <2>4. n \in Processes
    <3> HIDE DEF f, d
    <3> QED
      BY <1>1, <2>2, <2>3 DEF Processes, Steps
  <2>5. ShapeOK(n)
    <3>1. n.seal = f /\ n.pc = "build" /\ n.cli = "record" /\ n.todo = d /\ n.man = r.man
      <4> HIDE DEF f, d
      <4> QED
        BY <1>1 DEF Processes
    <3> HIDE DEF n, f
    <3> QED
      BY <2>2, <3>1 DEF ShapeOK, HoldsSeal
  <2>6. QED
    BY <1>1, <1>5, <2>4, <2>5, LocalType
<1>6. QED
  BY <1>3, <1>4, <1>5 DEF RecordRevParse

LEMMA RecordStatusType ==
  ASSUME TypeInv, NEW p \in Procs, RecordStatus(p)
  PROVE  TypeInv'
<1> DEFINE r == proc[p]
           n == [r EXCEPT !.pc = "build", !.seal.git.clean = Clean, !.todo = Declared(r.man)]
<1>1. /\ UNCHANGED <<work, repo, wasm, edits>> /\ starts' \in 0..MaxStarts
      /\ r \in Processes /\ r.cli = "record" /\ r.pc = "status" /\ r.seal \in Seals
  BY DEF RecordStatus, TypeInv, TypeOK, Processes, At, ShapeOK, HoldsSeal
<1>2. CASE Exit(p, "error")
  BY <1>1, <1>2, ExitType, ExitsType
<1>3. CASE Local(p, n)
  <2>1. Clean \in BOOLEAN
    BY DEF Clean
  <2>2. n.seal \in Seals
    BY <1>1, <2>1 DEF Seals, GitStates, Processes
  <2>3. n \in Processes
    BY <1>1, <2>2 DEF Processes, Steps, Declared
  <2>4. ShapeOK(n)
    BY <1>1, <2>2 DEF ShapeOK, HoldsSeal, Processes, TypeInv
  <2>5. QED
    BY <1>1, <1>3, <2>3, <2>4, LocalType
<1>4. QED
  BY <1>2, <1>3 DEF RecordStatus

LEMMA OutputType ==
  ASSUME TypeInv, NEW a \in Artifacts, NEW o
  PROVE  Output(a, o) \in [Artifacts -> Wasms \cup {NoWasm}]
BY DEF Output, TypeInv, TypeOK

LEMMA RecordBuildType ==
  ASSUME TypeInv, NEW p \in Procs, RecordBuild(p)
  PROVE  TypeInv'
<1> DEFINE r == proc[p]
<1>1. /\ UNCHANGED <<repo, edits, starts>>
      /\ r \in Processes /\ r.man \in Manifests /\ r.cli = "record" /\ r.pc = "build"
      /\ r.seal \in Seals /\ r.todo \subseteq Declared(r.man)
  BY DEF RecordBuild, TypeInv, TypeOK, Processes, At, ShapeOK, HoldsSeal
<1>2. PICK a \in r.todo :
        \E o : /\ wasm' = Output(a, o) /\ UNCHANGED work
               /\ \/ Write(p, Stopped(r.man, "error"))
                  \/ Write(p, [r EXCEPT !.pc = "wasm", !.at = a, !.todo = @ \ {a}])
  BY DEF RecordBuild
<1>3. a \in Artifacts /\ a \in Declared(r.man)
  BY <1>1, <1>2 DEF Processes
<1>4. /\ wasm' \in [Artifacts -> Wasms \cup {NoWasm}]
      /\ work' \in Trees
  BY <1>2, <1>3, OutputType DEF TypeInv, TypeOK
<1>5. CASE Write(p, Stopped(r.man, "error"))
  BY <1>1, <1>4, <1>5, StoppedType, ExitsType, WriteType
<1>6. CASE Write(p, [r EXCEPT !.pc = "wasm", !.at = a, !.todo = @ \ {a}])
  <2> DEFINE n == [r EXCEPT !.pc = "wasm", !.at = a, !.todo = @ \ {a}]
  <2>1. n \in Processes
    BY <1>1, <1>3 DEF Processes, Steps
  <2>2. ShapeOK(n)
    BY <1>1, <1>3 DEF ShapeOK, HoldsSeal, Processes
  <2>3. QED
    BY <1>1, <1>4, <1>6, <2>1, <2>2, WriteType
<1>7. QED
  BY <1>2, <1>5, <1>6

LEMMA RecordWasmType ==
  ASSUME TypeInv, NEW p \in Procs, RecordWasm(p)
  PROVE  TypeInv'
<1> DEFINE r == proc[p]
           n == [r EXCEPT !.pc = "source", !.got = wasm[r.at]]
<1>1. /\ UNCHANGED <<work, repo, wasm, edits>> /\ starts' \in 0..MaxStarts
      /\ r \in Processes /\ r.cli = "record" /\ r.pc = "wasm"
      /\ r.seal \in Seals /\ r.at \in Declared(r.man) /\ r.todo \subseteq Declared(r.man)
  BY DEF RecordWasm, TypeInv, TypeOK, At, ShapeOK, HoldsSeal
<1>2. CASE wasm[r.at] = NoWasm
  BY <1>1, <1>2, ExitType, ExitsType DEF RecordWasm
<1>3. CASE wasm[r.at] # NoWasm
  <2>1. wasm[r.at] \in Wasms
    BY <1>1, <1>3 DEF TypeInv, TypeOK, Declared
  <2>2. n \in Processes
    BY <1>1, <2>1 DEF Processes, Steps
  <2>3. ShapeOK(n)
    BY <1>1, <2>1 DEF ShapeOK, HoldsSeal, Processes
  <2>4. Local(p, n)
    BY <1>3 DEF RecordWasm
  <2>5. QED
    BY <1>1, <2>2, <2>3, <2>4, LocalType
<1>4. QED
  BY <1>2, <1>3

LEMMA RecordSourceType ==
  ASSUME TypeInv, NEW p \in Procs, RecordSource(p)
  PROVE  TypeInv'
<1> DEFINE r == proc[p]
           entry == [cmd |-> r.man.cmd[r.at], wasm |-> r.got,
                     src |-> TreeDigest(work.src, work.man, r.at)]
           n == [r EXCEPT !.pc = "build", !.at = NoArt, !.got = NoWasm,
                          !.seal.art[r.at] = entry]
<1>1. /\ UNCHANGED <<work, repo, wasm, edits>> /\ starts' \in 0..MaxStarts
      /\ r \in Processes /\ r.cli = "record" /\ r.pc = "source" /\ r.got \in Wasms
      /\ r.seal \in Seals /\ r.at \in Declared(r.man) /\ r.todo \subseteq Declared(r.man)
      /\ r.man \in Manifests /\ r.at \in Artifacts
  BY DEF RecordSource, TypeInv, TypeOK, At, ShapeOK, HoldsSeal, Processes, Declared
<1>2. CASE Exit(p, "error")
  BY <1>1, <1>2, ExitType, ExitsType
<1>3. CASE Local(p, n)
  <2>1. r.man.cmd[r.at] \in Commands
    BY <1>1 DEF Manifests, Declared
  <2>2. TreeDigest(work.src, work.man, r.at) \in Digests
    BY <1>1 DEF Digests, TypeInv, TypeOK, Trees
  <2>3. entry \in Entries
    BY <1>1, <2>1, <2>2 DEF Entries
  <2> HIDE DEF entry
  <2>4. n.seal \in Seals
    BY <1>1, <2>3 DEF Seals, Processes
  <2>5. n \in Processes
    BY <1>1, <2>4 DEF Processes, Steps
  <2>6. ShapeOK(n)
    BY <1>1, <2>4 DEF ShapeOK, HoldsSeal, Processes
  <2>7. QED
    BY <1>1, <1>3, <2>5, <2>6, LocalType
<1>4. QED
  BY <1>2, <1>3 DEF RecordSource

LEMMA LoadSealType ==
  ASSUME TypeInv, NEW p \in Procs, LoadSeal(p)
  PROVE  TypeInv'
<1> DEFINE r == proc[p]
<1>1. /\ UNCHANGED <<work, repo, wasm, edits>> /\ starts' \in 0..MaxStarts
      /\ r \in Processes /\ r.pc = "load"
  BY DEF LoadSeal, TypeInv, TypeOK
<1>2. CASE Exit(p, "error")
  BY <1>1, <1>2, ExitType, ExitsType
<1>3. ASSUME work.prov \notin {Missing, Corrupt}
      PROVE  work.prov \in Seals
  BY <1>3 DEF TypeInv, TypeOK, Trees
<1>4. ASSUME work.prov \notin {Missing, Corrupt}, r.cli = "verify",
             Local(p, [r EXCEPT !.pc = "git", !.seal = work.prov,
                                !.ok = (work.prov.project = r.man.name)])
      PROVE  TypeInv'
  <2> DEFINE n == [r EXCEPT !.pc = "git", !.seal = work.prov,
                            !.ok = (work.prov.project = r.man.name)]
  <2>1. n \in Processes
    BY <1>1, <1>3, <1>4 DEF Processes, Steps
  <2>2. r.todo = {}
    BY <1>1 DEF TypeInv, ShapeOK
  <2>3. ShapeOK(n)
    BY <1>1, <1>3, <1>4, <2>2 DEF ShapeOK, HoldsSeal, Processes
  <2>4. QED
    BY <1>1, <1>4, <2>1, <2>3, LocalType
<1>5. ASSUME work.prov \notin {Missing, Corrupt}, r.cli = "analyze",
             NEW t \in Chosen(r.man),
             Local(p, [r EXCEPT !.pc = "scan", !.seal = work.prov, !.todo = t])
      PROVE  TypeInv'
  <2> DEFINE n == [r EXCEPT !.pc = "scan", !.seal = work.prov, !.todo = t]
  <2>1. t \in SUBSET Artifacts
    BY DEF Chosen, Declared
  <2>2. n \in Processes
    BY <1>1, <1>3, <1>5, <2>1 DEF Processes, Steps
  <2>3. ShapeOK(n)
    BY <1>1, <1>3, <1>5 DEF ShapeOK, HoldsSeal, Processes
  <2>4. QED
    BY <1>1, <1>5, <2>2, <2>3, LocalType
<1>6. QED
  BY <1>2, <1>4, <1>5 DEF LoadSeal

\* What a step of verify after the load starts from.
LEMMA VerifyHolds ==
  ASSUME TypeInv, NEW p \in Procs, proc[p].cli = "verify",
         proc[p].pc \in {"git", "build", "wasm", "source"}
  PROVE  /\ proc[p] \in Processes /\ proc[p].seal \in Seals
         /\ proc[p].man \in Manifests /\ proc[p].todo \subseteq Sealed(proc[p].seal)
BY DEF TypeInv, TypeOK, ShapeOK, HoldsSeal, Processes

LEMMA VerifyGitType ==
  ASSUME TypeInv, NEW p \in Procs, VerifyGit(p)
  PROVE  TypeInv'
<1> DEFINE r == proc[p]
           b == r.ok /\ CommitKept(r) /\ NoGap(r)
           n == [r EXCEPT !.pc = "build", !.todo = Sealed(r.seal), !.ok = b]
<1>1. /\ UNCHANGED <<work, repo, wasm, edits>> /\ starts' \in 0..MaxStarts
      /\ r \in Processes /\ r.cli = "verify" /\ r.seal \in Seals
  BY VerifyHolds DEF VerifyGit, TypeInv, TypeOK, At
<1>2. CASE Exit(p, "error")
  BY <1>1, <1>2, ExitType, ExitsType
<1>3. CASE Local(p, n)
  <2>1. b \in BOOLEAN /\ Sealed(r.seal) \in SUBSET Artifacts
    BY DEF Sealed
  <2> HIDE DEF b
  <2>2. n \in Processes
    BY <1>1, <2>1 DEF Processes, Steps
  <2>3. ShapeOK(n)
    BY <1>1, <2>1 DEF ShapeOK, HoldsSeal, Processes
  <2>4. QED
    BY <1>1, <1>3, <2>2, <2>3, LocalType
<1>4. QED
  BY <1>2, <1>3 DEF VerifyGit

LEMMA VerifyOrphanType ==
  ASSUME TypeInv, NEW p \in Procs, VerifyOrphan(p)
  PROVE  TypeInv'
<1> DEFINE r == proc[p]
<1>1. /\ UNCHANGED <<work, repo, wasm, edits>> /\ starts' \in 0..MaxStarts
      /\ r \in Processes /\ r.cli = "verify" /\ r.pc = "build"
      /\ r.seal \in Seals /\ r.todo \subseteq Sealed(r.seal)
  BY VerifyHolds DEF VerifyOrphan, TypeInv, TypeOK, At
<1>2. PICK a \in r.todo : Local(p, [r EXCEPT !.todo = @ \ {a}, !.ok = FALSE])
  BY DEF VerifyOrphan
<1> DEFINE n == [r EXCEPT !.todo = @ \ {a}, !.ok = FALSE]
<1>3. n \in Processes
  BY <1>1 DEF Processes
<1>4. ShapeOK(n)
  BY <1>1 DEF ShapeOK, HoldsSeal, Processes
<1>5. QED
  BY <1>1, <1>2, <1>3, <1>4, LocalType

LEMMA VerifyBuildType ==
  ASSUME TypeInv, NEW p \in Procs, VerifyBuild(p)
  PROVE  TypeInv'
<1> DEFINE r == proc[p]
<1>1. /\ UNCHANGED <<repo, edits, starts>>
      /\ r \in Processes /\ r.cli = "verify" /\ r.pc = "build"
      /\ r.seal \in Seals /\ r.todo \subseteq Sealed(r.seal)
  BY VerifyHolds DEF VerifyBuild, At
<1> DEFINE same(a) == r.ok /\ r.man.cmd[a] = r.seal.art[a].cmd
<1>2. PICK a \in r.todo \cap Declared(r.man) :
        \E o \in Outcomes(a, r.man.cmd[a]) :
          /\ wasm' = Output(a, o) /\ UNCHANGED work
          /\ Write(p, IF o = Fails \/ wasm'[a] = NoWasm
                        THEN [r EXCEPT !.todo = @ \ {a}, !.ok = FALSE]
                        ELSE [r EXCEPT !.pc = "wasm", !.at = a,
                                       !.todo = @ \ {a}, !.ok = same(a)])
  BY Zenon DEF VerifyBuild
<1>3. PICK o :
        /\ wasm' = Output(a, o) /\ UNCHANGED work
        /\ \/ Write(p, [r EXCEPT !.todo = @ \ {a}, !.ok = FALSE])
           \/ Write(p, [r EXCEPT !.pc = "wasm", !.at = a, !.todo = @ \ {a}, !.ok = same(a)])
  BY Zenon, <1>2
<1>4. a \in Artifacts /\ a \in Declared(r.man) /\ a \in Sealed(r.seal)
  BY <1>1, <1>3 DEF Processes
<1>5. /\ wasm' \in [Artifacts -> Wasms \cup {NoWasm}]
      /\ work' \in Trees
  BY <1>3, <1>4, OutputType DEF TypeInv, TypeOK
<1>6. CASE Write(p, [r EXCEPT !.todo = @ \ {a}, !.ok = FALSE])
  <2> DEFINE n == [r EXCEPT !.todo = @ \ {a}, !.ok = FALSE]
  <2>1. n \in Processes
    BY <1>1 DEF Processes
  <2>2. ShapeOK(n)
    BY <1>1 DEF ShapeOK, HoldsSeal, Processes
  <2>3. QED
    BY <1>1, <1>5, <1>6, <2>1, <2>2, WriteType
<1>7. CASE Write(p, [r EXCEPT !.pc = "wasm", !.at = a, !.todo = @ \ {a}, !.ok = same(a)])
  <2> DEFINE n == [r EXCEPT !.pc = "wasm", !.at = a, !.todo = @ \ {a}, !.ok = same(a)]
  <2>4. same(a) \in BOOLEAN
    OBVIOUS
  <2> HIDE DEF same
  <2>1. n \in Processes
    BY <1>1, <2>4, <1>4 DEF Processes, Steps
  <2>2. ShapeOK(n)
    BY <1>1, <1>4 DEF ShapeOK, HoldsSeal, Processes
  <2>3. QED
    BY <1>1, <1>5, <1>7, <2>1, <2>2, WriteType
<1>8. QED
  BY <1>3, <1>6, <1>7

LEMMA VerifyWasmType ==
  ASSUME TypeInv, NEW p \in Procs, VerifyWasm(p)
  PROVE  TypeInv'
<1> DEFINE r == proc[p]
           b == r.ok /\ wasm[r.at] = r.seal.art[r.at].wasm
           n == [r EXCEPT !.pc = "source", !.ok = b]
<1>1. /\ UNCHANGED <<work, repo, wasm, edits>> /\ starts' \in 0..MaxStarts
      /\ r \in Processes /\ r.cli = "verify" /\ r.seal \in Seals
      /\ r.pc = "wasm" /\ ShapeOK(r)
  BY VerifyHolds DEF VerifyWasm, TypeInv, TypeOK, At
<1>2. CASE Exit(p, "error")
  BY <1>1, <1>2, ExitType, ExitsType
<1>3. CASE Local(p, n)
  <2>1. b \in BOOLEAN
    OBVIOUS
  <2> HIDE DEF b
  <2>2. n \in Processes
    BY <1>1, <2>1 DEF Processes, Steps
  <2>3. ShapeOK(n)
    BY <1>1 DEF ShapeOK, HoldsSeal, Processes
  <2>4. QED
    BY <1>1, <1>3, <2>2, <2>3, LocalType
<1>4. QED
  BY <1>2, <1>3 DEF VerifyWasm

LEMMA VerifySourceType ==
  ASSUME TypeInv, NEW p \in Procs, VerifySource(p)
  PROVE  TypeInv'
<1> DEFINE r == proc[p]
           b == r.ok /\ TreeDigest(work.src, work.man, r.at) = r.seal.art[r.at].src
           n == [r EXCEPT !.pc = "build", !.at = NoArt, !.ok = b]
<1>1. /\ UNCHANGED <<work, repo, wasm, edits>> /\ starts' \in 0..MaxStarts
      /\ r \in Processes /\ r.cli = "verify" /\ r.seal \in Seals
      /\ r.pc = "source" /\ ShapeOK(r)
  BY VerifyHolds DEF VerifySource, TypeInv, TypeOK, At
<1>2. CASE Exit(p, "error")
  BY <1>1, <1>2, ExitType, ExitsType
<1>3. CASE Local(p, n)
  <2>1. b \in BOOLEAN
    OBVIOUS
  <2> HIDE DEF b
  <2>2. n \in Processes
    BY <1>1, <2>1 DEF Processes, Steps
  <2>3. ShapeOK(n)
    BY <1>1 DEF ShapeOK, HoldsSeal, Processes
  <2>4. QED
    BY <1>1, <1>3, <2>2, <2>3, LocalType
<1>4. QED
  BY <1>2, <1>3 DEF VerifySource

LEMMA VerifyReportType ==
  ASSUME TypeInv, NEW p \in Procs, VerifyReport(p)
  PROVE  TypeInv'
<1>1. /\ UNCHANGED <<work, repo, wasm, edits>> /\ starts' \in 0..MaxStarts
      /\ \/ Exit(p, "pass") \/ Exit(p, "fail")
  BY DEF VerifyReport, TypeInv, TypeOK
<1>2. QED
  BY <1>1, ExitType, ExitsType

LEMMA AnalyzeArtifactType ==
  ASSUME TypeInv, NEW p \in Procs, AnalyzeArtifact(p)
  PROVE  TypeInv'
<1> DEFINE r == proc[p]
           entry(a) == [id |-> a, digest |-> AuditOf[Scan(work.src, a)]]
           list(a) == Push(r.seal.analysis, entry(a))
<1>1. /\ UNCHANGED <<work, repo, wasm, edits>> /\ starts' \in 0..MaxStarts
      /\ r \in Processes /\ r.cli = "analyze" /\ r.seal \in Seals
      /\ r.pc = "scan"
  BY DEF AnalyzeArtifact, TypeInv, TypeOK, At, ShapeOK, HoldsSeal
<1>2. PICK a \in r.todo :
        \/ Exit(p, "error")
        \/ Local(p, [r EXCEPT !.todo = @ \ {a}, !.seal.analysis = list(a)])
  BY Zenon DEF AnalyzeArtifact
<1>3. CASE Exit(p, "error")
  BY <1>1, <1>3, ExitType, ExitsType
<1>4. CASE Local(p, [r EXCEPT !.todo = @ \ {a}, !.seal.analysis = list(a)])
  <2>1. a \in Artifacts
    BY <1>1 DEF Processes
  <2>2. AuditOf[Scan(work.src, a)] \in Audits
    <3>1. Scan(work.src, a) \in Scans
      BY <2>1 DEF Scans, TypeInv, TypeOK, Trees
    <3>2. QED
      BY <3>1, ConstantsAssumption
  <2>3. list(a) \in Seq([id : Artifacts, digest : Audits])
    BY <1>1, <2>1, <2>2 DEF Push, Seals
  <2> HIDE DEF list
  <2> DEFINE n == [r EXCEPT !.todo = @ \ {a}, !.seal.analysis = list(a)]
  <2>4. n.seal \in Seals
    BY <1>1, <2>3 DEF Seals, Processes
  <2>5. n \in Processes
    BY <1>1, <2>4 DEF Processes, Steps
  <2>6. ShapeOK(n)
    BY <1>1, <2>4 DEF ShapeOK, HoldsSeal, Processes
  <2>7. QED
    BY <1>1, <1>4, <2>5, <2>6, LocalType
<1>5. QED
  BY <1>2, <1>3, <1>4

LEMMA SaveTruncateType ==
  ASSUME TypeInv, NEW p \in Procs, SaveTruncate(p)
  PROVE  TypeInv'
<1> DEFINE r == proc[p]
           n == [r EXCEPT !.pc = "write"]
<1>1. /\ UNCHANGED <<repo, edits, starts, wasm>> /\ Write(p, n)
      /\ work' = [work EXCEPT !.prov = Corrupt]
      /\ r \in Processes /\ r.seal \in Seals /\ ShapeOK(r) /\ r.todo = {}
  BY DEF SaveTruncate, AtSave, TypeInv, TypeOK, At, ShapeOK, HoldsSeal
<1>2. work' \in Trees /\ wasm' \in [Artifacts -> Wasms \cup {NoWasm}]
  BY <1>1 DEF TypeInv, TypeOK, Trees
<1>3. n \in Processes
  BY <1>1 DEF Processes, Steps
<1>4. ShapeOK(n)
  BY <1>1 DEF ShapeOK, HoldsSeal, Processes
<1>5. QED
  BY <1>1, <1>2, <1>3, <1>4, WriteType

LEMMA SaveWriteType ==
  ASSUME TypeInv, NEW p \in Procs, SaveWrite(p)
  PROVE  TypeInv'
<1> DEFINE r == proc[p]
<1>1. /\ UNCHANGED <<repo, edits, starts, wasm>>
      /\ \E x \in Exits : Write(p, Stopped(r.man, x))
      /\ r.seal \in Seals /\ r.man \in Manifests
  BY ExitsType DEF SaveWrite, Codes, TypeInv, TypeOK, ShapeOK, HoldsSeal, Processes
<1>2. PICK v \in Seals \cup {Missing, Corrupt} : work' = [work EXCEPT !.prov = v]
  BY <1>1 DEF SaveWrite
<1>3. work' \in Trees /\ wasm' \in [Artifacts -> Wasms \cup {NoWasm}]
  BY <1>1, <1>2 DEF TypeInv, TypeOK, Trees
<1>4. QED
  BY <1>1, <1>3, StoppedType, WriteType

LEMMA CrashType ==
  ASSUME TypeInv, NEW p \in Procs, Crash(p)
  PROVE  TypeInv'
BY ExitType, ExitsType DEF Crash, TypeInv, TypeOK

LEMMA AdvanceType ==
  ASSUME TypeInv, NEW p \in Procs, Advance(p)
  PROVE  TypeInv'
BY RecordRevParseType, RecordStatusType, RecordBuildType, RecordWasmType, RecordSourceType,
   LoadSealType, VerifyGitType, VerifyOrphanType, VerifyBuildType, VerifyWasmType,
   VerifySourceType, VerifyReportType, AnalyzeArtifactType, SaveTruncateType, SaveWriteType
   DEF Advance

LEMMA TamperedType ==
  ASSUME NEW s \in Seals
  PROVE  Tampered(s) \subseteq Seals
<1> DEFINE resealed(a, w) == [s EXCEPT !.art[a].wasm = w]
           redone(i, d) == [s EXCEPT !.analysis[i].digest = d]
<1>1. ASSUME NEW a \in Sealed(s), NEW w \in Wasms
      PROVE  resealed(a, w) \in Seals
  <2>1. s.art[a] \in Entries /\ a \in Artifacts
    BY DEF Sealed, Seals
  <2>2. [s.art[a] EXCEPT !.wasm = w] \in Entries
    BY <2>1 DEF Entries
  <2>3. [s.art EXCEPT ![a] = [s.art[a] EXCEPT !.wasm = w]]
          \in [Artifacts -> Entries \cup {Unsealed}]
    BY <2>1, <2>2 DEF Seals
  <2>4. QED
    BY <2>3 DEF Seals
<1>2. ASSUME NEW i \in 1..Len(s.analysis), NEW d \in Audits
      PROVE  redone(i, d) \in Seals
  <2> DEFINE l == s.analysis
             f == [l[i] EXCEPT !.digest = d]
  <2>1. l \in Seq([id : Artifacts, digest : Audits])
    BY DEF Seals
  <2>2. l[i] \in [id : Artifacts, digest : Audits]
    BY <2>1, ElementOfSeq
  <2>3. f \in [id : Artifacts, digest : Audits]
    BY <2>2
  <2>4. i \in 1..Len(l)
    OBVIOUS
  <2>5. redone(i, d) = [s EXCEPT !.analysis = [l EXCEPT ![i] = f]]
    BY DEF f, l
  <2> HIDE DEF f, l
  <2>6. [l EXCEPT ![i] = f] \in Seq([id : Artifacts, digest : Audits])
    BY <2>1, <2>3, <2>4, ExceptSeq
  <2>7. [s EXCEPT !.analysis = [l EXCEPT ![i] = f]] \in Seals
    BY <2>6 DEF Seals
  <2>8. QED
    BY <2>5, <2>7
<1>3. Tampered(s) = {resealed(a, w) : a \in Sealed(s), w \in Wasms}
                      \cup {redone(i, d) : i \in 1..Len(s.analysis), d \in Audits}
  BY DEF Tampered
<1> HIDE DEF resealed, redone
<1>4. QED
  BY <1>1, <1>2, <1>3

\* git commit, of the index and on top of HEAD.
NewCommit ==
  /\ commits' = Append(commits, [tree |-> index, anc |-> Ancestors \cup {Len(commits) + 1}])
  /\ head' = Len(commits) + 1

LEMMA NewCommitType ==
  ASSUME TypeInv, Len(commits) < MaxCommits, NewCommit
  PROVE  /\ commits' \in Seq([tree : Trees, anc : SUBSET (1..MaxCommits)])
         /\ Len(commits') <= MaxCommits /\ head' \in 0..Len(commits')
         /\ AncestorsOK'
<1> DEFINE new == Len(commits) + 1
           c == [tree |-> index, anc |-> Ancestors \cup {new}]
<1>1. /\ commits \in Seq([tree : Trees, anc : SUBSET (1..MaxCommits)])
      /\ index \in Trees /\ head \in 0..Len(commits) /\ AncestorsOK
  BY DEF TypeInv, TypeOK
<1>2. Len(commits) \in Nat /\ new \in 1..MaxCommits
  BY <1>1, ConstantsAssumption
<1>3. Ancestors \subseteq 1..Len(commits)
  BY <1>1 DEF Ancestors, AncestorsOK
<1>4. c \in [tree : Trees, anc : SUBSET (1..MaxCommits)] /\ c.anc \subseteq 1..new
  <2>1. Ancestors \cup {new} \subseteq 1..new
    <3> SUFFICES ASSUME NEW x \in Ancestors \cup {new} PROVE x \in 1..new
      OBVIOUS
    <3>1. CASE x \in Ancestors
      <4>1. x \in 1..Len(commits)
        BY <1>3, <3>1
      <4>2. QED
        BY <1>2, <4>1
    <3>2. CASE x = new
      BY <1>2, <3>2
    <3>3. QED
      BY <3>1, <3>2
  <2>2. Ancestors \cup {new} \in SUBSET (1..MaxCommits)
    BY <1>2, <2>1, ConstantsAssumption
  <2>3. QED
    BY <1>1, <2>1, <2>2
<1> HIDE DEF c
<1>5. commits' = Append(commits, c) /\ head' = new
  BY DEF c, NewCommit
<1>6. /\ commits' \in Seq([tree : Trees, anc : SUBSET (1..MaxCommits)])
      /\ Len(commits') = new
      /\ \A k \in 1..Len(commits) : commits'[k] = commits[k]
      /\ commits'[new] = c
  BY <1>1, <1>4, <1>5
<1>7. AncestorsOK'
  BY <1>1, <1>2, <1>4, <1>6 DEF AncestorsOK
<1>8. QED
  BY <1>2, <1>5, <1>6, <1>7

LEMMA DeveloperType ==
  ASSUME TypeInv, Developer
  PROVE  TypeInv'
<1>1. Edit
  BY DEF Developer, EditSource, EditManifest, EditSeal, Wipe, GitInit, GitRemove, Stage,
         Commit, Reset
<1>2. /\ proc' \in [Procs -> Processes] /\ \A q \in Procs : ShapeOK(proc'[q])
      /\ edits' \in 0..MaxEdits /\ starts' \in 0..MaxStarts
  BY <1>1, EditType
<1> DEFINE Shared ==
      /\ work \in Trees /\ index \in Trees
      /\ commits \in Seq([tree : Trees, anc : SUBSET (1..MaxCommits)])
      /\ Len(commits) <= MaxCommits /\ head \in 0..Len(commits) /\ marker \in BOOLEAN
      /\ wasm \in [Artifacts -> Wasms \cup {NoWasm}]
      /\ AncestorsOK
<1>3. Shared
  BY DEF TypeInv, TypeOK
<1>4. Shared'
  <2>1. CASE EditSource
    <3>1. PICK a \in Artifacts, t \in Sources : work' = [work EXCEPT !.src[a] = t]
      BY <2>1 DEF EditSource
    <3>2. [work.src EXCEPT ![a] = t] \in [Artifacts -> Sources]
      BY <1>3 DEF Trees
    <3>3. work' \in Trees
      BY <1>3, <3>1, <3>2 DEF Trees
    <3>4. UNCHANGED <<index, commits, head, marker, wasm>>
      BY <2>1 DEF EditSource, repo
    <3>5. QED
      BY <1>3, <3>3, <3>4 DEF AncestorsOK
  <2>2. CASE EditManifest
    BY <1>3, <2>2 DEF EditManifest, Trees, AncestorsOK, repo
  <2>3. CASE EditSeal
    <3>1. PICK v : work' = [work EXCEPT !.prov = v] /\ v \in Seals \cup {Missing, Corrupt}
      <4>1. ASSUME work.prov \notin {Missing, Corrupt}
            PROVE  Tampered(work.prov) \subseteq Seals
        BY <1>3, <4>1, TamperedType DEF Trees
      <4>2. QED
        BY <2>3, <4>1 DEF EditSeal
    <3>2. QED
      BY <1>3, <2>3, <3>1 DEF EditSeal, Trees, AncestorsOK, repo
  <2>4. CASE Wipe
    BY <1>3, <2>4 DEF Wipe, AncestorsOK, repo
  <2>5. CASE GitInit
    BY <1>3, <2>5 DEF GitInit, AncestorsOK
  <2>6. CASE GitRemove
    <3>1. UNCHANGED <<work, index, commits, wasm>> /\ marker' = FALSE /\ head' = 0
      BY <2>6 DEF GitRemove
    <3>2. 0 \in 0..Len(commits)
      BY <1>3
    <3>3. QED
      BY <1>3, <3>1, <3>2 DEF AncestorsOK
  <2>7. CASE Stage
    BY <1>3, <2>7 DEF Stage, AncestorsOK
  <2>8. CASE Commit
    BY <1>3, <2>8, NewCommitType DEF Commit, NewCommit
  <2>9. CASE Reset
    <3>1. PICK c \in Ancestors :
            \E v \in {work.prov, commits[c].tree.prov} :
              /\ work' = [commits[c].tree EXCEPT !.prov = v]
              /\ index' = commits[c].tree /\ head' = c
              /\ UNCHANGED <<commits, marker, wasm>>
      BY <2>9 DEF Reset
    <3>2. PICK v \in {work.prov, commits[c].tree.prov} :
            work' = [commits[c].tree EXCEPT !.prov = v]
      BY <3>1
    <3>3. c \in 1..Len(commits)
      BY <1>3, <3>1 DEF Ancestors, AncestorsOK
    <3>4. commits[c].tree \in Trees
      <4>1. commits[c] \in [tree : Trees, anc : SUBSET (1..MaxCommits)]
        BY <1>3, <3>3, ElementOfSeq
      <4>2. QED
        BY <4>1
    <3>5. work' \in Trees /\ index' \in Trees
      BY <1>3, <3>1, <3>2, <3>4 DEF Trees
    <3>6. QED
      BY <1>3, <3>1, <3>3, <3>5 DEF AncestorsOK
  <2>10. QED
    BY <2>1, <2>2, <2>3, <2>4, <2>5, <2>6, <2>7, <2>8, <2>9 DEF Developer
<1>5. QED
  BY <1>2, <1>4 DEF TypeInv, TypeOK

LEMMA TypeStep == TypeInv /\ [Next]_vars => TypeInv'
<1> SUFFICES ASSUME TypeInv, [Next]_vars PROVE TypeInv'
  OBVIOUS
<1>1. CASE UNCHANGED vars
  BY <1>1 DEF vars, repo, TypeInv, TypeOK, AncestorsOK
<1>2. CASE Developer
  BY <1>2, DeveloperType
<1>3. ASSUME NEW p \in Procs, Begin(p) \/ Advance(p) \/ Crash(p)
      PROVE  TypeInv'
  BY <1>3, BeginType, AdvanceType, CrashType
<1>4. QED
  BY <1>1, <1>2, <1>3 DEF Next

\* The inductive form: the type invariant, the ancestry of commits, and the
\* seal and artifact that each step of a subcommand relies on having.
THEOREM TypeInvariance == Spec => []TypeInv
BY InitType, TypeStep, PTL DEF Spec

\* Whatever the subcommands, the developer and git do, the shared files and
\* each process's memory keep their shape (runner.rs, provenance.rs).
THEOREM TypeCorrect == Spec => []TypeOK
<1>1. TypeInv => TypeOK
  BY DEF TypeInv
<1>2. QED
  BY <1>1, TypeInvariance, PTL

-----------------------------------------------------------------------------
(***************************************************************************)
(* The safety properties.  Each rests on an inductive invariant over one   *)
(* process at a time: a step of anything else either leaves what the       *)
(* process has read as it was, or ends its calm.                           *)
(***************************************************************************)

\* A step in which q itself does nothing.
Elsewhere(q) ==
  \/ Developer
  \/ \E p \in Procs \ {q} : Begin(p) \/ Advance(p) \/ Crash(p)
  \/ UNCHANGED vars

-----------------------------------------------------------------------------
(***************************************************************************)
(* What a step elsewhere does to a process: nothing but ending its calm,   *)
(* and if the calm lasts the files it reads have not changed.              *)
(***************************************************************************)
Undisturbed(q) ==
  /\ proc'[q] = [proc[q] EXCEPT !.calm = proc'[q].calm]
  /\ proc'[q].calm \in BOOLEAN
  /\ proc'[q].calm => proc[q].calm /\ UNCHANGED <<work, wasm, head, commits>>

LEMMA SameRecordUndisturbed ==
  ASSUME NEW r \in Processes
  PROVE  r = [r EXCEPT !.calm = r.calm] /\ r.calm \in BOOLEAN
BY DEF Processes

LEMMA LocalElsewhere ==
  ASSUME TypeInv, NEW q \in Procs, NEW p \in Procs \ {q}, NEW r, Local(p, r),
         UNCHANGED <<work, repo, wasm>>
  PROVE  Undisturbed(q)
<1>1. proc[q] \in Processes /\ proc'[q] = proc[q]
  BY DEF TypeInv, TypeOK, Local
<1>2. QED
  BY <1>1, SameRecordUndisturbed DEF Undisturbed, repo

LEMMA WriteElsewhere ==
  ASSUME TypeInv, NEW q \in Procs, NEW p \in Procs \ {q}, NEW r, Write(p, r),
         UNCHANGED repo
  PROVE  Undisturbed(q)
<1> DEFINE c == proc[q].calm /\ work' = work /\ wasm' = wasm
<1>1. proc[q] \in Processes /\ proc'[q] = [proc[q] EXCEPT !.calm = c]
  BY DEF TypeInv, TypeOK, Write
<1>2. c \in BOOLEAN
  OBVIOUS
<1>3. c => proc[q].calm /\ UNCHANGED <<work, wasm, head, commits>>
  BY DEF repo
<1> HIDE DEF c
<1>4. proc'[q].calm = c
  BY <1>1 DEF Processes
<1>5. QED
  BY <1>1, <1>2, <1>3, <1>4 DEF Undisturbed

LEMMA EditElsewhere ==
  ASSUME TypeInv, NEW q \in Procs, Edit
  PROVE  Undisturbed(q)
<1>1. proc[q] \in Processes /\ proc'[q] = [proc[q] EXCEPT !.calm = FALSE]
  BY DEF TypeInv, TypeOK, Edit
<1>2. proc'[q].calm = FALSE
  BY <1>1 DEF Processes
<1>3. QED
  BY <1>1, <1>2 DEF Undisturbed

LEMMA ElsewhereUndisturbed ==
  ASSUME TypeInv, NEW q \in Procs, Elsewhere(q)
  PROVE  Undisturbed(q)
<1>1. CASE Developer
  <2>1. Edit
    BY <1>1 DEF Developer, EditSource, EditManifest, EditSeal, Wipe, GitInit, GitRemove,
                Stage, Commit, Reset
  <2>2. QED
    BY <2>1, EditElsewhere
<1>2. CASE UNCHANGED vars
  <2>1. proc[q] \in Processes /\ proc'[q] = proc[q]
    BY <1>2 DEF TypeInv, TypeOK, vars
  <2>2. QED
    BY <1>2, <2>1, SameRecordUndisturbed DEF Undisturbed, vars
<1>3. ASSUME NEW p \in Procs \ {q}, Begin(p) \/ Advance(p) \/ Crash(p)
      PROVE  Undisturbed(q)
  <2>1. CASE Begin(p)
    <3> SUFFICES ASSUME NEW cli, NEW pc, NEW d, Start(p, cli, pc, d)
                 PROVE  Undisturbed(q)
      BY <2>1 DEF Begin, RecordStart, VerifyStart, AnalyzeStart
    <3>1. QED
      BY <1>3, LocalElsewhere DEF Start, Exit
  <2>2. CASE Crash(p)
    BY <1>3, <2>2, LocalElsewhere DEF Crash, Exit
  <2>3. CASE RecordRevParse(p)
    BY <1>3, <2>3, LocalElsewhere DEF RecordRevParse, Exit
  <2>4. CASE RecordStatus(p)
    BY <1>3, <2>4, LocalElsewhere DEF RecordStatus, Exit
  <2>5. CASE RecordBuild(p)
    BY <1>3, <2>5, WriteElsewhere DEF RecordBuild
  <2>6. CASE RecordWasm(p)
    BY <1>3, <2>6, LocalElsewhere DEF RecordWasm, Exit
  <2>7. CASE RecordSource(p)
    BY <1>3, <2>7, LocalElsewhere DEF RecordSource, Exit
  <2>8. CASE LoadSeal(p)
    BY <1>3, <2>8, LocalElsewhere DEF LoadSeal, Exit
  <2>9. CASE VerifyGit(p)
    BY <1>3, <2>9, LocalElsewhere DEF VerifyGit, Exit
  <2>10. CASE VerifyOrphan(p)
    BY <1>3, <2>10, LocalElsewhere DEF VerifyOrphan
  <2>11. CASE VerifyBuild(p)
    BY <1>3, <2>11, WriteElsewhere DEF VerifyBuild
  <2>12. CASE VerifyWasm(p)
    BY <1>3, <2>12, LocalElsewhere DEF VerifyWasm, Exit
  <2>13. CASE VerifySource(p)
    BY <1>3, <2>13, LocalElsewhere DEF VerifySource, Exit
  <2>14. CASE VerifyReport(p)
    BY <1>3, <2>14, LocalElsewhere DEF VerifyReport, Exit
  <2>15. CASE AnalyzeArtifact(p)
    BY <1>3, <2>15, LocalElsewhere DEF AnalyzeArtifact, Exit
  <2>16. CASE SaveTruncate(p)
    BY <1>3, <2>16, WriteElsewhere DEF SaveTruncate
  <2>17. CASE SaveWrite(p)
    BY <1>3, <2>17, WriteElsewhere DEF SaveWrite
  <2>18. QED
    BY <1>3, <2>1, <2>2, <2>3, <2>4, <2>5, <2>6, <2>7, <2>8, <2>9, <2>10, <2>11, <2>12,
       <2>13, <2>14, <2>15, <2>16, <2>17 DEF Advance
<1>4. QED
  BY <1>1, <1>2, <1>3 DEF Elsewhere

-----------------------------------------------------------------------------
(***************************************************************************)
(* VerifySound.  While an undisturbed verify has found nothing wrong, every *)
(* sealed artifact it has dealt with is declared, has the sealed command,  *)
(* was rebuilt, and agrees with the seal in all that has been compared.    *)
(***************************************************************************)
Dealt(r) == Sealed(r.seal) \ r.todo

Agrees(r, a) ==
  /\ a \in Declared(r.man)
  /\ r.seal.art[a].cmd = r.man.cmd[a]
  /\ MadeBy(wasm[a], a, r.man.cmd[a])
  /\ (r.pc = "wasm" /\ a = r.at) \/ r.seal.art[a].wasm = wasm[a]
  /\ a = r.at \/ r.seal.art[a].src = TreeDigest(work.src, work.man, a)

VerifyAgrees(q) ==
  LET r == proc[q] IN
  r.cli = "verify" /\ r.calm =>
    /\ r.man = work.man
    /\ r.pc \in {"load", "git", "build"} => r.at = NoArt
    /\ r.pc = "git" /\ r.ok => r.seal.project = r.man.name
    /\ r.pc \in {"build", "wasm", "source"} /\ r.ok =>
         /\ r.seal.project = r.man.name
         /\ CommitKept(r) /\ NoGap(r)
         /\ \A a \in Dealt(r) : Agrees(r, a)

VerifyInv == TypeInv /\ \A q \in Procs : VerifyAgrees(q)

LEMMA VerifyIdle ==
  ASSUME NEW q \in Procs, proc'[q].cli # "verify" \/ proc'[q].calm = FALSE
  PROVE  VerifyAgrees(q)'
BY DEF VerifyAgrees

LEMMA VerifyExit ==
  ASSUME TypeInv, NEW q \in Procs, NEW x, Exit(q, x)
  PROVE  VerifyAgrees(q)'
<1>1. proc'[q].cli = "none"
  BY DEF Exit, Local, Stopped, TypeInv, TypeOK
<1>2. QED
  BY <1>1, VerifyIdle

LEMMA VerifyElsewhere ==
  ASSUME TypeInv, NEW q \in Procs, VerifyAgrees(q), Undisturbed(q)
  PROVE  VerifyAgrees(q)'
<1> DEFINE r == proc[q]
           n == proc'[q]
<1>1. /\ n.cli = r.cli /\ n.pc = r.pc /\ n.man = r.man /\ n.at = r.at
      /\ n.seal = r.seal /\ n.ok = r.ok /\ n.todo = r.todo
  BY DEF Undisturbed, TypeInv, TypeOK, Processes
<1>2. ASSUME n.cli = "verify", n.calm
      PROVE  VerifyAgrees(q)'
  <2>1. r.cli = "verify" /\ r.calm /\ UNCHANGED <<work, wasm, head, commits>>
    BY <1>1, <1>2 DEF Undisturbed
  <2>2. (CommitKept(r) <=> CommitKept(r)') /\ (NoGap(r) <=> NoGap(r)') /\ Dealt(r) = Dealt(r)'
    BY <1>1, <2>1 DEF CommitKept, NoGap, Dealt, Declared, Sealed
  <2>3. \A a : Agrees(r, a) <=> Agrees(r, a)'
    BY <1>1, <2>1 DEF Agrees, MadeBy, Outcomes, Declared, TreeDigest
  <2>4. QED
    BY <1>1, <2>1, <2>2, <2>3 DEF VerifyAgrees
<1>3. QED
  BY <1>2 DEF VerifyAgrees

LEMMA VerifyBegin ==
  ASSUME TypeInv, NEW q \in Procs, Begin(q)
  PROVE  VerifyAgrees(q)'
<1> SUFFICES ASSUME NEW cli, NEW pc, NEW d, cli = "verify" => pc = "load", Start(q, cli, pc, d)
             PROVE  VerifyAgrees(q)'
  BY DEF Begin, RecordStart, VerifyStart, AnalyzeStart
<1>1. CASE Exit(q, "error")
  BY <1>1, VerifyExit
<1>2. CASE Local(q, [Stopped(work.man, "none") EXCEPT
                       !.cli = cli, !.pc = pc, !.dirtyOk = d, !.calm = TRUE])
  <2> DEFINE n == proc'[q]
  <2>1. n.cli = cli /\ n.pc = pc /\ n.man = work.man /\ n.at = NoArt
    BY <1>2 DEF Local, Stopped, TypeInv, TypeOK
  <2>2. work' = work
    BY DEF Start
  <2>3. QED
    BY <2>1, <2>2 DEF VerifyAgrees
<1>3. QED
  BY <1>1, <1>2 DEF Start

LEMMA VerifyLoad ==
  ASSUME TypeInv, NEW q \in Procs, VerifyAgrees(q), LoadSeal(q)
  PROVE  VerifyAgrees(q)'
<1> DEFINE r == proc[q]
           n == proc'[q]
<1>1. r \in Processes /\ r.pc = "load" /\ work' = work
  BY DEF LoadSeal, TypeInv, TypeOK
<1>2. CASE Exit(q, "error")
  BY <1>2, VerifyExit
<1>3. ASSUME r.cli = "verify",
             Local(q, [r EXCEPT !.pc = "git", !.seal = work.prov,
                                !.ok = (work.prov.project = r.man.name)])
      PROVE  VerifyAgrees(q)'
  <2>1. /\ n.pc = "git" /\ n.man = r.man /\ n.at = r.at /\ n.seal = work.prov
        /\ n.ok <=> work.prov.project = r.man.name
        /\ n.calm = r.calm
    BY <1>1, <1>3 DEF Local, TypeInv, TypeOK, Processes
  <2>2. QED
    BY <1>1, <1>3, <2>1 DEF VerifyAgrees
<1>4. ASSUME r.cli = "analyze",
             NEW t, Local(q, [r EXCEPT !.pc = "scan", !.seal = work.prov, !.todo = t])
      PROVE  VerifyAgrees(q)'
  <2>1. n.cli = "analyze"
    BY <1>1, <1>4 DEF Local, TypeInv, TypeOK, Processes
  <2>2. QED
    BY <2>1, VerifyIdle
<1>5. QED
  BY <1>2, <1>3, <1>4 DEF LoadSeal

LEMMA VerifyGitStep ==
  ASSUME TypeInv, NEW q \in Procs, VerifyAgrees(q), VerifyGit(q)
  PROVE  VerifyAgrees(q)'
<1> DEFINE r == proc[q]
           n == proc'[q]
           b == r.ok /\ CommitKept(r) /\ NoGap(r)
<1>1. /\ r \in Processes /\ r.cli = "verify" /\ r.pc = "git"
      /\ UNCHANGED <<work, wasm, head, commits>>
  BY DEF VerifyGit, At, TypeInv, TypeOK, repo
<1>2. CASE Exit(q, "error")
  BY <1>2, VerifyExit
<1>3. CASE Local(q, [r EXCEPT !.pc = "build", !.todo = Sealed(r.seal), !.ok = b])
  <2>1. /\ n.cli = "verify" /\ n.pc = "build" /\ n.man = r.man /\ n.at = r.at
        /\ n.seal = r.seal /\ n.todo = Sealed(r.seal) /\ n.calm = r.calm /\ n.ok = b
    BY <1>1, <1>3 DEF Local, TypeInv, TypeOK, Processes
  <2>2. Dealt(r)' = {}
    BY <2>1 DEF Dealt, Sealed
  <2>3. b => CommitKept(r)' /\ NoGap(r)'
    BY <1>1, <2>1 DEF CommitKept, NoGap, Declared, Sealed
  <2>4. QED
    BY <1>1, <2>1, <2>2, <2>3 DEF VerifyAgrees
<1>4. QED
  BY <1>2, <1>3 DEF VerifyGit

LEMMA VerifyOrphanStep ==
  ASSUME TypeInv, NEW q \in Procs, VerifyAgrees(q), VerifyOrphan(q)
  PROVE  VerifyAgrees(q)'
<1> DEFINE r == proc[q]
           n == proc'[q]
<1>1. PICK a : Local(q, [r EXCEPT !.todo = @ \ {a}, !.ok = FALSE])
  BY DEF VerifyOrphan
<1>2. /\ n.pc = "build" /\ n.man = r.man /\ n.at = r.at /\ r.cli = "verify" /\ r.pc = "build"
      /\ n.calm = r.calm /\ n.ok = FALSE /\ work' = work
  BY <1>1 DEF VerifyOrphan, At, Local, TypeInv, TypeOK, Processes
<1>3. QED
  BY <1>2 DEF VerifyAgrees

LEMMA VerifyBuildStep ==
  ASSUME TypeInv, NEW q \in Procs, VerifyAgrees(q), VerifyBuild(q)
  PROVE  VerifyAgrees(q)'
<1> DEFINE r == proc[q]
           n == proc'[q]
           same(a) == r.ok /\ r.man.cmd[a] = r.seal.art[a].cmd
           failed(a) == [r EXCEPT !.todo = @ \ {a}, !.ok = FALSE]
           built(a) == [r EXCEPT !.pc = "wasm", !.at = a, !.todo = @ \ {a}, !.ok = same(a)]
<1>1. /\ r \in Processes /\ r.cli = "verify" /\ r.pc = "build"
      /\ UNCHANGED <<head, commits>>
  BY DEF VerifyBuild, At, TypeInv, TypeOK, repo
<1>2. PICK a \in r.todo \cap Declared(r.man) :
        \E o \in Outcomes(a, r.man.cmd[a]) :
          /\ wasm' = Output(a, o) /\ UNCHANGED work
          /\ Write(q, IF o = Fails \/ wasm'[a] = NoWasm THEN failed(a) ELSE built(a))
  BY Zenon DEF VerifyBuild
<1>3. PICK o \in Outcomes(a, r.man.cmd[a]) :
        /\ wasm' = Output(a, o) /\ UNCHANGED work
        /\ \/ Write(q, failed(a))
           \/ o # Fails /\ Write(q, built(a))
  BY Zenon, <1>2
<1>4. a \in Artifacts /\ a \in Declared(r.man)
  BY <1>1, <1>2 DEF Processes
<1>5. CASE Write(q, failed(a))
  <2>1. /\ n.pc = "build" /\ n.man = r.man /\ n.at = r.at /\ n.calm = r.calm /\ n.ok = FALSE
    BY <1>1, <1>5 DEF Write, Processes
  <2>2. QED
    BY <1>1, <1>3, <2>1 DEF VerifyAgrees
<1>6. CASE o # Fails /\ Write(q, built(a))
  <2>1. /\ n.pc = "wasm" /\ n.man = r.man /\ n.at = a /\ n.calm = r.calm
        /\ n.seal = r.seal /\ n.todo = r.todo \ {a} /\ n.cli = "verify"
        /\ n.ok = same(a)
    BY <1>1, <1>6 DEF Write, Processes
  <2> SUFFICES ASSUME n.calm, n.ok
               PROVE  VerifyAgrees(q)'
    BY <1>1, <1>3, <2>1 DEF VerifyAgrees
  <2>2. /\ r.man = work.man /\ r.at = NoArt /\ r.seal.project = r.man.name
        /\ CommitKept(r) /\ NoGap(r) /\ \A b \in Dealt(r) : Agrees(r, b)
    BY <1>1, <2>1 DEF VerifyAgrees
  <2>3. CommitKept(r)' /\ NoGap(r)'
    BY <1>1, <2>1, <2>2 DEF CommitKept, NoGap, Declared, Sealed
  <2>4. Agrees(r, a)'
    <3>1. MadeBy(wasm[a], a, r.man.cmd[a])'
      <4>1. o \in Wasms \cup {Fails, NoOutput}
        <5>1. work.src[a] \in Sources /\ r.man.cmd[a] \in Commands
          BY <1>1, <1>4 DEF TypeInv, TypeOK, Trees, Processes, Manifests, Declared
        <5>2. QED
          BY <1>3, <5>1, ConstantsAssumption DEF Outcomes
      <4>2. CASE o \in Wasms
        <5>1. wasm'[a] = o
          BY <1>3, <1>4, <4>2 DEF Output, TypeInv, TypeOK
        <5>2. QED
          BY <1>3, <2>1, <5>1 DEF MadeBy, Outcomes
      <4>3. CASE o = NoOutput
        BY <1>3, <2>1, <4>3 DEF MadeBy, Outcomes
      <4>4. QED
        BY <1>6, <4>1, <4>2, <4>3
    <3>2. QED
      BY <1>4, <2>1, <3>1 DEF Agrees, Declared
  <2>5. ASSUME NEW b \in Dealt(r), b # a
        PROVE  Agrees(r, b)'
    <3>1. b \in Artifacts /\ b # NoArt
      BY SentinelsAssumption DEF Dealt, Sealed
    <3>2. wasm'[b] = wasm[b]
      BY <1>3, <2>5, <3>1 DEF Output, TypeInv, TypeOK
    <3>3. Agrees(r, b)
      BY <2>2, <2>5
    <3>4. QED
      BY <1>1, <1>3, <2>1, <2>2, <3>1, <3>2, <3>3 DEF Agrees, MadeBy, Outcomes, Declared, TreeDigest
  <2>6. \A b \in Dealt(r)' : b = a \/ b \in Dealt(r)
    BY <2>1 DEF Dealt, Sealed
  <2>7. QED
    BY <1>1, <1>3, <2>1, <2>2, <2>3, <2>4, <2>5, <2>6 DEF VerifyAgrees
<1>7. QED
  BY <1>3, <1>5, <1>6

LEMMA VerifyWasmStep ==
  ASSUME TypeInv, NEW q \in Procs, VerifyAgrees(q), VerifyWasm(q)
  PROVE  VerifyAgrees(q)'
<1> DEFINE r == proc[q]
           n == proc'[q]
           b == r.ok /\ wasm[r.at] = r.seal.art[r.at].wasm
<1>1. /\ r \in Processes /\ r.cli = "verify" /\ r.pc = "wasm"
      /\ UNCHANGED <<work, wasm, head, commits>>
  BY DEF VerifyWasm, At, TypeInv, TypeOK, repo
<1>2. CASE Exit(q, "error")
  BY <1>2, VerifyExit
<1>3. CASE Local(q, [r EXCEPT !.pc = "source", !.ok = b])
  <2>1. /\ n.cli = "verify" /\ n.pc = "source" /\ n.man = r.man /\ n.at = r.at
        /\ n.seal = r.seal /\ n.todo = r.todo /\ n.calm = r.calm /\ n.ok = b
    BY <1>1, <1>3 DEF Local, TypeInv, TypeOK, Processes
  <2>2. /\ (CommitKept(r) <=> CommitKept(r)') /\ (NoGap(r) <=> NoGap(r)')
        /\ Dealt(r) = Dealt(r)'
    BY <1>1, <2>1 DEF CommitKept, NoGap, Dealt, Declared, Sealed
  <2>3. \A a : b /\ Agrees(r, a) => Agrees(r, a)'
    BY <1>1, <2>1 DEF Agrees, MadeBy, Outcomes, Declared, TreeDigest
  <2>4. QED
    BY <1>1, <2>1, <2>2, <2>3 DEF VerifyAgrees
<1>4. QED
  BY <1>2, <1>3 DEF VerifyWasm

LEMMA VerifySourceStep ==
  ASSUME TypeInv, NEW q \in Procs, VerifyAgrees(q), VerifySource(q)
  PROVE  VerifyAgrees(q)'
<1> DEFINE r == proc[q]
           n == proc'[q]
           b == r.ok /\ TreeDigest(work.src, work.man, r.at) = r.seal.art[r.at].src
<1>1. /\ r \in Processes /\ r.cli = "verify" /\ r.pc = "source"
      /\ UNCHANGED <<work, wasm, head, commits>>
  BY DEF VerifySource, At, TypeInv, TypeOK, repo
<1>2. CASE Exit(q, "error")
  BY <1>2, VerifyExit
<1>3. CASE Local(q, [r EXCEPT !.pc = "build", !.at = NoArt, !.ok = b])
  <2>1. /\ n.cli = "verify" /\ n.pc = "build" /\ n.man = r.man /\ n.at = NoArt
        /\ n.seal = r.seal /\ n.todo = r.todo /\ n.calm = r.calm /\ n.ok = b
    BY <1>1, <1>3 DEF Local, TypeInv, TypeOK, Processes
  <2>2. /\ (CommitKept(r) <=> CommitKept(r)') /\ (NoGap(r) <=> NoGap(r)')
        /\ Dealt(r) = Dealt(r)'
    BY <1>1, <2>1 DEF CommitKept, NoGap, Dealt, Declared, Sealed
  <2>3. \A a : b /\ Agrees(r, a) => Agrees(r, a)'
    BY <1>1, <2>1 DEF Agrees, MadeBy, Outcomes, Declared, TreeDigest
  <2>4. QED
    BY <1>1, <2>1, <2>2, <2>3 DEF VerifyAgrees
<1>4. QED
  BY <1>2, <1>3 DEF VerifySource

\* The steps of record and analyze, and the last of verify.
LEMMA OtherCli ==
  ASSUME TypeInv, NEW q \in Procs,
         \/ RecordRevParse(q) \/ RecordStatus(q) \/ RecordBuild(q) \/ RecordWasm(q)
         \/ RecordSource(q) \/ VerifyReport(q) \/ AnalyzeArtifact(q) \/ SaveTruncate(q)
         \/ SaveWrite(q) \/ Crash(q)
  PROVE  proc'[q].cli # "verify"
<1> DEFINE r == proc[q]
<1>1. r \in Processes
  BY DEF TypeInv, TypeOK
<1>0. ASSUME NEW x, Exit(q, x) PROVE proc'[q].cli = "none"
  BY <1>0 DEF Exit, Local, Stopped, TypeInv, TypeOK
<1>2. CASE VerifyReport(q) \/ Crash(q)
  BY <1>2, <1>0 DEF VerifyReport, Crash
<1>3. CASE RecordRevParse(q)
  BY <1>1, <1>3, <1>0 DEF RecordRevParse, At, Local, TypeInv, TypeOK, Processes
<1>4. CASE RecordStatus(q)
  BY <1>1, <1>4, <1>0 DEF RecordStatus, At, Local, TypeInv, TypeOK, Processes
<1>5. CASE RecordBuild(q)
  <2>1. PICK a : \/ Write(q, Stopped(r.man, "error"))
                 \/ Write(q, [r EXCEPT !.pc = "wasm", !.at = a, !.todo = @ \ {a}])
    BY <1>5 DEF RecordBuild
  <2>2. r.cli = "record"
    BY <1>5 DEF RecordBuild, At
  <2>3. CASE Write(q, Stopped(r.man, "error"))
    BY <2>3 DEF Write, Stopped
  <2>4. CASE Write(q, [r EXCEPT !.pc = "wasm", !.at = a, !.todo = @ \ {a}])
    <3>1. proc'[q].cli = "record"
      BY <1>1, <2>2, <2>4 DEF Write, Processes
    <3>2. QED
      BY <3>1
  <2>5. QED
    BY <2>1, <2>3, <2>4
<1>6. CASE RecordWasm(q)
  BY <1>1, <1>6, <1>0 DEF RecordWasm, At, Local, TypeInv, TypeOK, Processes
<1>7. CASE RecordSource(q)
  <2>1. CASE Exit(q, "error")
    BY <2>1, <1>0
  <2>2. ASSUME NEW e, Local(q, [r EXCEPT !.pc = "build", !.at = NoArt, !.got = NoWasm,
                                         !.seal.art[r.at] = e])
        PROVE  proc'[q].cli # "verify"
    <3>1. proc'[q].cli = "record"
      BY <1>1, <1>7, <2>2 DEF RecordSource, At, Local, TypeInv, TypeOK, Processes
    <3>2. QED
      BY <3>1
  <2>3. QED
    BY <1>7, <2>1, <2>2 DEF RecordSource
<1>8. CASE AnalyzeArtifact(q)
  BY <1>1, <1>8, <1>0
     DEF AnalyzeArtifact, At, Local, TypeInv, TypeOK, Processes
<1>9. CASE SaveTruncate(q)
  BY <1>1, <1>9 DEF SaveTruncate, AtSave, At, Write, Processes
<1>10. CASE SaveWrite(q)
  <2>1. PICK x : Write(q, Stopped(r.man, x))
    BY <1>10 DEF SaveWrite
  <2>2. QED
    BY <2>1 DEF Write, Stopped
<1>11. QED
  BY <1>2, <1>3, <1>4, <1>5, <1>6, <1>7, <1>8, <1>9, <1>10

LEMMA VerifyOther ==
  ASSUME TypeInv, NEW q \in Procs,
         \/ RecordRevParse(q) \/ RecordStatus(q) \/ RecordBuild(q) \/ RecordWasm(q)
         \/ RecordSource(q) \/ VerifyReport(q) \/ AnalyzeArtifact(q) \/ SaveTruncate(q)
         \/ SaveWrite(q) \/ Crash(q)
  PROVE  VerifyAgrees(q)'
BY OtherCli, VerifyIdle

LEMMA StepOfOrElsewhere ==
  ASSUME NEW q \in Procs, [Next]_vars
  PROVE  Elsewhere(q) \/ Begin(q) \/ Advance(q) \/ Crash(q)
BY DEF Next, Elsewhere

LEMMA VerifyInvInductive == VerifyInv /\ [Next]_vars => VerifyInv'
<1> SUFFICES ASSUME VerifyInv, [Next]_vars PROVE VerifyInv'
  OBVIOUS
<1>1. TypeInv /\ TypeInv'
  BY TypeStep DEF VerifyInv
<1>2. ASSUME NEW q \in Procs PROVE VerifyAgrees(q)'
  <2>1. VerifyAgrees(q)
    BY DEF VerifyInv
  <2>2. CASE Elsewhere(q)
    BY <1>1, <2>1, <2>2, ElsewhereUndisturbed, VerifyElsewhere
  <2>3. CASE Begin(q)
    BY <1>1, <2>3, VerifyBegin
  <2>4. CASE Advance(q) \/ Crash(q)
    BY <1>1, <2>1, <2>4, VerifyLoad, VerifyGitStep, VerifyOrphanStep, VerifyBuildStep,
       VerifyWasmStep, VerifySourceStep, VerifyOther DEF Advance
  <2>5. QED
    BY <2>2, <2>3, <2>4, StepOfOrElsewhere
<1>3. QED
  BY <1>1, <1>2 DEF VerifyInv

LEMMA VerifyInvSound == VerifyInv => VerifySound
<1> SUFFICES ASSUME VerifyInv, NEW p \in Procs,
                    AtReport(p), proc[p].ok, proc[p].calm
             PROVE  /\ Conforms(proc[p].seal)
                    /\ \A a \in Sealed(proc[p].seal) :
                         MadeBy(proc[p].seal.art[a].wasm, a, work.man.cmd[a])
  BY DEF VerifySound
<1> DEFINE r == proc[p]
<1>1. /\ r.man = work.man /\ r.at = NoArt /\ r.seal.project = r.man.name
      /\ CommitKept(r) /\ NoGap(r)
      /\ \A a \in Sealed(r.seal) : a # NoArt /\ Agrees(r, a)
  <2>1. Dealt(r) = Sealed(r.seal)
    BY DEF AtReport, Dealt
  <2>2. \A a \in Sealed(r.seal) : a # NoArt
    BY SentinelsAssumption DEF Sealed
  <2>3. QED
    BY <2>1, <2>2 DEF VerifyInv, VerifyAgrees, AtReport, At
<1>2. Sealed(r.seal) = Declared(work.man)
  BY <1>1 DEF NoGap, Agrees
<1>3. QED
  BY <1>1, <1>2 DEF Conforms, CommitKept, Agrees

\* A verify that nothing disturbed and that is about to exit 0 is right about
\* the name, the history, the artifacts, their commands, their sources and
\* their wasm, whatever the other subcommands do (runner.rs:140-324).
THEOREM VerifyIsSound == Spec => []VerifySound
<1>1. Init => VerifyInv
  BY InitType DEF VerifyInv, VerifyAgrees, Init, Stopped
<1>2. VerifyInv => VerifySound
  BY VerifyInvSound
<1>3. QED
  BY <1>1, <1>2, VerifyInvInductive, PTL DEF Spec

-----------------------------------------------------------------------------
(***************************************************************************)
(* RecordSound.  An undisturbed record holds entries for exactly the       *)
(* artifacts it has finished, each true of the present tree, and a clean   *)
(* git state means that tree is the sealed commit's.                       *)
(***************************************************************************)
Entered(r) ==
  /\ r.seal.project = r.man.name
  /\ Sealed(r.seal) = Declared(r.man) \ (r.todo \cup {r.at})
  /\ \A a \in Sealed(r.seal) :
       /\ r.seal.art[a].cmd = r.man.cmd[a]
       /\ r.seal.art[a].src = TreeDigest(work.src, work.man, a)
       /\ MadeBy(r.seal.art[a].wasm, a, r.man.cmd[a])

InHand(r) ==
  /\ r.at \notin r.todo
  /\ r.pc = "wasm" => MadeBy(wasm[r.at], r.at, r.man.cmd[r.at])
  /\ r.pc = "source" => MadeBy(r.got, r.at, r.man.cmd[r.at])

AtCommit(r) == head # 0 /\ r.seal.git.commit = head

RecordAgrees(q) ==
  LET r == proc[q] IN
  r.cli = "record" /\ r.calm /\ r.pc # "write" =>
    /\ r.man = work.man
    /\ r.pc \in {"git", "status", "build"} => r.at = NoArt
    /\ r.pc = "status" => /\ AtCommit(r) /\ r.seal.project = r.man.name
                          /\ Sealed(r.seal) = {}
    /\ r.pc \in {"build", "wasm", "source"} =>
         /\ Entered(r)
         /\ r.seal.git.clean => AtCommit(r) /\ work = commits[head].tree
    /\ r.pc \in {"wasm", "source"} => InHand(r)

RecordInv == TypeInv /\ \A q \in Procs : RecordAgrees(q)

LEMMA RecordIdle ==
  ASSUME NEW q \in Procs,
         \/ proc'[q].cli # "record" \/ proc'[q].calm = FALSE \/ proc'[q].pc = "write"
  PROVE  RecordAgrees(q)'
BY DEF RecordAgrees

LEMMA RecordExit ==
  ASSUME TypeInv, NEW q \in Procs, NEW x, Exit(q, x)
  PROVE  RecordAgrees(q)'
<1>1. proc'[q].cli = "none"
  BY DEF Exit, Local, Stopped, TypeInv, TypeOK
<1>2. QED
  BY <1>1, RecordIdle

LEMMA RecordElsewhere ==
  ASSUME TypeInv, NEW q \in Procs, RecordAgrees(q), Undisturbed(q)
  PROVE  RecordAgrees(q)'
<1> DEFINE r == proc[q]
           n == proc'[q]
<1>1. /\ n.cli = r.cli /\ n.pc = r.pc /\ n.man = r.man /\ n.at = r.at
      /\ n.seal = r.seal /\ n.got = r.got /\ n.todo = r.todo
  BY DEF Undisturbed, TypeInv, TypeOK, Processes
<1>2. ASSUME n.cli = "record", n.calm
      PROVE  RecordAgrees(q)'
  <2>1. r.cli = "record" /\ r.calm /\ UNCHANGED <<work, wasm, head, commits>>
    BY <1>1, <1>2 DEF Undisturbed
  <2>2. /\ (Entered(r) <=> Entered(r)') /\ (AtCommit(r) <=> AtCommit(r)')
        /\ Sealed(r.seal) = Sealed(r.seal)'
    BY <1>1, <2>1 DEF Entered, AtCommit, MadeBy, Outcomes, Declared, Sealed, TreeDigest
  <2>3. InHand(r) <=> InHand(r)'
    BY <1>1, <2>1 DEF InHand, MadeBy, Outcomes
  <2>4. QED
    BY <1>1, <2>1, <2>2, <2>3 DEF RecordAgrees
<1>3. QED
  BY <1>2 DEF RecordAgrees

LEMMA RecordBegin ==
  ASSUME TypeInv, NEW q \in Procs, Begin(q)
  PROVE  RecordAgrees(q)'
<1> SUFFICES ASSUME NEW cli, NEW pc, NEW d, cli = "record" => pc = "git", Start(q, cli, pc, d)
             PROVE  RecordAgrees(q)'
  BY DEF Begin, RecordStart, VerifyStart, AnalyzeStart
<1>1. CASE Exit(q, "error")
  BY <1>1, RecordExit
<1>2. CASE Local(q, [Stopped(work.man, "none") EXCEPT
                       !.cli = cli, !.pc = pc, !.dirtyOk = d, !.calm = TRUE])
  <2> DEFINE n == proc'[q]
  <2>1. n.cli = cli /\ n.pc = pc /\ n.man = work.man /\ n.at = NoArt
    BY <1>2 DEF Local, Stopped, TypeInv, TypeOK
  <2>2. work' = work
    BY DEF Start
  <2>3. QED
    BY <2>1, <2>2 DEF RecordAgrees
<1>3. QED
  BY <1>1, <1>2 DEF Start

LEMMA RecordRevParseStep ==
  ASSUME TypeInv, NEW q \in Procs, RecordAgrees(q), RecordRevParse(q)
  PROVE  RecordAgrees(q)'
<1> DEFINE r == proc[q]
           n == proc'[q]
<1>1. /\ r \in Processes /\ r.cli = "record" /\ r.pc = "git"
      /\ UNCHANGED <<work, wasm, head, commits>>
  BY DEF RecordRevParse, At, TypeInv, TypeOK, repo
<1>2. ASSUME NEW b, NEW c
      PROVE  /\ Fresh(r.man, b, c).project = r.man.name
             /\ Fresh(r.man, b, c).git.commit = c /\ Fresh(r.man, b, c).git.clean = FALSE
             /\ Sealed(Fresh(r.man, b, c)) = {}
  BY DEF Fresh, Sealed
<1>3. CASE Exit(q, "error")
  BY <1>3, RecordExit
<1>4. ASSUME head # 0, Local(q, [r EXCEPT !.pc = "status", !.seal = Fresh(r.man, TRUE, head)])
      PROVE  RecordAgrees(q)'
  <2> DEFINE f == Fresh(r.man, TRUE, head)
  <2>1. f.project = r.man.name /\ f.git.commit = head /\ Sealed(f) = {}
    BY <1>2
  <2> HIDE DEF f
  <2>2. /\ n.pc = "status" /\ n.man = r.man /\ n.at = r.at /\ n.seal = f /\ n.calm = r.calm
    BY <1>1, <1>4 DEF f, Local, TypeInv, TypeOK, Processes
  <2>3. Sealed(r.seal)' = {}
    BY <2>1, <2>2 DEF Sealed
  <2>4. QED
    BY <1>1, <1>4, <2>1, <2>2, <2>3 DEF RecordAgrees, AtCommit
<1>5. ASSUME Local(q, [r EXCEPT !.pc = "build", !.seal = Fresh(r.man, FALSE, 0),
                                !.todo = Declared(r.man)])
      PROVE  RecordAgrees(q)'
  <2> DEFINE f == Fresh(r.man, FALSE, 0)
             d == Declared(r.man)
  <2>1. f.project = r.man.name /\ f.git.clean = FALSE /\ Sealed(f) = {}
    BY <1>2
  <2>2. Declared(r.man) = d
    OBVIOUS
  <2> HIDE DEF f, d
  <2>3. /\ n.pc = "build" /\ n.man = r.man /\ n.at = r.at /\ n.seal = f /\ n.calm = r.calm
        /\ n.todo = d
    BY <1>1, <1>5 DEF f, d, Local, TypeInv, TypeOK, Processes
  <2>4. Sealed(r.seal)' = {} /\ Declared(r.man)' = d
    BY <2>1, <2>2, <2>3 DEF Sealed, Declared
  <2>5. Entered(r)'
    BY <2>1, <2>3, <2>4 DEF Entered
  <2>6. QED
    BY <1>1, <2>1, <2>3, <2>5 DEF RecordAgrees
<1>6. QED
  BY <1>3, <1>4, <1>5 DEF RecordRevParse

LEMMA RecordStatusStep ==
  ASSUME TypeInv, NEW q \in Procs, RecordAgrees(q), RecordStatus(q)
  PROVE  RecordAgrees(q)'
<1> DEFINE r == proc[q]
           n == proc'[q]
           d == Declared(r.man)
<1>1. /\ r \in Processes /\ r.cli = "record" /\ r.pc = "status" /\ r.seal \in Seals
      /\ UNCHANGED <<work, wasm, head, commits>>
  BY DEF RecordStatus, At, TypeInv, TypeOK, ShapeOK, HoldsSeal, repo
<1>2. CASE Exit(q, "error")
  BY <1>2, RecordExit
<1>3. CASE Local(q, [r EXCEPT !.pc = "build", !.seal.git.clean = Clean, !.todo = d])
  <2>1. /\ n.pc = "build" /\ n.man = r.man /\ n.at = r.at /\ n.calm = r.calm /\ n.todo = d
        /\ n.seal = [r.seal EXCEPT !.git.clean = Clean]
    BY <1>1, <1>3 DEF Local, TypeInv, TypeOK, Processes
  <2>2. /\ n.seal.project = r.seal.project /\ n.seal.git.commit = r.seal.git.commit
        /\ n.seal.art = r.seal.art /\ n.seal.git.clean = Clean
    BY <1>1, <2>1 DEF Seals, GitStates
  <2>3. Sealed(r.seal)' = Sealed(r.seal) /\ Declared(r.man)' = d
    BY <2>1, <2>2 DEF Sealed, Declared
  <2> HIDE DEF d
  <2> SUFFICES ASSUME n.calm PROVE RecordAgrees(q)'
    BY DEF RecordAgrees
  <2>4. /\ r.man = work.man /\ r.at = NoArt /\ AtCommit(r) /\ r.seal.project = r.man.name
        /\ Sealed(r.seal) = {}
    BY <1>1, <2>1 DEF RecordAgrees
  <2>5. Entered(r)'
    BY <2>1, <2>2, <2>3, <2>4 DEF Entered
  <2>6. AtCommit(r)' /\ (n.seal.git.clean => work' = commits'[head'].tree)
    BY <1>1, <2>2, <2>4 DEF AtCommit, Clean
  <2>7. QED
    BY <1>1, <2>1, <2>4, <2>5, <2>6 DEF RecordAgrees
<1>4. QED
  BY <1>2, <1>3 DEF RecordStatus

LEMMA RecordBuildStep ==
  ASSUME TypeInv, NEW q \in Procs, RecordAgrees(q), RecordBuild(q)
  PROVE  RecordAgrees(q)'
<1> DEFINE r == proc[q]
           n == proc'[q]
           built(a) == [r EXCEPT !.pc = "wasm", !.at = a, !.todo = @ \ {a}]
<1>1. /\ r \in Processes /\ r.cli = "record" /\ r.pc = "build" /\ r.todo \subseteq Declared(r.man)
      /\ UNCHANGED <<head, commits>>
  BY DEF RecordBuild, At, TypeInv, TypeOK, ShapeOK, repo
<1>2. PICK a \in r.todo :
        \E o \in Outcomes(a, r.man.cmd[a]) :
          /\ wasm' = Output(a, o) /\ UNCHANGED work
          /\ Write(q, IF o = Fails \/ wasm'[a] = NoWasm
                        THEN Stopped(r.man, "error") ELSE built(a))
  BY Zenon DEF RecordBuild
<1>3. PICK o \in Outcomes(a, r.man.cmd[a]) :
        /\ wasm' = Output(a, o) /\ UNCHANGED work
        /\ \/ Write(q, Stopped(r.man, "error"))
           \/ o # Fails /\ Write(q, built(a))
  BY Zenon, <1>2
<1>4. a \in Artifacts /\ a \in Declared(r.man) /\ a \in r.todo
  BY <1>1, <1>2 DEF Processes
<1>5. CASE Write(q, Stopped(r.man, "error"))
  BY <1>5, RecordIdle DEF Write, Stopped
<1>6. CASE o # Fails /\ Write(q, built(a))
  <2>1. /\ n.pc = "wasm" /\ n.man = r.man /\ n.at = a /\ n.calm = r.calm
        /\ n.seal = r.seal /\ n.todo = r.todo \ {a}
    BY <1>1, <1>6 DEF Write, Processes
  <2> SUFFICES ASSUME n.calm
               PROVE  RecordAgrees(q)'
    BY DEF RecordAgrees
  <2>2. /\ r.man = work.man /\ r.at = NoArt /\ Entered(r)
        /\ r.seal.git.clean => AtCommit(r) /\ work = commits[head].tree
    BY <1>1, <2>1 DEF RecordAgrees
  <2>3. MadeBy(wasm[a], a, r.man.cmd[a])'
    <3>1. o \in Wasms \cup {Fails, NoOutput}
      <4>1. work.src[a] \in Sources /\ r.man.cmd[a] \in Commands
        BY <1>1, <1>4 DEF TypeInv, TypeOK, Trees, Processes, Manifests, Declared
      <4>2. QED
        BY <1>3, <4>1, ConstantsAssumption DEF Outcomes
    <3>2. CASE o \in Wasms
      <4>1. wasm'[a] = o
        BY <1>3, <1>4, <3>2 DEF Output, TypeInv, TypeOK
      <4>2. QED
        BY <1>3, <2>1, <4>1 DEF MadeBy, Outcomes
    <3>3. CASE o = NoOutput
      BY <1>3, <2>1, <3>3 DEF MadeBy, Outcomes
    <3>4. QED
      BY <1>6, <3>1, <3>2, <3>3
  <2>4. InHand(r)'
    BY <2>1, <2>3 DEF InHand
  <2>5. Entered(r)'
    <3>1. Sealed(r.seal)' = Sealed(r.seal) /\ Declared(r.man)' = Declared(r.man)
      BY <2>1 DEF Sealed, Declared
    <3>2. Declared(r.man) \ (r.todo \cup {r.at}) = Declared(r.man) \ ((r.todo \ {a}) \cup {a})
      BY <1>4, <2>2, SentinelsAssumption DEF Declared
    <3>3. QED
      BY <1>3, <2>1, <2>2, <3>1, <3>2 DEF Entered, MadeBy, Outcomes, TreeDigest
  <2>6. QED
    BY <1>1, <1>3, <2>1, <2>2, <2>4, <2>5 DEF RecordAgrees, AtCommit
<1>7. QED
  BY <1>3, <1>5, <1>6

LEMMA RecordWasmStep ==
  ASSUME TypeInv, NEW q \in Procs, RecordAgrees(q), RecordWasm(q)
  PROVE  RecordAgrees(q)'
<1> DEFINE r == proc[q]
           n == proc'[q]
<1>1. /\ r \in Processes /\ r.cli = "record" /\ r.pc = "wasm"
      /\ UNCHANGED <<work, wasm, head, commits>>
  BY DEF RecordWasm, At, TypeInv, TypeOK, repo
<1>2. CASE Exit(q, "error")
  BY <1>2, RecordExit
<1>3. CASE Local(q, [r EXCEPT !.pc = "source", !.got = wasm[r.at]])
  <2>1. /\ n.pc = "source" /\ n.man = r.man /\ n.at = r.at /\ n.calm = r.calm
        /\ n.seal = r.seal /\ n.todo = r.todo /\ n.got = wasm[r.at]
    BY <1>1, <1>3 DEF Local, TypeInv, TypeOK, Processes
  <2>2. Entered(r) <=> Entered(r)'
    BY <1>1, <2>1 DEF Entered, MadeBy, Outcomes, Declared, Sealed, TreeDigest
  <2>3. InHand(r) => InHand(r)'
    BY <1>1, <2>1 DEF InHand, MadeBy, Outcomes
  <2>4. QED
    BY <1>1, <2>1, <2>2, <2>3 DEF RecordAgrees, AtCommit
<1>4. QED
  BY <1>2, <1>3 DEF RecordWasm

LEMMA RecordSourceStep ==
  ASSUME TypeInv, NEW q \in Procs, RecordAgrees(q), RecordSource(q)
  PROVE  RecordAgrees(q)'
<1> DEFINE r == proc[q]
           n == proc'[q]
           e == [cmd |-> r.man.cmd[r.at], wasm |-> r.got,
                 src |-> TreeDigest(work.src, work.man, r.at)]
<1>1. /\ r \in Processes /\ r.cli = "record" /\ r.pc = "source" /\ r.seal \in Seals
      /\ r.at \in Declared(r.man) /\ r.at \in Artifacts /\ r.got \in Wasms
      /\ r.man \in Manifests /\ r.todo \subseteq Declared(r.man)
      /\ UNCHANGED <<work, wasm, head, commits>>
  BY DEF RecordSource, At, TypeInv, TypeOK, ShapeOK, HoldsSeal, Processes, Declared, repo
<1>2. CASE Exit(q, "error")
  BY <1>2, RecordExit
<1>3. CASE Local(q, [r EXCEPT !.pc = "build", !.at = NoArt, !.got = NoWasm,
                              !.seal.art[r.at] = e])
  <2>1. e \in Entries
    <3>1. r.man.cmd[r.at] \in Commands
      BY <1>1 DEF Manifests, Declared
    <3>2. TreeDigest(work.src, work.man, r.at) \in Digests
      BY <1>1 DEF Digests, TypeInv, TypeOK, Trees
    <3>3. QED
      BY <1>1, <3>1, <3>2 DEF Entries
  <2>2. e.cmd = r.man.cmd[r.at] /\ e.wasm = r.got /\ e.src = TreeDigest(work.src, work.man, r.at)
    OBVIOUS
  <2> HIDE DEF e
  <2>3. /\ n.pc = "build" /\ n.man = r.man /\ n.at = NoArt /\ n.calm = r.calm
        /\ n.todo = r.todo /\ n.seal = [r.seal EXCEPT !.art[r.at] = e]
    BY <1>1, <1>3 DEF Local, TypeInv, TypeOK, Processes
  <2>4. /\ n.seal.project = r.seal.project /\ n.seal.git = r.seal.git
        /\ n.seal.art = [r.seal.art EXCEPT ![r.at] = e]
        /\ r.seal.art \in [Artifacts -> Entries \cup {Unsealed}]
    BY <1>1, <2>3 DEF Seals
  <2> SUFFICES ASSUME n.calm
               PROVE  RecordAgrees(q)'
    BY DEF RecordAgrees
  <2>5. /\ r.man = work.man /\ Entered(r) /\ InHand(r)
        /\ r.seal.git.clean => AtCommit(r) /\ work = commits[head].tree
    BY <1>1, <2>3 DEF RecordAgrees
  <2>6. Sealed(r.seal)' = Sealed(r.seal) \cup {r.at}
    BY <1>1, <2>1, <2>4, SentinelsAssumption DEF Sealed
  <2>7. Sealed(r.seal)' = Declared(r.man) \ (r.todo \cup {NoArt})
    BY <1>1, <2>5, <2>6, SentinelsAssumption DEF Entered, InHand, Declared
  <2>8. ASSUME NEW a \in Sealed(r.seal)'
        PROVE  /\ n.seal.art[a].cmd = n.man.cmd[a]
               /\ n.seal.art[a].src = TreeDigest(work.src, work.man, a)
               /\ MadeBy(n.seal.art[a].wasm, a, n.man.cmd[a])
    <3>1. CASE a = r.at
      BY <1>1, <2>2, <2>3, <2>4, <2>5, <3>1 DEF InHand
    <3>2. CASE a # r.at
      <4>1. a \in Sealed(r.seal) /\ n.seal.art[a] = r.seal.art[a]
        BY <1>1, <2>4, <2>6, <3>2 DEF Sealed
      <4>2. QED
        BY <2>3, <2>5, <4>1 DEF Entered
    <3>3. QED
      BY <3>1, <3>2
  <2>9. Entered(r)'
    BY <1>1, <2>3, <2>4, <2>5, <2>7, <2>8
       DEF Entered, MadeBy, Outcomes, TreeDigest, Declared
  <2>10. QED
    BY <1>1, <2>3, <2>4, <2>5, <2>9 DEF RecordAgrees, AtCommit
<1>4. QED
  BY <1>2, <1>3 DEF RecordSource

\* The last step of record, and those of verify and analyze.
LEMMA RecordOther ==
  ASSUME TypeInv, NEW q \in Procs,
         \/ LoadSeal(q) \/ VerifyGit(q) \/ VerifyOrphan(q) \/ VerifyBuild(q) \/ VerifyWasm(q)
         \/ VerifySource(q) \/ VerifyReport(q) \/ AnalyzeArtifact(q) \/ SaveTruncate(q)
         \/ SaveWrite(q) \/ Crash(q)
  PROVE  RecordAgrees(q)'
<1> DEFINE r == proc[q]
<1>1. r \in Processes
  BY DEF TypeInv, TypeOK
<1>2. CASE VerifyReport(q) \/ Crash(q)
  BY <1>2, RecordExit DEF VerifyReport, Crash
<1>3. CASE LoadSeal(q)
  <2>1. CASE Exit(q, "error")
    BY <2>1, RecordExit
  <2>2. ASSUME r.cli # "record", NEW b, NEW t,
               \/ Local(q, [r EXCEPT !.pc = "git", !.seal = work.prov, !.ok = b])
               \/ Local(q, [r EXCEPT !.pc = "scan", !.seal = work.prov, !.todo = t])
        PROVE  RecordAgrees(q)'
    <3>1. proc'[q].cli = r.cli
      <4>1. CASE Local(q, [r EXCEPT !.pc = "git", !.seal = work.prov, !.ok = b])
        BY <1>1, <4>1 DEF Local, TypeInv, TypeOK, Processes
      <4>2. CASE Local(q, [r EXCEPT !.pc = "scan", !.seal = work.prov, !.todo = t])
        BY <1>1, <4>2 DEF Local, TypeInv, TypeOK, Processes
      <4>3. QED
        BY <2>2, <4>1, <4>2
    <3>2. QED
      BY <2>2, <3>1, RecordIdle
  <2>3. QED
    BY <1>3, <2>1, <2>2 DEF LoadSeal
<1>4. CASE VerifyGit(q)
  BY <1>1, <1>4, RecordIdle, RecordExit DEF VerifyGit, At, Local, TypeInv, TypeOK, Processes
<1>5. CASE VerifyOrphan(q)
  BY <1>1, <1>5, RecordIdle DEF VerifyOrphan, At, Local, TypeInv, TypeOK, Processes
<1>6. CASE VerifyBuild(q)
  <2>1. PICK a, b : \/ Write(q, [r EXCEPT !.todo = @ \ {a}, !.ok = FALSE])
                    \/ Write(q, [r EXCEPT !.pc = "wasm", !.at = a, !.todo = @ \ {a}, !.ok = b])
    BY <1>6 DEF VerifyBuild
  <2>2. r.cli = "verify"
    BY <1>6 DEF VerifyBuild, At
  <2>3. proc'[q].cli = "verify"
    BY <1>1, <2>1, <2>2 DEF Write, Processes
  <2>4. QED
    BY <2>3, RecordIdle
<1>7. CASE VerifyWasm(q)
  BY <1>1, <1>7, RecordIdle, RecordExit DEF VerifyWasm, At, Local, TypeInv, TypeOK, Processes
<1>8. CASE VerifySource(q)
  <2>1. PICK b : \/ Exit(q, "error")
                 \/ Local(q, [r EXCEPT !.pc = "build", !.at = NoArt, !.ok = b])
    BY <1>8 DEF VerifySource
  <2>2. CASE Exit(q, "error")
    BY <2>2, RecordExit
  <2>3. CASE Local(q, [r EXCEPT !.pc = "build", !.at = NoArt, !.ok = b])
    <3>1. proc'[q].cli = r.cli /\ r.cli = "verify"
      BY <1>1, <1>8, <2>3 DEF VerifySource, At, Local, TypeInv, TypeOK, Processes
    <3>2. QED
      BY <3>1, RecordIdle
  <2>4. QED
    BY <2>1, <2>2, <2>3
<1>9. CASE AnalyzeArtifact(q)
  <2>1. PICK a, l : \/ Exit(q, "error")
                    \/ Local(q, [r EXCEPT !.todo = @ \ {a}, !.seal.analysis = l])
    BY <1>9 DEF AnalyzeArtifact
  <2>2. CASE Exit(q, "error")
    BY <2>2, RecordExit
  <2>3. CASE Local(q, [r EXCEPT !.todo = @ \ {a}, !.seal.analysis = l])
    <3>1. proc'[q].cli = r.cli /\ r.cli = "analyze"
      BY <1>1, <1>9, <2>3 DEF AnalyzeArtifact, At, Local, TypeInv, TypeOK, Processes
    <3>2. QED
      BY <3>1, RecordIdle
  <2>4. QED
    BY <2>1, <2>2, <2>3
<1>10. CASE SaveTruncate(q)
  BY <1>1, <1>10, RecordIdle DEF SaveTruncate, Write, Processes
<1>11. CASE SaveWrite(q)
  <2>1. PICK x : Write(q, Stopped(r.man, x))
    BY <1>11 DEF SaveWrite
  <2>2. QED
    BY <2>1, RecordIdle DEF Write, Stopped
<1>12. QED
  BY <1>2, <1>3, <1>4, <1>5, <1>6, <1>7, <1>8, <1>9, <1>10, <1>11

LEMMA RecordInvInductive == RecordInv /\ [Next]_vars => RecordInv'
<1> SUFFICES ASSUME RecordInv, [Next]_vars PROVE RecordInv'
  OBVIOUS
<1>1. TypeInv /\ TypeInv'
  BY TypeStep DEF RecordInv
<1>2. ASSUME NEW q \in Procs PROVE RecordAgrees(q)'
  <2>1. RecordAgrees(q)
    BY DEF RecordInv
  <2>2. CASE Elsewhere(q)
    BY <1>1, <2>1, <2>2, ElsewhereUndisturbed, RecordElsewhere
  <2>3. CASE Begin(q)
    BY <1>1, <2>3, RecordBegin
  <2>4. CASE Advance(q) \/ Crash(q)
    BY <1>1, <2>1, <2>4, RecordRevParseStep, RecordStatusStep, RecordBuildStep,
       RecordWasmStep, RecordSourceStep, RecordOther DEF Advance
  <2>5. QED
    BY <2>2, <2>3, <2>4, StepOfOrElsewhere
<1>3. QED
  BY <1>1, <1>2 DEF RecordInv

LEMMA RecordInvSound == RecordInv => RecordSound
<1> SUFFICES ASSUME RecordInv, NEW p \in Procs,
                    ReadyToSeal(p), proc[p].calm, proc[p].seal.git.clean
             PROVE  /\ DescribesCommit(proc[p].seal)
                    /\ \A a \in Sealed(proc[p].seal) :
                         MadeBy(proc[p].seal.art[a].wasm, a, proc[p].seal.art[a].cmd)
  BY DEF RecordSound
<1> DEFINE r == proc[p]
<1>1. /\ r.man = work.man /\ r.at = NoArt /\ r.todo = {} /\ Entered(r)
      /\ head # 0 /\ r.seal.git.commit = head /\ work = commits[head].tree
  BY DEF RecordInv, RecordAgrees, AtCommit, ReadyToSeal, AtSave, At
<1>2. head \in 1..Len(commits)
  BY <1>1 DEF RecordInv, TypeInv, TypeOK
<1>3. Sealed(r.seal) = Declared(work.man)
  BY <1>1, SentinelsAssumption DEF Entered, Declared
<1>4. QED
  BY <1>1, <1>2, <1>3 DEF DescribesCommit, Entered

\* A record that nothing disturbed and that found a clean tree seals the name,
\* commands and sources of the commit it names, with wasm its commands make of
\* them (runner.rs:71-136).
THEOREM RecordIsSound == Spec => []RecordSound
<1>1. Init => RecordInv
  BY InitType DEF RecordInv, RecordAgrees, Init, Stopped
<1>2. RecordInv => RecordSound
  BY RecordInvSound
<1>3. QED
  BY <1>1, <1>2, RecordInvInductive, PTL DEF Spec

-----------------------------------------------------------------------------
(***************************************************************************)
(* NoDirtySeal.  Where --allow-dirty is never given, every seal in memory  *)
(* past the refusal, on disk, staged or committed is clean.                *)
(***************************************************************************)
CleanSeal(s) == s.git.present => s.git.clean
CleanTree(t) == t.prov \notin {Missing, Corrupt} => CleanSeal(t.prov)

CleanMemory(r) ==
  /\ r.dirtyOk = FALSE
  /\ HoldsSeal(r) /\ r.pc # "status" => CleanSeal(r.seal)

CleanFiles ==
  /\ CleanTree(work) /\ CleanTree(index)
  /\ \A k \in 1..Len(commits) : CleanTree(commits[k].tree)

CleanInv ==
  TypeInv /\ (TRUE \notin AllowDirty =>
                CleanFiles /\ \A q \in Procs : CleanMemory(proc[q]))

LEMMA CleanStopped ==
  ASSUME NEW m, NEW x
  PROVE  CleanMemory(Stopped(m, x))
BY DEF CleanMemory, Stopped, HoldsSeal

LEMMA CleanExit ==
  ASSUME TypeInv, NEW q \in Procs, NEW x, Exit(q, x)
  PROVE  CleanMemory(proc'[q])
<1>1. proc'[q] = Stopped(proc[q].man, x)
  BY DEF Exit, Local, TypeInv, TypeOK
<1>2. QED
  BY <1>1, CleanStopped

\* A step that leaves the git state of a held seal alone.
LEMMA CleanKept ==
  ASSUME NEW r, CleanMemory(r), HoldsSeal(r), r.pc # "status",
         NEW n, n.dirtyOk = r.dirtyOk, n.seal.git = r.seal.git
  PROVE  CleanMemory(n)
BY DEF CleanMemory, CleanSeal

LEMMA CleanElsewhere ==
  ASSUME TypeInv, NEW q \in Procs, CleanMemory(proc[q]), Undisturbed(q)
  PROVE  CleanMemory(proc'[q])
<1>1. /\ proc'[q].dirtyOk = proc[q].dirtyOk /\ proc'[q].seal = proc[q].seal
      /\ proc'[q].pc = proc[q].pc /\ proc'[q].cli = proc[q].cli
  BY DEF Undisturbed, TypeInv, TypeOK, Processes
<1>2. QED
  BY <1>1 DEF CleanMemory, CleanSeal, HoldsSeal

LEMMA CleanBegin ==
  ASSUME TypeInv, TRUE \notin AllowDirty, NEW q \in Procs, Begin(q)
  PROVE  CleanMemory(proc'[q])
<1> SUFFICES ASSUME NEW cli, NEW pc, cli = "verify" => pc = "load", pc \in {"git", "load"},
                    Start(q, cli, pc, FALSE)
             PROVE  CleanMemory(proc'[q])
  BY ConstantsAssumption DEF Begin, RecordStart, VerifyStart, AnalyzeStart
<1>1. CASE Exit(q, "error")
  BY <1>1, CleanExit
<1>2. CASE Local(q, [Stopped(work.man, "none") EXCEPT
                       !.cli = cli, !.pc = pc, !.dirtyOk = FALSE, !.calm = TRUE])
  <2>1. proc'[q].cli = cli /\ proc'[q].pc = pc /\ proc'[q].dirtyOk = FALSE
    BY <1>2 DEF Local, Stopped, TypeInv, TypeOK
  <2>2. QED
    BY <2>1 DEF CleanMemory, HoldsSeal
<1>3. QED
  BY <1>1, <1>2 DEF Start

LEMMA CleanRevParse ==
  ASSUME TypeInv, NEW q \in Procs, CleanMemory(proc[q]), RecordRevParse(q)
  PROVE  CleanMemory(proc'[q])
<1> DEFINE r == proc[q]
<1>1. r \in Processes
  BY DEF TypeInv, TypeOK
<1>2. CASE Exit(q, "error")
  BY <1>2, CleanExit
<1>3. ASSUME NEW f, Local(q, [r EXCEPT !.pc = "status", !.seal = f])
      PROVE  CleanMemory(proc'[q])
  <2>1. proc'[q].dirtyOk = r.dirtyOk /\ proc'[q].pc = "status"
    BY <1>1, <1>3 DEF Local, TypeInv, TypeOK, Processes
  <2>2. QED
    BY <2>1 DEF CleanMemory
<1>4. ASSUME NEW f, f.git.present = FALSE, NEW d,
             Local(q, [r EXCEPT !.pc = "build", !.seal = f, !.todo = d])
      PROVE  CleanMemory(proc'[q])
  <2>1. proc'[q].dirtyOk = r.dirtyOk /\ proc'[q].seal = f
    BY <1>1, <1>4 DEF Local, TypeInv, TypeOK, Processes
  <2>2. QED
    BY <1>4, <2>1 DEF CleanMemory, CleanSeal
<1>5. Fresh(r.man, FALSE, 0).git.present = FALSE
  BY DEF Fresh
<1>6. QED
  BY <1>2, <1>3, <1>4, <1>5 DEF RecordRevParse

LEMMA CleanStatus ==
  ASSUME TypeInv, NEW q \in Procs, CleanMemory(proc[q]), RecordStatus(q)
  PROVE  CleanMemory(proc'[q])
<1> DEFINE r == proc[q]
<1>1. r \in Processes /\ r.seal \in Seals /\ r.dirtyOk = FALSE
  BY DEF RecordStatus, At, TypeInv, TypeOK, ShapeOK, HoldsSeal, CleanMemory
<1>2. CASE Exit(q, "error")
  BY <1>2, CleanExit
<1>3. ASSUME NEW d, MaySeal(r),
             Local(q, [r EXCEPT !.pc = "build", !.seal.git.clean = Clean, !.todo = d])
      PROVE  CleanMemory(proc'[q])
  <2>1. Clean
    BY <1>1, <1>3 DEF MaySeal
  <2>2. proc'[q].dirtyOk = FALSE /\ proc'[q].seal = [r.seal EXCEPT !.git.clean = Clean]
    BY <1>1, <1>3 DEF Local, TypeInv, TypeOK, Processes
  <2>3. proc'[q].seal.git.clean = Clean
    BY <1>1, <2>2 DEF Seals, GitStates
  <2>4. QED
    BY <2>1, <2>2, <2>3 DEF CleanMemory, CleanSeal
<1>4. QED
  BY <1>2, <1>3 DEF RecordStatus

LEMMA CleanLoad ==
  ASSUME TypeInv, NEW q \in Procs, CleanMemory(proc[q]), CleanFiles, LoadSeal(q)
  PROVE  CleanMemory(proc'[q])
<1> DEFINE r == proc[q]
<1>1. r \in Processes
  BY DEF TypeInv, TypeOK
<1>2. CASE Exit(q, "error")
  BY <1>2, CleanExit
<1>3. ASSUME work.prov \notin {Missing, Corrupt}, NEW b,
             Local(q, [r EXCEPT !.pc = "git", !.seal = work.prov, !.ok = b])
      PROVE  CleanMemory(proc'[q])
  <2>1. proc'[q].dirtyOk = r.dirtyOk /\ proc'[q].seal = work.prov
    BY <1>1, <1>3 DEF Local, TypeInv, TypeOK, Processes
  <2>2. QED
    BY <1>3, <2>1 DEF CleanMemory, CleanFiles, CleanTree
<1>4. ASSUME work.prov \notin {Missing, Corrupt}, NEW d,
             Local(q, [r EXCEPT !.pc = "scan", !.seal = work.prov, !.todo = d])
      PROVE  CleanMemory(proc'[q])
  <2>1. proc'[q].dirtyOk = r.dirtyOk /\ proc'[q].seal = work.prov
    BY <1>1, <1>4 DEF Local, TypeInv, TypeOK, Processes
  <2>2. QED
    BY <1>4, <2>1 DEF CleanMemory, CleanFiles, CleanTree
<1>5. QED
  BY <1>2, <1>3, <1>4 DEF LoadSeal

\* The steps that leave the git state of the seal they hold alone.
LEMMA CleanOther ==
  ASSUME TypeInv, NEW q \in Procs, CleanMemory(proc[q]),
         \/ RecordBuild(q) \/ RecordWasm(q) \/ RecordSource(q) \/ VerifyGit(q)
         \/ VerifyOrphan(q) \/ VerifyBuild(q) \/ VerifyWasm(q) \/ VerifySource(q)
         \/ AnalyzeArtifact(q) \/ SaveTruncate(q)
  PROVE  CleanMemory(proc'[q])
<1> DEFINE r == proc[q]
           n == proc'[q]
<1>1. r \in Processes /\ HoldsSeal(r) /\ r.pc # "status" /\ r.seal \in Seals
  BY DEF RecordBuild, RecordWasm, RecordSource, VerifyGit, VerifyOrphan, VerifyBuild,
         VerifyWasm, VerifySource, AnalyzeArtifact, SaveTruncate, AtSave, At, HoldsSeal,
         TypeInv, TypeOK, ShapeOK
<1> SUFFICES \/ n.dirtyOk = r.dirtyOk /\ n.seal.git = r.seal.git
             \/ \E x : n = Stopped(r.man, x)
  BY <1>1, CleanKept, CleanStopped
<1> DEFINE Kept == n.dirtyOk = r.dirtyOk /\ n.seal.git = r.seal.git
           Gone == \E x : n = Stopped(r.man, x)
<1>2. ASSUME NEW x, Exit(q, x) \/ Write(q, Stopped(r.man, x))
      PROVE  Gone
  BY <1>2 DEF Exit, Local, Write, TypeInv, TypeOK
<1>3. CASE RecordBuild(q)
  <2>1. PICK a : \/ Write(q, Stopped(r.man, "error"))
                 \/ Write(q, [r EXCEPT !.pc = "wasm", !.at = a, !.todo = @ \ {a}])
    BY <1>3 DEF RecordBuild
  <2>2. ASSUME Write(q, [r EXCEPT !.pc = "wasm", !.at = a, !.todo = @ \ {a}])
        PROVE  Kept
    BY <1>1, <2>2 DEF Write, Processes
  <2>3. QED
    BY <1>2, <2>1, <2>2
<1>4. CASE RecordWasm(q)
  <2>1. PICK w : \/ Exit(q, "error") \/ Local(q, [r EXCEPT !.pc = "source", !.got = w])
    BY <1>4 DEF RecordWasm
  <2>2. ASSUME Local(q, [r EXCEPT !.pc = "source", !.got = w])
        PROVE  Kept
    BY <1>1, <2>2 DEF Local, TypeInv, TypeOK, Processes
  <2>3. QED
    BY <1>2, <2>1, <2>2
<1>5. CASE RecordSource(q)
  <2>1. PICK e : \/ Exit(q, "error")
                 \/ Local(q, [r EXCEPT !.pc = "build", !.at = NoArt, !.got = NoWasm,
                                       !.seal.art[r.at] = e])
    BY <1>5 DEF RecordSource
  <2>2. ASSUME Local(q, [r EXCEPT !.pc = "build", !.at = NoArt, !.got = NoWasm,
                                  !.seal.art[r.at] = e])
        PROVE  Kept
    <3>1. n.dirtyOk = r.dirtyOk /\ n.seal = [r.seal EXCEPT !.art[r.at] = e]
      BY <1>1, <2>2 DEF Local, TypeInv, TypeOK, Processes
    <3>2. QED
      BY <1>1, <3>1 DEF Seals
  <2>3. QED
    BY <1>2, <2>1, <2>2
<1>6. CASE VerifyGit(q)
  <2>1. PICK b : \/ Exit(q, "error")
                 \/ Local(q, [r EXCEPT !.pc = "build", !.todo = Sealed(r.seal), !.ok = b])
    BY <1>6 DEF VerifyGit
  <2>2. ASSUME Local(q, [r EXCEPT !.pc = "build", !.todo = Sealed(r.seal), !.ok = b])
        PROVE  Kept
    BY <1>1, <2>2 DEF Local, TypeInv, TypeOK, Processes
  <2>3. QED
    BY <1>2, <2>1, <2>2
<1>7. CASE VerifyOrphan(q)
  <2>1. PICK a : Local(q, [r EXCEPT !.todo = @ \ {a}, !.ok = FALSE])
    BY <1>7 DEF VerifyOrphan
  <2>2. QED
    BY <1>1, <2>1 DEF Local, TypeInv, TypeOK, Processes
<1>8. CASE VerifyBuild(q)
  <2>1. PICK a, b : \/ Write(q, [r EXCEPT !.todo = @ \ {a}, !.ok = FALSE])
                    \/ Write(q, [r EXCEPT !.pc = "wasm", !.at = a, !.todo = @ \ {a}, !.ok = b])
    BY <1>8 DEF VerifyBuild
  <2>2. QED
    BY <1>1, <2>1 DEF Write, Processes
<1>9. CASE VerifyWasm(q)
  <2>1. PICK b : \/ Exit(q, "error") \/ Local(q, [r EXCEPT !.pc = "source", !.ok = b])
    BY <1>9 DEF VerifyWasm
  <2>2. ASSUME Local(q, [r EXCEPT !.pc = "source", !.ok = b])
        PROVE  Kept
    BY <1>1, <2>2 DEF Local, TypeInv, TypeOK, Processes
  <2>3. QED
    BY <1>2, <2>1, <2>2
<1>10. CASE VerifySource(q)
  <2>1. PICK b : \/ Exit(q, "error")
                 \/ Local(q, [r EXCEPT !.pc = "build", !.at = NoArt, !.ok = b])
    BY <1>10 DEF VerifySource
  <2>2. ASSUME Local(q, [r EXCEPT !.pc = "build", !.at = NoArt, !.ok = b])
        PROVE  Kept
    BY <1>1, <2>2 DEF Local, TypeInv, TypeOK, Processes
  <2>3. QED
    BY <1>2, <2>1, <2>2
<1>11. CASE AnalyzeArtifact(q)
  <2>1. PICK a, l : \/ Exit(q, "error")
                    \/ Local(q, [r EXCEPT !.todo = @ \ {a}, !.seal.analysis = l])
    BY <1>11 DEF AnalyzeArtifact
  <2>2. ASSUME Local(q, [r EXCEPT !.todo = @ \ {a}, !.seal.analysis = l])
        PROVE  Kept
    <3>1. n.dirtyOk = r.dirtyOk /\ n.seal = [r.seal EXCEPT !.analysis = l]
      BY <1>1, <2>2 DEF Local, TypeInv, TypeOK, Processes
    <3>2. QED
      BY <1>1, <3>1 DEF Seals
  <2>3. QED
    BY <1>2, <2>1, <2>2
<1>12. CASE SaveTruncate(q)
  BY <1>1, <1>12 DEF SaveTruncate, Write, Processes
<1>13. QED
  BY <1>3, <1>4, <1>5, <1>6, <1>7, <1>8, <1>9, <1>10, <1>11, <1>12

LEMMA TamperedGit ==
  ASSUME NEW s \in Seals, NEW v \in Tampered(s)
  PROVE  v.git = s.git
<1> DEFINE resealed(a, w) == [s EXCEPT !.art[a].wasm = w]
           redone(i, d) == [s EXCEPT !.analysis[i].digest = d]
<1>1. \A a, w : resealed(a, w).git = s.git
  BY DEF Seals
<1>2. \A i, d : redone(i, d).git = s.git
  BY DEF Seals
<1>3. Tampered(s) = {resealed(a, w) : a \in Sealed(s), w \in Wasms}
                      \cup {redone(i, d) : i \in 1..Len(s.analysis), d \in Audits}
  BY DEF Tampered
<1> HIDE DEF resealed, redone
<1>4. QED
  BY <1>1, <1>2, <1>3

LEMMA NewCommitClean ==
  ASSUME TypeInv, CleanFiles, NewCommit, UNCHANGED <<work, index>>
  PROVE  CleanFiles'
<1> DEFINE c == [tree |-> index, anc |-> Ancestors \cup {Len(commits) + 1}]
<1>1. commits' = Append(commits, c) /\ c.tree = index
  BY DEF NewCommit
<1> HIDE DEF c
<1>2. ASSUME NEW k \in 1..Len(commits')
      PROVE  commits'[k] = c \/ (k \in 1..Len(commits) /\ commits'[k] = commits[k])
  BY <1>1, <1>2 DEF TypeInv, TypeOK
<1>3. QED
  BY <1>1, <1>2 DEF CleanFiles, CleanTree, CleanSeal

\* What git does to the shared files, and what the developer does to the seal.
LEMMA CleanDeveloper ==
  ASSUME TypeInv, CleanFiles, Developer
  PROVE  CleanFiles'
<1>1. CASE EditSource \/ EditManifest \/ Wipe
  <2>1. work'.prov = work.prov /\ UNCHANGED <<index, commits>>
    BY <1>1 DEF EditSource, EditManifest, Wipe, repo, TypeInv, TypeOK, Trees
  <2>2. QED
    BY <2>1 DEF CleanFiles, CleanTree, CleanSeal
<1>2. CASE EditSeal
  <2>1. PICK v \in {Missing, Corrupt} \cup
                   IF work.prov \in {Missing, Corrupt} THEN {} ELSE Tampered(work.prov) :
          work' = [work EXCEPT !.prov = v]
    BY <1>2 DEF EditSeal
  <2>2. UNCHANGED <<index, commits>> /\ work'.prov = v
    BY <1>2, <2>1 DEF EditSeal, repo, TypeInv, TypeOK, Trees
  <2>3. ASSUME v \in Tampered(work.prov), work.prov \in Seals
        PROVE  v.git = work.prov.git
    BY <2>3, TamperedGit
  <2>4. work.prov \notin {Missing, Corrupt} => work.prov \in Seals
    BY DEF TypeInv, TypeOK, Trees
  <2>5. CleanTree(work)'
    BY <2>1, <2>2, <2>3, <2>4 DEF CleanFiles, CleanTree, CleanSeal
  <2>6. QED
    BY <2>2, <2>5 DEF CleanFiles, CleanTree, CleanSeal
<1>3. CASE GitInit \/ GitRemove \/ Stage
  <2>1. work' = work /\ index' \in {work, index} /\ commits' = commits
    BY <1>3 DEF GitInit, GitRemove, Stage
  <2>2. QED
    BY <2>1 DEF CleanFiles, CleanTree, CleanSeal
<1>4. CASE Commit
  BY <1>4, NewCommitClean DEF Commit, NewCommit
<1>5. CASE Reset
  <2>1. PICK k \in Ancestors :
          /\ work' = [commits[k].tree EXCEPT !.prov = work'.prov]
          /\ work'.prov \in {work.prov, commits[k].tree.prov}
          /\ index' = commits[k].tree /\ commits' = commits
    <3>1. PICK k \in Ancestors :
            \E v \in {work.prov, commits[k].tree.prov} :
              /\ work' = [commits[k].tree EXCEPT !.prov = v]
              /\ index' = commits[k].tree /\ commits' = commits
      BY <1>5 DEF Reset
    <3>2. commits[k] \in [tree : Trees, anc : SUBSET (1..MaxCommits)]
      <4>1. k \in 1..Len(commits)
        BY <3>1 DEF Ancestors, TypeInv, TypeOK, AncestorsOK
      <4>2. QED
        BY <4>1, ElementOfSeq DEF TypeInv, TypeOK
    <3>3. QED
      BY <3>1, <3>2 DEF Trees
  <2>2. k \in 1..Len(commits)
    BY <2>1 DEF Ancestors, TypeInv, TypeOK, AncestorsOK
  <2>3. QED
    BY <2>1, <2>2 DEF CleanFiles, CleanTree, CleanSeal
<1>6. QED
  BY <1>1, <1>2, <1>3, <1>4, <1>5 DEF Developer

LEMMA CleanSave ==
  ASSUME TypeInv, CleanFiles, NEW p \in Procs, CleanMemory(proc[p]),
         Begin(p) \/ Advance(p) \/ Crash(p)
  PROVE  CleanFiles'
<1>1. UNCHANGED <<index, commits>>
  BY DEF Begin, RecordStart, VerifyStart, AnalyzeStart, Start, Advance, Crash, RecordRevParse,
         RecordStatus, RecordBuild, RecordWasm, RecordSource, LoadSeal, VerifyGit,
         VerifyOrphan, VerifyBuild, VerifyWasm, VerifySource, VerifyReport, AnalyzeArtifact,
         SaveTruncate, SaveWrite, repo
<1>2. CASE work' = work
  BY <1>1, <1>2 DEF CleanFiles, CleanTree, CleanSeal
<1>3. CASE SaveTruncate(p)
  <2>1. work'.prov = Corrupt
    BY <1>3 DEF SaveTruncate, TypeInv, TypeOK, Trees
  <2>2. QED
    BY <1>1, <2>1 DEF CleanFiles, CleanTree, CleanSeal
<1>4. CASE SaveWrite(p)
  <2>1. work'.prov \in {proc[p].seal, Corrupt}
    BY <1>4 DEF SaveWrite, TypeInv, TypeOK, Trees
  <2>2. CleanSeal(proc[p].seal)
    BY <1>4 DEF SaveWrite, CleanMemory, HoldsSeal
  <2>3. QED
    BY <1>1, <2>1, <2>2 DEF CleanFiles, CleanTree, CleanSeal
<1>5. work' = work \/ SaveTruncate(p) \/ SaveWrite(p)
  BY DEF Begin, RecordStart, VerifyStart, AnalyzeStart, Start, Advance, Crash, RecordRevParse,
         RecordStatus, RecordBuild, RecordWasm, RecordSource, LoadSeal, VerifyGit,
         VerifyOrphan, VerifyBuild, VerifyWasm, VerifySource, VerifyReport, AnalyzeArtifact
<1>6. QED
  BY <1>2, <1>3, <1>4, <1>5

LEMMA CleanInvInductive == CleanInv /\ [Next]_vars => CleanInv'
<1> SUFFICES ASSUME CleanInv, [Next]_vars PROVE CleanInv'
  OBVIOUS
<1>1. TypeInv /\ TypeInv'
  BY TypeStep DEF CleanInv
<1>2. ASSUME TRUE \notin AllowDirty
      PROVE  CleanFiles' /\ \A q \in Procs : CleanMemory(proc'[q])
  <2>1. CleanFiles /\ \A q \in Procs : CleanMemory(proc[q])
    BY <1>2 DEF CleanInv
  <2>2. ASSUME NEW q \in Procs PROVE CleanMemory(proc'[q])
    <3>1. CASE Elsewhere(q)
      BY <1>1, <2>1, <3>1, ElsewhereUndisturbed, CleanElsewhere
    <3>2. CASE Begin(q)
      BY <1>1, <1>2, <3>2, CleanBegin
    <3>3. CASE VerifyReport(q) \/ Crash(q)
      BY <1>1, <3>3, CleanExit DEF VerifyReport, Crash
    <3>4. CASE SaveWrite(q)
      BY <3>4, CleanStopped DEF SaveWrite, Write
    <3>5. CASE Advance(q)
      BY <1>1, <2>1, <3>3, <3>4, <3>5, CleanRevParse, CleanStatus, CleanLoad, CleanOther
         DEF Advance
    <3>6. QED
      BY <3>1, <3>2, <3>3, <3>5, StepOfOrElsewhere
  <2>3. CleanFiles'
    <3>1. CASE UNCHANGED vars
      BY <2>1, <3>1 DEF vars, CleanFiles, CleanTree, CleanSeal
    <3>2. CASE Developer
      BY <1>1, <2>1, <3>2, CleanDeveloper
    <3>3. ASSUME NEW p \in Procs, Begin(p) \/ Advance(p) \/ Crash(p)
          PROVE  CleanFiles'
      BY <1>1, <2>1, <3>3, CleanSave
    <3>4. QED
      BY <3>1, <3>2, <3>3 DEF Next
  <2>4. QED
    BY <2>2, <2>3
<1>3. QED
  BY <1>1, <1>2 DEF CleanInv

LEMMA CleanInvSeals == CleanInv => NoDirtySeal
BY DEF CleanInv, CleanFiles, CleanTree, CleanSeal, NoDirtySeal, StoredSeals, SealsIn

\* Where --allow-dirty is never given, no seal on disk, staged or committed
\* says that its tree was dirty, however it got there (runner.rs:75-80).
THEOREM NeverDirty == Spec => []NoDirtySeal
<1>1. Init => CleanInv
  <2> SUFFICES ASSUME Init PROVE CleanInv
    OBVIOUS
  <2>1. CleanFiles
    BY DEF Init, CleanFiles, CleanTree
  <2>2. \A q \in Procs : CleanMemory(proc[q])
    BY CleanStopped DEF Init
  <2>3. QED
    BY <2>1, <2>2, InitType DEF CleanInv
<1>2. CleanInv => NoDirtySeal
  BY CleanInvSeals
<1>3. QED
  BY <1>1, <1>2, CleanInvInductive, PTL DEF Spec
-----------------------------------------------------------------------------
(***************************************************************************)
(* VerifyComplete.  A verify that nothing disturbs finds nothing wrong     *)
(* with a seal that is faithful to the tree: which seals are does not      *)
(* depend on target/, and each rebuild can only leave the sealed wasm.     *)
(***************************************************************************)
Faithful(r) ==
  /\ r.seal.project = r.man.name
  /\ CommitKept(r)
  /\ Sealed(r.seal) = Declared(r.man)
  /\ \A a \in Sealed(r.seal) :
       /\ r.seal.art[a].cmd = r.man.cmd[a]
       /\ r.seal.art[a].src = TreeDigest(work.src, work.man, a)
       /\ Outcomes(a, r.man.cmd[a]) = {r.seal.art[a].wasm}

VerifyAccepts(q) ==
  LET r == proc[q] IN
  r.cli = "verify" /\ r.calm /\ r.pc \in {"git", "build", "wasm", "source"} /\ Faithful(r) =>
    /\ r.ok
    /\ r.pc = "wasm" => wasm[r.at] = r.seal.art[r.at].wasm

CompleteInv == VerifyInv /\ \A q \in Procs : VerifyAccepts(q)

LEMMA FaithfulKept ==
  ASSUME NEW q \in Procs, proc'[q].seal = proc[q].seal, proc'[q].man = proc[q].man,
         UNCHANGED <<work, head, commits>>
  PROVE  Faithful(proc[q]) <=> Faithful(proc[q])'
BY DEF Faithful, CommitKept, Sealed, Declared, TreeDigest, Outcomes

LEMMA AcceptsIdle ==
  ASSUME NEW q \in Procs, proc'[q].cli # "verify" \/ proc'[q].pc \in {"idle", "load"}
  PROVE  VerifyAccepts(q)'
BY DEF VerifyAccepts

LEMMA AcceptsExit ==
  ASSUME TypeInv, NEW q \in Procs, NEW x, Exit(q, x)
  PROVE  VerifyAccepts(q)'
<1>1. proc'[q].cli = "none"
  BY DEF Exit, Local, Stopped, TypeInv, TypeOK
<1>2. QED
  BY <1>1, AcceptsIdle

LEMMA AcceptsElsewhere ==
  ASSUME TypeInv, NEW q \in Procs, VerifyAccepts(q), Undisturbed(q)
  PROVE  VerifyAccepts(q)'
<1> DEFINE r == proc[q]
           n == proc'[q]
<1>1. /\ n.cli = r.cli /\ n.pc = r.pc /\ n.man = r.man /\ n.at = r.at
      /\ n.seal = r.seal /\ n.ok = r.ok
  BY DEF Undisturbed, TypeInv, TypeOK, Processes
<1>2. ASSUME n.calm PROVE VerifyAccepts(q)'
  <2>1. r.calm /\ UNCHANGED <<work, wasm, head, commits>>
    BY <1>2 DEF Undisturbed
  <2>2. Faithful(r)' => Faithful(r)
    BY <1>1, <2>1, FaithfulKept
  <2>3. QED
    BY <1>1, <2>1, <2>2 DEF VerifyAccepts
<1>3. QED
  BY <1>2 DEF VerifyAccepts

LEMMA AcceptsBegin ==
  ASSUME TypeInv, NEW q \in Procs, Begin(q)
  PROVE  VerifyAccepts(q)'
<1> SUFFICES ASSUME NEW cli, NEW pc, NEW d, cli = "verify" => pc = "load", Start(q, cli, pc, d)
             PROVE  VerifyAccepts(q)'
  BY DEF Begin, RecordStart, VerifyStart, AnalyzeStart
<1>1. CASE Exit(q, "error")
  BY <1>1, AcceptsExit
<1>2. CASE Local(q, [Stopped(work.man, "none") EXCEPT
                       !.cli = cli, !.pc = pc, !.dirtyOk = d, !.calm = TRUE])
  <2>1. proc'[q].cli = cli /\ proc'[q].pc = pc
    BY <1>2 DEF Local, Stopped, TypeInv, TypeOK
  <2>2. QED
    BY <2>1, AcceptsIdle
<1>3. QED
  BY <1>1, <1>2 DEF Start

LEMMA AcceptsLoad ==
  ASSUME TypeInv, NEW q \in Procs, LoadSeal(q)
  PROVE  VerifyAccepts(q)'
<1> DEFINE r == proc[q]
           n == proc'[q]
<1>1. r \in Processes /\ UNCHANGED <<work, head, commits>>
  BY DEF LoadSeal, TypeInv, TypeOK, repo
<1>2. CASE Exit(q, "error")
  BY <1>2, AcceptsExit
<1>3. ASSUME r.cli = "verify",
             Local(q, [r EXCEPT !.pc = "git", !.seal = work.prov,
                                !.ok = (work.prov.project = r.man.name)])
      PROVE  VerifyAccepts(q)'
  <2>1. /\ n.pc = "git" /\ n.man = r.man /\ n.seal = work.prov
        /\ n.ok <=> work.prov.project = r.man.name
    BY <1>1, <1>3 DEF Local, TypeInv, TypeOK, Processes
  <2>2. Faithful(r)' => n.ok
    BY <2>1 DEF Faithful
  <2>3. QED
    BY <2>1, <2>2 DEF VerifyAccepts
<1>4. ASSUME r.cli = "analyze",
             NEW t, Local(q, [r EXCEPT !.pc = "scan", !.seal = work.prov, !.todo = t])
      PROVE  VerifyAccepts(q)'
  <2>1. n.cli = "analyze"
    BY <1>1, <1>4 DEF Local, TypeInv, TypeOK, Processes
  <2>2. QED
    BY <2>1, AcceptsIdle
<1>5. QED
  BY <1>2, <1>3, <1>4 DEF LoadSeal

LEMMA AcceptsGit ==
  ASSUME TypeInv, NEW q \in Procs, VerifyAccepts(q), VerifyGit(q)
  PROVE  VerifyAccepts(q)'
<1> DEFINE r == proc[q]
           n == proc'[q]
           b == r.ok /\ CommitKept(r) /\ NoGap(r)
<1>1. /\ r \in Processes /\ r.cli = "verify" /\ r.pc = "git"
      /\ UNCHANGED <<work, wasm, head, commits>>
  BY DEF VerifyGit, At, TypeInv, TypeOK, repo
<1>2. CASE Exit(q, "error")
  BY <1>2, AcceptsExit
<1>3. CASE Local(q, [r EXCEPT !.pc = "build", !.todo = Sealed(r.seal), !.ok = b])
  <2>1. /\ n.cli = "verify" /\ n.pc = "build" /\ n.man = r.man
        /\ n.seal = r.seal /\ n.calm = r.calm /\ n.ok = b
    BY <1>1, <1>3 DEF Local, TypeInv, TypeOK, Processes
  <2>2. Faithful(r)' => Faithful(r)
    BY <1>1, <2>1, FaithfulKept
  <2>3. Faithful(r) => CommitKept(r) /\ NoGap(r)
    BY DEF Faithful, NoGap
  <2>4. QED
    BY <1>1, <2>1, <2>2, <2>3 DEF VerifyAccepts
<1>4. QED
  BY <1>2, <1>3 DEF VerifyGit

\* A faithful seal covers no artifact the manifest does not declare.
LEMMA AcceptsOrphan ==
  ASSUME TypeInv, NEW q \in Procs, VerifyAccepts(q), VerifyOrphan(q)
  PROVE  VerifyAccepts(q)'
<1> DEFINE r == proc[q]
           n == proc'[q]
<1>1. PICK a \in r.todo \ Declared(r.man) : Local(q, [r EXCEPT !.todo = @ \ {a}, !.ok = FALSE])
  BY DEF VerifyOrphan
<1>2. /\ n.man = r.man /\ n.seal = r.seal /\ r.cli = "verify" /\ r.pc = "build"
      /\ UNCHANGED <<work, head, commits>>
  BY <1>1 DEF VerifyOrphan, At, Local, TypeInv, TypeOK, Processes, repo
<1>3. r.todo \subseteq Sealed(r.seal)
  BY <1>2 DEF TypeInv, ShapeOK, HoldsSeal
<1>4. ~Faithful(r)
  BY <1>1, <1>3 DEF Faithful
<1>5. QED
  BY <1>2, <1>4, FaithfulKept DEF VerifyAccepts

\* The rebuild of a faithful artifact leaves the sealed wasm.
LEMMA AcceptsBuild ==
  ASSUME TypeInv, NEW q \in Procs, VerifyAccepts(q), VerifyBuild(q)
  PROVE  VerifyAccepts(q)'
<1> DEFINE r == proc[q]
           n == proc'[q]
           same(a) == r.ok /\ r.man.cmd[a] = r.seal.art[a].cmd
           failed(a) == [r EXCEPT !.todo = @ \ {a}, !.ok = FALSE]
           built(a) == [r EXCEPT !.pc = "wasm", !.at = a, !.todo = @ \ {a}, !.ok = same(a)]
<1>1. /\ r \in Processes /\ r.cli = "verify" /\ r.pc = "build"
      /\ UNCHANGED <<head, commits>>
  BY DEF VerifyBuild, At, TypeInv, TypeOK, repo
<1>2. PICK a \in r.todo \cap Declared(r.man) :
        \E o \in Outcomes(a, r.man.cmd[a]) :
          /\ wasm' = Output(a, o) /\ UNCHANGED work
          /\ Write(q, IF o = Fails \/ wasm'[a] = NoWasm THEN failed(a) ELSE built(a))
  BY Zenon DEF VerifyBuild
<1>3. PICK o \in Outcomes(a, r.man.cmd[a]) :
        /\ wasm' = Output(a, o) /\ UNCHANGED work
        /\ \/ (o = Fails \/ wasm'[a] = NoWasm) /\ Write(q, failed(a))
           \/ Write(q, built(a))
  BY Zenon, <1>2
<1>4. a \in Artifacts /\ a \in Sealed(r.seal) /\ r.seal \in Seals
  BY <1>1, <1>2 DEF Processes, TypeInv, ShapeOK, HoldsSeal
<1>5. ASSUME Faithful(r)
      PROVE  /\ o = r.seal.art[a].wasm /\ o # Fails
             /\ wasm'[a] = r.seal.art[a].wasm /\ wasm'[a] # NoWasm
             /\ r.man.cmd[a] = r.seal.art[a].cmd
  <2>1. o = r.seal.art[a].wasm /\ r.man.cmd[a] = r.seal.art[a].cmd
    BY <1>3, <1>4, <1>5 DEF Faithful
  <2>2. r.seal.art[a] \in Entries
    BY <1>4 DEF Seals, Sealed
  <2>3. o \in Wasms
    BY <2>1, <2>2 DEF Entries
  <2>4. wasm'[a] = o
    BY <1>3, <1>4, <2>3 DEF Output, TypeInv, TypeOK
  <2>5. QED
    BY <2>1, <2>3, <2>4, SentinelsAssumption
<1>6. CASE (o = Fails \/ wasm'[a] = NoWasm) /\ Write(q, failed(a))
  <2>1. n.man = r.man /\ n.seal = r.seal
    BY <1>1, <1>6 DEF Write, Processes
  <2>2. QED
    BY <1>1, <1>3, <1>5, <1>6, <2>1, FaithfulKept DEF VerifyAccepts
<1>7. CASE Write(q, built(a))
  <2>1. /\ n.pc = "wasm" /\ n.man = r.man /\ n.at = a /\ n.calm = r.calm
        /\ n.seal = r.seal /\ n.ok = same(a)
    BY <1>1, <1>7 DEF Write, Processes
  <2>2. Faithful(r)' => Faithful(r)
    BY <1>1, <1>3, <2>1, FaithfulKept
  <2>3. QED
    BY <1>1, <1>5, <2>1, <2>2 DEF VerifyAccepts
<1>8. QED
  BY <1>3, <1>6, <1>7

LEMMA AcceptsWasm ==
  ASSUME TypeInv, NEW q \in Procs, VerifyAccepts(q), VerifyWasm(q)
  PROVE  VerifyAccepts(q)'
<1> DEFINE r == proc[q]
           n == proc'[q]
           b == r.ok /\ wasm[r.at] = r.seal.art[r.at].wasm
<1>1. /\ r \in Processes /\ r.cli = "verify" /\ r.pc = "wasm"
      /\ UNCHANGED <<work, wasm, head, commits>>
  BY DEF VerifyWasm, At, TypeInv, TypeOK, repo
<1>2. CASE Exit(q, "error")
  BY <1>2, AcceptsExit
<1>3. CASE Local(q, [r EXCEPT !.pc = "source", !.ok = b])
  <2>1. /\ n.pc = "source" /\ n.man = r.man /\ n.seal = r.seal /\ n.calm = r.calm /\ n.ok = b
    BY <1>1, <1>3 DEF Local, TypeInv, TypeOK, Processes
  <2>2. Faithful(r)' => Faithful(r)
    BY <1>1, <2>1, FaithfulKept
  <2>3. QED
    BY <1>1, <2>1, <2>2 DEF VerifyAccepts
<1>4. QED
  BY <1>2, <1>3 DEF VerifyWasm

LEMMA AcceptsSource ==
  ASSUME TypeInv, NEW q \in Procs, VerifyAccepts(q), VerifySource(q)
  PROVE  VerifyAccepts(q)'
<1> DEFINE r == proc[q]
           n == proc'[q]
           b == r.ok /\ TreeDigest(work.src, work.man, r.at) = r.seal.art[r.at].src
<1>1. /\ r \in Processes /\ r.cli = "verify" /\ r.pc = "source"
      /\ UNCHANGED <<work, wasm, head, commits>>
  BY DEF VerifySource, At, TypeInv, TypeOK, repo
<1>2. r.at \in Sealed(r.seal)
  BY <1>1 DEF TypeInv, ShapeOK
<1>3. CASE Exit(q, "error")
  BY <1>3, AcceptsExit
<1>4. CASE Local(q, [r EXCEPT !.pc = "build", !.at = NoArt, !.ok = b])
  <2>1. /\ n.pc = "build" /\ n.man = r.man /\ n.seal = r.seal /\ n.calm = r.calm /\ n.ok = b
    BY <1>1, <1>4 DEF Local, TypeInv, TypeOK, Processes
  <2>2. Faithful(r)' => Faithful(r)
    BY <1>1, <2>1, FaithfulKept
  <2>3. Faithful(r) => TreeDigest(work.src, work.man, r.at) = r.seal.art[r.at].src
    BY <1>2 DEF Faithful
  <2>4. QED
    BY <1>1, <2>1, <2>2, <2>3 DEF VerifyAccepts
<1>5. QED
  BY <1>3, <1>4 DEF VerifySource

LEMMA AcceptsOther ==
  ASSUME TypeInv, NEW q \in Procs,
         \/ RecordRevParse(q) \/ RecordStatus(q) \/ RecordBuild(q) \/ RecordWasm(q)
         \/ RecordSource(q) \/ VerifyReport(q) \/ AnalyzeArtifact(q) \/ SaveTruncate(q)
         \/ SaveWrite(q) \/ Crash(q)
  PROVE  VerifyAccepts(q)'
BY OtherCli, AcceptsIdle

LEMMA CompleteInvInductive == CompleteInv /\ [Next]_vars => CompleteInv'
<1> SUFFICES ASSUME CompleteInv, [Next]_vars PROVE CompleteInv'
  OBVIOUS
<1>1. TypeInv /\ VerifyInv'
  BY VerifyInvInductive DEF CompleteInv, VerifyInv
<1>2. ASSUME NEW q \in Procs PROVE VerifyAccepts(q)'
  <2>1. VerifyAccepts(q)
    BY DEF CompleteInv
  <2>2. CASE Elsewhere(q)
    BY <1>1, <2>1, <2>2, ElsewhereUndisturbed, AcceptsElsewhere
  <2>3. CASE Begin(q)
    BY <1>1, <2>3, AcceptsBegin
  <2>4. CASE Advance(q) \/ Crash(q)
    BY <1>1, <2>1, <2>4, AcceptsLoad, AcceptsGit, AcceptsOrphan, AcceptsBuild,
       AcceptsWasm, AcceptsSource, AcceptsOther DEF Advance
  <2>5. QED
    BY <2>2, <2>3, <2>4, StepOfOrElsewhere
<1>3. QED
  BY <1>1, <1>2 DEF CompleteInv

LEMMA CompleteInvComplete == CompleteInv => VerifyComplete
<1> SUFFICES ASSUME CompleteInv, NEW p \in Procs, AtReport(p), proc[p].calm,
                    Conforms(proc[p].seal),
                    \A a \in Sealed(proc[p].seal) :
                      Outcomes(a, work.man.cmd[a]) = {proc[p].seal.art[a].wasm}
             PROVE  proc[p].ok
  BY DEF VerifyComplete
<1>1. proc[p].cli = "verify" /\ proc[p].pc = "build"
  BY DEF AtReport, At
<1>2. proc[p].man = work.man
  BY <1>1 DEF CompleteInv, VerifyInv, VerifyAgrees
<1>3. Faithful(proc[p])
  BY <1>2 DEF Faithful, Conforms, CommitKept
<1>4. QED
  BY <1>1, <1>3 DEF CompleteInv, VerifyAccepts

\* record then verify passes (PRD criterion 1): an undisturbed verify does not
\* fail a project that conforms to its seal and whose builds can only reproduce
\* the sealed wasm (runner.rs:140-324).
THEOREM VerifyIsComplete == Spec => []VerifyComplete
<1>1. Init => CompleteInv
  BY InitType DEF CompleteInv, VerifyInv, VerifyAgrees, VerifyAccepts, Init, Stopped
<1>2. CompleteInv => VerifyComplete
  BY CompleteInvComplete
<1>3. QED
  BY <1>1, <1>2, CompleteInvInductive, PTL DEF Spec
-----------------------------------------------------------------------------
(***************************************************************************)
(* AnalyzeAppends.  What an undisturbed analyze holds is the record on     *)
(* disk with more analysis entries behind those it had.                    *)
(***************************************************************************)
Extends(s, t) ==
  /\ t \in Seals
  /\ SameRecord(s, t)
  /\ Len(t.analysis) <= Len(s.analysis)
  /\ SubSeq(s.analysis, 1, Len(t.analysis)) = t.analysis

AnalyzeAgrees(q) ==
  At(q, "analyze", "scan") /\ proc[q].calm => Extends(proc[q].seal, work.prov)

AnalyzeInv == TypeInv /\ \A q \in Procs : AnalyzeAgrees(q)

LEMMA ExtendsItself ==
  ASSUME NEW s \in Seals
  PROVE  Extends(s, s)
<1>1. s.analysis \in Seq([id : Artifacts, digest : Audits])
  BY DEF Seals
<1>2. SubSeq(s.analysis, 1, Len(s.analysis)) = s.analysis
  BY <1>1, SubSeqFull
<1>3. Len(s.analysis) \in Nat
  BY <1>1
<1>4. QED
  BY <1>2, <1>3 DEF Extends, SameRecord

LEMMA ExtendsMore ==
  ASSUME NEW s \in Seals, NEW t, Extends(s, t),
         NEW e \in [id : Artifacts, digest : Audits], NEW u,
         SameRecord(u, s), u.analysis = Append(s.analysis, e)
  PROVE  Extends(u, t)
<1> DEFINE n == Len(t.analysis)
<1>1. /\ s.analysis \in Seq([id : Artifacts, digest : Audits]) /\ n \in Nat
      /\ n <= Len(s.analysis)
  BY DEF Extends, Seals
<1>2. Append(s.analysis, e) = s.analysis \o <<e>>
  BY <1>1
<1>3. SubSeq(s.analysis \o <<e>>, 1, n) = SubSeq(s.analysis, 1, n)
  <2>1. <<e>> \in Seq([id : Artifacts, digest : Audits])
    OBVIOUS
  <2>2. 1 \in 1..(Len(s.analysis) + 1) /\ n \in 1-1 .. Len(s.analysis)
    BY <1>1
  <2>3. QED
    BY <1>1, <2>1, <2>2, SubSeqOfConcat1
<1>4. Len(u.analysis) = Len(s.analysis) + 1
  BY <1>1
<1>5. QED
  BY <1>1, <1>2, <1>3, <1>4 DEF Extends, SameRecord

LEMMA AnalyzeIdle ==
  ASSUME NEW q \in Procs, proc'[q].pc # "scan"
  PROVE  AnalyzeAgrees(q)'
BY DEF AnalyzeAgrees, At

LEMMA ExitIdle ==
  ASSUME TypeInv, NEW q \in Procs, NEW x, Exit(q, x)
  PROVE  proc'[q].pc = "idle"
BY DEF Exit, Local, Stopped, TypeInv, TypeOK

\* Only the load and the scan itself lead to the next artifact of a scan, and
\* only the truncation leads to the write.
LEMMA NotScanning ==
  ASSUME TypeInv, NEW q \in Procs,
         Begin(q) \/ Advance(q) \/ Crash(q), ~LoadSeal(q), ~AnalyzeArtifact(q),
         ~SaveTruncate(q)
  PROVE  proc'[q].pc \notin {"scan", "write"}
<1> DEFINE r == proc[q]
<1>0. ASSUME NEW s, Local(q, s) \/ Write(q, s) PROVE proc'[q] = s
  BY <1>0 DEF Local, Write, TypeInv, TypeOK
<1>1. r \in Processes
  BY DEF TypeInv, TypeOK
<1>2. ASSUME NEW x, Exit(q, x) PROVE proc'[q].pc = "idle"
  BY <1>2, ExitIdle
<1>3. CASE VerifyReport(q) \/ Crash(q)
  BY <1>2, <1>3 DEF VerifyReport, Crash
<1>4. CASE Begin(q)
  <2> SUFFICES ASSUME NEW cli, NEW pc, NEW d, pc \notin {"scan", "write"}, Start(q, cli, pc, d)
               PROVE  proc'[q].pc \notin {"scan", "write"}
    BY <1>4 DEF Begin, RecordStart, VerifyStart, AnalyzeStart
  <2>1. CASE Local(q, [Stopped(work.man, "none") EXCEPT
                         !.cli = cli, !.pc = pc, !.dirtyOk = d, !.calm = TRUE])
    BY <1>0, <2>1 DEF Stopped
  <2>2. QED
    BY <1>2, <2>1 DEF Start
<1>5. CASE RecordRevParse(q)
  <2>1. \/ Exit(q, "error")
        \/ Local(q, [r EXCEPT !.pc = "status", !.seal = Fresh(r.man, TRUE, head)])
        \/ Local(q, [r EXCEPT !.pc = "build", !.seal = Fresh(r.man, FALSE, 0),
                               !.todo = Declared(r.man)])
    BY <1>5 DEF RecordRevParse
  <2>2. QED
    BY <1>0, <1>1, <1>2, <2>1 DEF Processes
<1>6. CASE RecordStatus(q)
  BY <1>0, <1>1, <1>2, <1>6 DEF RecordStatus, Processes
<1>7. CASE RecordBuild(q)
  <2>1. PICK a : \/ Write(q, Stopped(r.man, "error"))
                 \/ Write(q, [r EXCEPT !.pc = "wasm", !.at = a, !.todo = @ \ {a}])
    BY <1>7 DEF RecordBuild
  <2>2. CASE Write(q, Stopped(r.man, "error"))
    BY <1>0, <2>2 DEF Stopped
  <2>3. CASE Write(q, [r EXCEPT !.pc = "wasm", !.at = a, !.todo = @ \ {a}])
    BY <1>0, <1>1, <2>3 DEF Processes
  <2>4. QED
    BY <2>1, <2>2, <2>3
<1>8. CASE RecordWasm(q)
  BY <1>0, <1>1, <1>2, <1>8 DEF RecordWasm, Processes
<1>9. CASE RecordSource(q)
  <2>1. ASSUME NEW e, Local(q, [r EXCEPT !.pc = "build", !.at = NoArt, !.got = NoWasm,
                                         !.seal.art[r.at] = e])
        PROVE  proc'[q].pc \notin {"scan", "write"}
    BY <1>0, <1>1, <2>1 DEF Processes
  <2>2. QED
    BY <1>2, <1>9, <2>1 DEF RecordSource
<1>10. CASE VerifyGit(q)
  BY <1>0, <1>1, <1>2, <1>10 DEF VerifyGit, Processes
<1>11. CASE VerifyOrphan(q)
  BY <1>0, <1>1, <1>11 DEF VerifyOrphan, At, Processes
<1>12. CASE VerifyBuild(q)
  <2>1. r.pc = "build"
    BY <1>12 DEF VerifyBuild, At
  <2>2. \/ \E t : Write(q, [r EXCEPT !.todo = t, !.ok = FALSE])
        \/ \E a, t, b : Write(q, [r EXCEPT !.pc = "wasm", !.at = a, !.todo = t, !.ok = b])
    BY <1>12 DEF VerifyBuild
  <2>3. QED
    BY <1>0, <1>1, <2>1, <2>2 DEF Processes
<1>13. CASE VerifyWasm(q)
  <2>1. \/ Exit(q, "error")
        \/ \E b : Local(q, [r EXCEPT !.pc = "source", !.ok = b])
    BY <1>13 DEF VerifyWasm
  <2>2. QED
    BY <1>0, <1>1, <1>2, <2>1 DEF Processes
<1>14. CASE VerifySource(q)
  <2>1. \/ Exit(q, "error")
        \/ \E b : Local(q, [r EXCEPT !.pc = "build", !.at = NoArt, !.ok = b])
    BY <1>14 DEF VerifySource
  <2>2. QED
    BY <1>0, <1>1, <1>2, <2>1 DEF Processes
<1>15. CASE SaveWrite(q)
  <2>1. PICK x : Write(q, Stopped(r.man, x))
    BY <1>15 DEF SaveWrite
  <2>2. QED
    BY <1>0, <2>1 DEF Stopped
<1>16. QED
  BY <1>3, <1>4, <1>5, <1>6, <1>7, <1>8, <1>9, <1>10, <1>11, <1>12, <1>13, <1>14, <1>15
     DEF Advance

LEMMA Truncated ==
  ASSUME TypeInv, NEW q \in Procs, SaveTruncate(q)
  PROVE  proc'[q].pc = "write" /\ proc'[q].todo = proc[q].todo
BY DEF SaveTruncate, Write, TypeInv, TypeOK, Processes

LEMMA AnalyzeElsewhere ==
  ASSUME TypeInv, NEW q \in Procs, AnalyzeAgrees(q), Undisturbed(q)
  PROVE  AnalyzeAgrees(q)'
<1>1. /\ proc'[q].cli = proc[q].cli /\ proc'[q].pc = proc[q].pc
      /\ proc'[q].seal = proc[q].seal
  BY DEF Undisturbed, TypeInv, TypeOK, Processes
<1>2. QED
  BY <1>1 DEF AnalyzeAgrees, At, Undisturbed, Extends, SameRecord

LEMMA AnalyzeLoad ==
  ASSUME TypeInv, NEW q \in Procs, LoadSeal(q)
  PROVE  AnalyzeAgrees(q)'
<1> DEFINE r == proc[q]
           n == proc'[q]
<1>1. r \in Processes /\ work' = work /\ work.prov \in Seals \cup {Missing, Corrupt}
  BY DEF LoadSeal, TypeInv, TypeOK, Trees
<1>2. CASE Exit(q, "error")
  BY <1>2, ExitIdle, AnalyzeIdle
<1>3. ASSUME NEW b, Local(q, [r EXCEPT !.pc = "git", !.seal = work.prov, !.ok = b])
      PROVE  AnalyzeAgrees(q)'
  <2>1. n.pc = "git"
    BY <1>1, <1>3 DEF Local, TypeInv, TypeOK, Processes
  <2>2. QED
    BY <2>1, AnalyzeIdle
<1>4. ASSUME work.prov \in Seals,
             NEW t, Local(q, [r EXCEPT !.pc = "scan", !.seal = work.prov, !.todo = t])
      PROVE  AnalyzeAgrees(q)'
  <2>1. n.seal = work.prov
    BY <1>1, <1>4 DEF Local, TypeInv, TypeOK, Processes
  <2>2. Extends(work.prov, work.prov)
    BY <1>4, ExtendsItself
  <2>3. QED
    BY <1>1, <2>1, <2>2 DEF AnalyzeAgrees, Extends, SameRecord
<1>5. QED
  BY <1>1, <1>2, <1>3, <1>4 DEF LoadSeal

LEMMA AnalyzeScan ==
  ASSUME TypeInv, NEW q \in Procs, AnalyzeAgrees(q), AnalyzeArtifact(q)
  PROVE  AnalyzeAgrees(q)'
<1> DEFINE r == proc[q]
           n == proc'[q]
           e(a) == [id |-> a, digest |-> AuditOf[Scan(work.src, a)]]
<1>1. /\ r \in Processes /\ r.cli = "analyze" /\ r.pc = "scan" /\ work' = work
      /\ r.seal \in Seals
  BY DEF AnalyzeArtifact, At, TypeInv, TypeOK, ShapeOK, HoldsSeal
<1>2. CASE Exit(q, "error")
  BY <1>2, ExitIdle, AnalyzeIdle
<1>3. ASSUME NEW a \in r.todo,
             Local(q, [r EXCEPT !.todo = @ \ {a}, !.seal.analysis = Append(@, e(a))])
      PROVE  AnalyzeAgrees(q)'
  <2>1. e(a) \in [id : Artifacts, digest : Audits]
    <3>1. a \in Artifacts /\ work.src \in [Artifacts -> Sources]
      BY <1>1, <1>3 DEF Processes, TypeInv, TypeOK, Trees
    <3>2. Scan(work.src, a) \in Scans
      BY <3>1 DEF Scans
    <3>3. QED
      BY <3>1, <3>2, ConstantsAssumption
  <2> HIDE DEF e
  <2>2. /\ n = [r EXCEPT !.todo = @ \ {a}, !.seal.analysis = Append(@, e(a))]
        /\ n.calm = r.calm
        /\ SameRecord(n.seal, r.seal) /\ n.seal.analysis = Append(r.seal.analysis, e(a))
    BY <1>1, <1>3 DEF Local, TypeInv, TypeOK, Processes, Seals, SameRecord
  <2>3. ASSUME r.calm PROVE Extends(n.seal, work.prov)
    BY <1>1, <2>1, <2>2, <2>3, ExtendsMore DEF AnalyzeAgrees, At
  <2>4. QED
    BY <1>1, <2>2, <2>3 DEF AnalyzeAgrees, Extends, SameRecord
<1>4. QED
  BY <1>2, <1>3 DEF AnalyzeArtifact, Push

LEMMA AnalyzeInvInductive == AnalyzeInv /\ [Next]_vars => AnalyzeInv'
<1> SUFFICES ASSUME AnalyzeInv, [Next]_vars PROVE AnalyzeInv'
  OBVIOUS
<1>1. TypeInv /\ TypeInv'
  BY TypeStep DEF AnalyzeInv
<1>2. ASSUME NEW q \in Procs PROVE AnalyzeAgrees(q)'
  <2>1. AnalyzeAgrees(q)
    BY DEF AnalyzeInv
  <2>2. CASE Elsewhere(q)
    BY <1>1, <2>1, <2>2, ElsewhereUndisturbed, AnalyzeElsewhere
  <2>3. CASE LoadSeal(q) \/ AnalyzeArtifact(q)
    BY <1>1, <2>1, <2>3, AnalyzeLoad, AnalyzeScan
  <2>4. CASE ~LoadSeal(q) /\ ~AnalyzeArtifact(q) /\ (Begin(q) \/ Advance(q) \/ Crash(q))
    BY <1>1, <2>4, NotScanning, Truncated, AnalyzeIdle
  <2>5. QED
    BY <2>2, <2>3, <2>4, StepOfOrElsewhere
<1>3. QED
  BY <1>1, <1>2 DEF AnalyzeInv

\* analyze --seal only appends (main.rs:706-722): undisturbed, it is about to
\* write back the record on disk with new analysis entries behind the old.
THEOREM AnalyzeOnlyAppends == Spec => []AnalyzeAppends
<1>1. Init => AnalyzeInv
  BY InitType DEF AnalyzeInv, AnalyzeAgrees, At, Init, Stopped
<1>2. AnalyzeInv => AnalyzeAppends
  BY DEF AnalyzeInv, AnalyzeAgrees, Extends, AnalyzeAppends
<1>3. QED
  BY <1>1, <1>2, AnalyzeInvInductive, PTL DEF Spec
-----------------------------------------------------------------------------
(***************************************************************************)
(* NoPartialSeal.  A process that is about to write has nothing left to do. *)
(***************************************************************************)
WriteAgrees(q) == proc[q].pc = "write" => proc[q].todo = {}

WriteInv == TypeInv /\ \A q \in Procs : WriteAgrees(q)

\* What happens to the seal on disk in a step.
SealCompletes ==
  \A s \in SealsIn(work)' \ SealsIn(work) :
    \/ edits' # edits
    \/ \E p \in Procs : /\ proc[p].pc = "write" /\ proc[p].seal = s
                        /\ proc[p].todo = {} /\ proc'[p].exit \in Codes(proc[p].cli)

LEMMA WriteInvInductive == WriteInv /\ [Next]_vars => WriteInv'
<1> SUFFICES ASSUME WriteInv, [Next]_vars PROVE WriteInv'
  OBVIOUS
<1>1. TypeInv /\ TypeInv'
  BY TypeStep DEF WriteInv
<1>2. ASSUME NEW q \in Procs PROVE WriteAgrees(q)'
  <2> DEFINE r == proc[q]
             n == proc'[q]
  <2>1. r \in Processes /\ WriteAgrees(q)
    BY <1>1 DEF WriteInv, TypeInv, TypeOK
  <2>2. CASE Elsewhere(q)
    <3>1. n.pc = r.pc /\ n.todo = r.todo
      BY <1>1, <2>1, <2>2, ElsewhereUndisturbed DEF Undisturbed, Processes
    <3>2. QED
      BY <2>1, <3>1 DEF WriteAgrees
  <2>3. CASE SaveTruncate(q)
    BY <1>1, <2>3, Truncated DEF WriteAgrees, SaveTruncate, AtSave
  <2>4. CASE LoadSeal(q)
    <3>1. \/ Exit(q, "error")
          \/ \E b : Local(q, [r EXCEPT !.pc = "git", !.seal = work.prov, !.ok = b])
          \/ \E t : Local(q, [r EXCEPT !.pc = "scan", !.seal = work.prov, !.todo = t])
      BY <2>4 DEF LoadSeal
    <3>2. CASE Exit(q, "error")
      BY <1>1, <3>2, ExitIdle DEF WriteAgrees
    <3>3. CASE \E b : Local(q, [r EXCEPT !.pc = "git", !.seal = work.prov, !.ok = b])
      <4>1. n.pc = "git"
        BY <1>1, <2>1, <3>3 DEF Local, TypeInv, TypeOK, Processes
      <4>2. QED
        BY <4>1 DEF WriteAgrees
    <3>4. CASE \E t : Local(q, [r EXCEPT !.pc = "scan", !.seal = work.prov, !.todo = t])
      <4>1. n.pc = "scan"
        BY <1>1, <2>1, <3>4 DEF Local, TypeInv, TypeOK, Processes
      <4>2. QED
        BY <4>1 DEF WriteAgrees
    <3>5. QED
      BY <3>1, <3>2, <3>3, <3>4
  <2>5. CASE AnalyzeArtifact(q)
    <3>1. r.pc = "scan"
      BY <2>5 DEF AnalyzeArtifact, At
    <3>2. \/ Exit(q, "error")
          \/ \E t, u : Local(q, [r EXCEPT !.todo = t, !.seal.analysis = u])
      BY <2>5 DEF AnalyzeArtifact
    <3>3. CASE Exit(q, "error")
      BY <1>1, <3>3, ExitIdle DEF WriteAgrees
    <3>4. CASE \E t, u : Local(q, [r EXCEPT !.todo = t, !.seal.analysis = u])
      <4>1. n.pc = "scan"
        BY <1>1, <2>1, <3>1, <3>4 DEF Local, TypeInv, TypeOK, Processes
      <4>2. QED
        BY <4>1 DEF WriteAgrees
    <3>5. QED
      BY <3>2, <3>3, <3>4
  <2>6. CASE /\ ~LoadSeal(q) /\ ~AnalyzeArtifact(q) /\ ~SaveTruncate(q)
             /\ Begin(q) \/ Advance(q) \/ Crash(q)
    BY <1>1, <2>6, NotScanning DEF WriteAgrees
  <2>7. QED
    BY <2>2, <2>3, <2>4, <2>5, <2>6, StepOfOrElsewhere
<1>3. QED
  BY <1>1, <1>2 DEF WriteInv

LEMMA StepCompletes == WriteInv /\ [Next]_vars => [SealCompletes]_vars
<1> SUFFICES ASSUME WriteInv, Next PROVE SealCompletes
  OBVIOUS
<1>1. TypeInv
  BY DEF WriteInv
<1>2. CASE work' = work
  BY <1>2 DEF SealCompletes, SealsIn
<1>3. CASE Developer
  <2>1. Edit
    BY <1>3 DEF Developer, EditSource, EditManifest, EditSeal, Wipe, GitInit, GitRemove,
                Stage, Commit, Reset
  <2>2. edits' # edits
    BY <1>1, <2>1 DEF Edit, TypeInv, TypeOK
  <2>3. QED
    BY <2>2 DEF SealCompletes
<1>4. ASSUME NEW p \in Procs, SaveTruncate(p)
      PROVE  SealCompletes
  <2>1. work'.prov = Corrupt
    BY <1>1, <1>4 DEF SaveTruncate, TypeInv, TypeOK, Trees
  <2>2. QED
    BY <2>1 DEF SealCompletes, SealsIn
<1>5. ASSUME NEW p \in Procs, SaveWrite(p)
      PROVE  SealCompletes
  <2>1. proc[p].pc = "write" /\ work'.prov \in {proc[p].seal, Corrupt}
    BY <1>1, <1>5 DEF SaveWrite, TypeInv, TypeOK, Trees
  <2>2. PICK x \in Codes(proc[p].cli) : Write(p, Stopped(proc[p].man, x))
    BY <1>5 DEF SaveWrite
  <2>3. proc'[p].exit = x
    BY <2>2 DEF Write, Stopped
  <2>4. proc[p].todo = {}
    BY <2>1 DEF WriteInv, WriteAgrees
  <2>5. QED
    BY <2>1, <2>3, <2>4 DEF SealCompletes, SealsIn
<1>6. ASSUME NEW p \in Procs, Begin(p) \/ Advance(p) \/ Crash(p)
      PROVE  work' = work \/ SaveTruncate(p) \/ SaveWrite(p)
  BY <1>6 DEF Begin, RecordStart, VerifyStart, AnalyzeStart, Start, Advance, Crash,
     RecordRevParse, RecordStatus, RecordBuild, RecordWasm, RecordSource, LoadSeal, VerifyGit,
     VerifyOrphan, VerifyBuild, VerifyWasm, VerifySource, VerifyReport, AnalyzeArtifact
<1>7. QED
  BY <1>2, <1>3, <1>4, <1>5, <1>6 DEF Next

\* A crash or a refusal leaves the earlier seal or a file that does not load
\* (provenance.rs:126-130): outside the developer's own steps a seal appears on
\* disk only from a run that has done all it had to and reports success.
THEOREM NeverPartial == Spec => NoPartialSeal
<1>1. Init => WriteInv
  BY InitType DEF WriteInv, WriteAgrees, Init, Stopped
<1>2. QED
  BY <1>1, WriteInvInductive, StepCompletes, PTL DEF Spec, NoPartialSeal, SealCompletes

-----------------------------------------------------------------------------
(***************************************************************************)
(* CommitGate                                                              *)
(*                                                                         *)
(* The hook adds two kinds of step to those of Seal: the developer does    *)
(* something to the hook alone, and git makes the commit it has checked.   *)
(***************************************************************************)
HookEdit == Edit /\ UNCHANGED <<work, repo, wasm>>

LEMMA GateStepOf ==
  ASSUME [GateNext]_gvars
  PROVE  [Next]_vars \/ HookEdit \/ Committed
<1>1. CASE UNCHANGED gvars
  BY <1>1 DEF gvars
<1>2. CASE InstallStart \/ InstallStep \/ InstallStops \/ Uninstall \/ HookVerified \/ HookAnalyzed
  BY <1>2 DEF InstallStart, InstallStep, InstallStops, Uninstall, HookVerified, HookAnalyzed
<1>3. CASE CommitStart
  BY <1>3, GateAssumption DEF CommitStart, Next, Begin
<1>4. CASE PlainCommit
  BY <1>4 DEF PlainCommit, Next, Developer
<1>5. CASE Develop
  BY <1>5 DEF Develop, OtherHook, HookEdit, Next, Developer
<1>6. ASSUME NEW p \in Procs, Run(p) PROVE Next
  BY <1>6 DEF Run, Next
<1>7. QED
  BY <1>1, <1>2, <1>3, <1>4, <1>5, <1>6 DEF GateNext, GateSteps

\* Neither does anything to a subcommand but end its calm.
LEMMA CommittedElsewhere ==
  ASSUME TypeInv, NEW q \in Procs, Committed
  PROVE  Undisturbed(q)
<1>1. proc[q] \in Processes
  BY DEF TypeInv, TypeOK
<1>2. CASE proc' = [x \in Procs |-> [proc[x] EXCEPT !.calm = FALSE]]
  <2>1. proc'[q] = [proc[q] EXCEPT !.calm = FALSE]
    BY <1>2
  <2>2. proc'[q].calm = FALSE
    BY <1>1, <2>1 DEF Processes
  <2>3. QED
    BY <2>1, <2>2 DEF Undisturbed
<1>3. CASE UNCHANGED <<commits, head, proc>>
  <2>1. proc'[q] = proc[q] /\ UNCHANGED <<work, wasm, head, commits>>
    BY <1>3 DEF Committed
  <2>2. QED
    BY <1>1, <2>1, SameRecordUndisturbed DEF Undisturbed
<1>4. QED
  BY <1>2, <1>3 DEF Committed

LEMMA HookElsewhere ==
  ASSUME TypeInv, NEW q \in Procs, HookEdit \/ Committed
  PROVE  Undisturbed(q)
BY EditElsewhere, CommittedElsewhere DEF HookEdit

-----------------------------------------------------------------------------
(***************************************************************************)
(* Types                                                                   *)
(***************************************************************************)
LEMMA GateInitType == GateInit => TypeInv
<1> SUFFICES ASSUME GateInit PROVE TypeInv
  OBVIOUS
<1>1. work \in Trees /\ index \in Trees /\ work.man \in Manifests
  BY DEF GateInit, Trees
<1>2. proc \in [Procs -> Processes] /\ \A p \in Procs : ShapeOK(proc[p])
  BY <1>1, StoppedType, ExitsType DEF GateInit
<1> DEFINE c == [tree |-> work, anc |-> {1}]
<1>3. 1 \in 1..MaxCommits
  BY ConstantsAssumption, GateAssumption
<1>4. c \in [tree : Trees, anc : SUBSET (1..MaxCommits)] /\ c.anc = {1}
  BY <1>1, <1>3
<1> HIDE DEF c
<1>5. commits = <<c>> /\ head = 1
  BY DEF GateInit, c
<1>6. /\ commits \in Seq([tree : Trees, anc : SUBSET (1..MaxCommits)])
      /\ Len(commits) = 1 /\ commits[1] = c
  BY <1>4, <1>5
<1>7. AncestorsOK /\ Len(commits) <= MaxCommits /\ head \in 0..Len(commits)
  BY <1>3, <1>4, <1>5, <1>6 DEF AncestorsOK
<1>8. QED
  BY <1>1, <1>2, <1>6, <1>7, ConstantsAssumption DEF GateInit, TypeInv, TypeOK

LEMMA HookEditType ==
  ASSUME TypeInv, HookEdit
  PROVE  TypeInv'
<1>1. /\ proc' \in [Procs -> Processes] /\ \A q \in Procs : ShapeOK(proc'[q])
      /\ edits' \in 0..MaxEdits /\ starts' \in 0..MaxStarts
  BY EditType DEF HookEdit
<1>2. UNCHANGED <<work, index, commits, head, marker, wasm>>
  BY DEF HookEdit, repo
<1>3. QED
  BY <1>1, <1>2 DEF TypeInv, TypeOK, AncestorsOK

LEMMA CommittedType ==
  ASSUME TypeInv, Committed
  PROVE  TypeInv'
<1>1. UNCHANGED <<work, index, marker, wasm, edits, starts>>
  BY DEF Committed
<1>2. CASE UNCHANGED <<commits, head, proc>>
  BY <1>1, <1>2 DEF TypeInv, TypeOK, AncestorsOK
<1>3. CASE /\ NewCommit /\ Len(commits) < MaxCommits
           /\ proc' = [q \in Procs |-> [proc[q] EXCEPT !.calm = FALSE]]
  <2>1. ASSUME NEW q \in Procs
        PROVE  proc'[q] \in Processes /\ ShapeOK(proc'[q])
    <3>1. proc[q] \in Processes /\ ShapeOK(proc[q]) /\ FALSE \in BOOLEAN
      BY DEF TypeInv, TypeOK
    <3>2. proc'[q] = [proc[q] EXCEPT !.calm = FALSE]
      BY <1>3
    <3>3. QED
      BY <3>1, <3>2, CalmType
  <2>2. proc' \in [Procs -> Processes]
    BY <1>3, <2>1
  <2>3. QED
    BY <1>1, <1>3, <2>1, <2>2, NewCommitType DEF TypeInv, TypeOK
<1>4. QED
  BY <1>2, <1>3 DEF Committed, NewCommit

LEMMA GateStepType == TypeInv /\ [GateNext]_gvars => TypeInv'
BY GateStepOf, TypeStep, HookEditType, CommittedType

\* A subcommand's step is one of a subcommand that runs.
LEMMA AdvanceRuns ==
  ASSUME NEW p \in Procs, Advance(p) \/ Crash(p)
  PROVE  proc[p].pc # "idle"
BY DEF Advance, Crash, RecordRevParse, RecordStatus, RecordBuild, RecordWasm, RecordSource,
       LoadSeal, VerifyGit, VerifyOrphan, VerifyBuild, VerifyWasm, VerifySource, VerifyReport,
       AtReport, AnalyzeArtifact, SaveTruncate, AtSave, SaveWrite, At

\* A step that is not the hook's verify leaves that process where it is.
LEMMA GateProcKept ==
  ASSUME TypeInv, [GateNext]_gvars,
         ~CommitStart, ~(Run(Gate) /\ (Advance(Gate) \/ Crash(Gate)))
  PROVE  Undisturbed(Gate)
<1>1. CASE HookEdit \/ Committed
  BY <1>1, HookElsewhere, GateAssumption
<1>2. CASE UNCHANGED vars
  BY <1>2, ElsewhereUndisturbed, GateAssumption DEF Elsewhere
<1>3. CASE Developer
  BY <1>3, ElsewhereUndisturbed, GateAssumption DEF Elsewhere
<1>4. ASSUME NEW p \in Procs, Run(p) PROVE Undisturbed(Gate)
  <2>1. p # Gate
    BY <1>4 DEF Run
  <2>2. Elsewhere(Gate)
    BY <1>4, <2>1 DEF Run, Elsewhere
  <2>3. QED
    BY <2>2, ElsewhereUndisturbed, GateAssumption
<1>5. CASE InstallStart \/ InstallStep \/ InstallStops \/ Uninstall \/ HookVerified \/ HookAnalyzed
  BY <1>2, <1>5
     DEF InstallStart, InstallStep, InstallStops, Uninstall, HookVerified, HookAnalyzed
<1>6. CASE PlainCommit \/ Develop
  BY <1>1, <1>3, <1>6 DEF PlainCommit, Develop, OtherHook, HookEdit, Developer
<1>7. QED
  BY <1>1, <1>2, <1>4, <1>5, <1>6 DEF GateNext, GateSteps, gvars

\* A commit under way that loses its calm is one still.
LEMMA CommitType ==
  ASSUME NEW g \in Commits, NEW b \in BOOLEAN
  PROVE  [g EXCEPT !.calm = b] \in Commits
BY DEF Commits

LEMMA StartedType ==
  ASSUME NEW h \in 0..MaxCommits
  PROVE  /\ [pc |-> "verify", onto |-> h, calm |-> TRUE] \in Commits
         /\ [pc |-> "commit", onto |-> h, calm |-> FALSE] \in Commits
BY DEF Commits

LEMMA NoCommitType == NoCommit \in Commits
BY ConstantsAssumption DEF NoCommit, Commits

LEMMA GateTypeStep ==
  ASSUME TypeInv, GateTypeOK, [GateNext]_gvars
  PROVE  GateTypeOK'
<1>1. TypeInv'
  BY GateStepType
<1>2. head \in 0..MaxCommits
  BY ConstantsAssumption DEF TypeInv, TypeOK
<1> DEFINE Rest == /\ hook \in Hooks /\ setup \in {"idle", "create", "write", "chmod"}
                   /\ gate \in Commits /\ installs \in 0..MaxInstalls
           Idle == gate.pc # "verify" => proc[Gate].pc = "idle"
<1>3. Rest /\ Idle
  BY DEF GateTypeOK
<1>4. Rest'
  <2>1. CASE UNCHANGED gvars
    BY <1>3, <2>1 DEF gvars
  <2>2. CASE InstallStart
    BY <1>3, <2>2, GateAssumption DEF InstallStart, Installed
  <2>3. CASE InstallStep
    BY <1>3, <2>3 DEF InstallStep, Hooks
  <2>4. CASE InstallStops
    BY <1>3, <2>4 DEF InstallStops
  <2>5. CASE Uninstall
    BY <1>3, <2>5, GateAssumption DEF Uninstall, Hooks
  <2>6. CASE CommitStart
    <3>1. \/ gate' = [pc |-> "verify", onto |-> head, calm |-> TRUE]
          \/ gate' = [pc |-> "commit", onto |-> head, calm |-> FALSE]
      BY <2>6 DEF CommitStart
    <3>2. gate' \in Commits
      BY <1>2, <3>1, StartedType
    <3>3. UNCHANGED <<hook, setup, installs>>
      BY <2>6 DEF CommitStart
    <3>4. QED
      BY <1>3, <3>2, <3>3
  <2>7. CASE HookVerified
    BY <1>3, <2>7, NoCommitType DEF HookVerified, Commits
  <2>8. CASE HookAnalyzed
    BY <1>3, <2>8, NoCommitType DEF HookAnalyzed, Commits
  <2>9. CASE Committed
    BY <1>3, <2>9, NoCommitType DEF Committed
  <2>10. CASE PlainCommit
    BY <1>3, <2>10 DEF PlainCommit
  <2>11. CASE Develop
    BY <1>3, <2>11 DEF Develop, OtherHook, Disturb, Hooks, Commits
  <2>12. ASSUME NEW p \in Procs, Run(p) PROVE Rest'
    <3>1. PICK b \in BOOLEAN : gate' = [gate EXCEPT !.calm = b]
      <4>1. gate.calm \in BOOLEAN
        BY <1>3 DEF Commits
      <4>2. (gate.calm /\ (p = Gate \/ <<work, wasm>>' = <<work, wasm>>)) \in BOOLEAN
        OBVIOUS
      <4>3. QED
        BY <2>12, <4>2 DEF Run
    <3>2. gate' \in Commits
      BY <1>3, <3>1, CommitType
    <3>3. UNCHANGED <<hook, setup, installs>>
      BY <2>12 DEF Run
    <3>4. QED
      BY <1>3, <3>2, <3>3
  <2>13. QED
    BY <2>1, <2>2, <2>3, <2>4, <2>5, <2>6, <2>7, <2>8, <2>9, <2>10, <2>11, <2>12
       DEF GateNext, GateSteps
<1>5. Idle'
  <2>1. CASE CommitStart
    <3>1. gate.pc = "idle" /\ proc[Gate].pc = "idle"
      BY <1>3, <2>1 DEF CommitStart
    <3>2. gate'.pc = "verify" \/ UNCHANGED vars
      BY <2>1 DEF CommitStart
    <3>3. QED
      BY <3>1, <3>2 DEF vars
  <2>2. CASE Run(Gate) /\ (Advance(Gate) \/ Crash(Gate))
    <3>1. gate.pc = "verify"
      BY <1>3, <2>2, AdvanceRuns, GateAssumption
    <3>2. gate'.pc = gate.pc
      BY <1>3, <2>2 DEF Run, Commits
    <3>3. QED
      BY <3>1, <3>2
  <2>3. CASE ~CommitStart /\ ~(Run(Gate) /\ (Advance(Gate) \/ Crash(Gate)))
    <3>1. proc'[Gate].pc = proc[Gate].pc
      BY <2>3, GateProcKept, GateAssumption DEF Undisturbed, TypeInv, TypeOK, Processes
    <3>2. gate.pc # "verify" => proc[Gate].pc = "idle"
      BY <1>3
    <3>3. gate'.pc = "verify" \/ gate'.pc = gate.pc \/ proc[Gate].pc = "idle"
      <4>1. CASE HookVerified \/ HookAnalyzed \/ Committed
        BY <3>2, <4>1 DEF HookVerified, HookAnalyzed, Committed
      <4>2. CASE InstallStart \/ InstallStep \/ InstallStops \/ Uninstall \/ PlainCommit
                 \/ UNCHANGED gvars
        BY <4>2 DEF InstallStart, InstallStep, InstallStops, Uninstall, PlainCommit, gvars
      <4>3. CASE Develop
        BY <1>3, <4>3 DEF Develop, Disturb, Commits
      <4>4. ASSUME NEW p \in Procs, Run(p) PROVE gate'.pc = gate.pc
        BY <1>3, <4>4 DEF Run, Commits
      <4>5. QED
        BY <2>3, <4>1, <4>2, <4>3, <4>4 DEF GateNext, GateSteps
    <3>4. QED
      BY <3>1, <3>2, <3>3
  <2>4. QED
    BY <2>1, <2>2, <2>3
<1>6. QED
  BY <1>1, <1>4, <1>5 DEF GateTypeOK, TypeInv

GateTypeInv == TypeInv /\ GateTypeOK

LEMMA GateTypeInductive == GateTypeInv /\ [GateNext]_gvars => GateTypeInv'
BY GateStepType, GateTypeStep DEF GateTypeInv

LEMMA GateTypeInit == GateInit => GateTypeInv
<1> SUFFICES ASSUME GateInit PROVE GateTypeInv
  OBVIOUS
<1>1. proc[Gate].pc = "idle"
  BY GateAssumption DEF GateInit, Stopped
<1>2. QED
  BY <1>1, GateInitType, NoCommitType, GateAssumption
     DEF GateInit, GateTypeInv, GateTypeOK, TypeInv, Hooks

\* With a hook in the repository too everything keeps its shape, and the hook's
\* verify runs only while a commit waits for it (hook.rs, main.rs:229-242).
THEOREM GateTypeCorrect == GateSpec => []GateTypeOK
<1>1. GateTypeInv => GateTypeOK
  BY DEF GateTypeInv
<1>2. QED
  BY <1>1, GateTypeInit, GateTypeInductive, PTL DEF GateSpec

-----------------------------------------------------------------------------
(***************************************************************************)
(* The safety of verify, record and the stored seals, carried over         *)
(***************************************************************************)
LEMMA GateVerifyInductive == VerifyInv /\ [GateNext]_gvars => VerifyInv'
<1> SUFFICES ASSUME VerifyInv, [GateNext]_gvars PROVE VerifyInv'
  OBVIOUS
<1>1. CASE HookEdit \/ Committed
  BY <1>1, GateStepType, HookElsewhere, VerifyElsewhere DEF VerifyInv
<1>2. QED
  BY <1>1, GateStepOf, VerifyInvInductive

LEMMA GateRecordInductive == RecordInv /\ [GateNext]_gvars => RecordInv'
<1> SUFFICES ASSUME RecordInv, [GateNext]_gvars PROVE RecordInv'
  OBVIOUS
<1>1. CASE HookEdit \/ Committed
  BY <1>1, GateStepType, HookElsewhere, RecordElsewhere DEF RecordInv
<1>2. QED
  BY <1>1, GateStepOf, RecordInvInductive

LEMMA HookClean ==
  ASSUME TypeInv, CleanFiles, HookEdit \/ Committed
  PROVE  CleanFiles'
<1>1. CASE UNCHANGED <<work, index, commits>>
  BY <1>1 DEF CleanFiles, CleanTree, CleanSeal
<1>2. CASE NewCommit /\ UNCHANGED <<work, index>>
  BY <1>2, NewCommitClean
<1>3. QED
  BY <1>1, <1>2 DEF HookEdit, repo, Committed, NewCommit

LEMMA GateCleanInductive == CleanInv /\ [GateNext]_gvars => CleanInv'
<1> SUFFICES ASSUME CleanInv, [GateNext]_gvars PROVE CleanInv'
  OBVIOUS
<1>1. CASE HookEdit \/ Committed
  BY <1>1, GateStepType, HookElsewhere, CleanElsewhere, HookClean DEF CleanInv
<1>2. QED
  BY <1>1, GateStepOf, CleanInvInductive

LEMMA GateIdleInit ==
  ASSUME GateInit
  PROVE  \A q \in Procs : proc[q].cli = "none" /\ CleanMemory(proc[q])
BY CleanStopped DEF GateInit, Stopped

\* A verify that passes undisturbed is right, the hook's or any other, while
\* commits are made under the hook (runner.rs:140-324, hook.rs:19-46).
THEOREM GateVerifyIsSound == GateSpec => []VerifySound
<1>1. GateInit => VerifyInv
  BY GateInitType, GateIdleInit DEF VerifyInv, VerifyAgrees
<1>2. QED
  BY <1>1, GateVerifyInductive, VerifyInvSound, PTL DEF GateSpec

\* An undisturbed record of a clean tree seals the commit it names, whatever
\* the hook and the commits under it do (runner.rs:71-136, hook.rs:19-46).
THEOREM GateRecordIsSound == GateSpec => []RecordSound
<1>1. GateInit => RecordInv
  BY GateInitType, GateIdleInit DEF RecordInv, RecordAgrees
<1>2. QED
  BY <1>1, GateRecordInductive, RecordInvSound, PTL DEF GateSpec

\* No commit, under the hook or past it, stores a seal that says its tree was
\* dirty, where --allow-dirty is never given (runner.rs:75-80, hook.rs:19-46).
THEOREM GateNeverDirty == GateSpec => []NoDirtySeal
<1>1. GateInit => CleanInv
  <2> SUFFICES ASSUME GateInit PROVE CleanInv
    OBVIOUS
  <2>1. CleanFiles
    BY DEF GateInit, CleanFiles, CleanTree
  <2>2. QED
    BY <2>1, GateInitType, GateIdleInit DEF CleanInv
<1>2. QED
  BY <1>1, GateCleanInductive, CleanInvSeals, PTL DEF GateSpec
-----------------------------------------------------------------------------
(***************************************************************************)
(* GateSound.  While nothing disturbs a commit under way, the hook's       *)
(* verify is undisturbed too and holds the seal on disk; once it has       *)
(* passed, that seal describes the working tree until git commits.         *)
(***************************************************************************)
Verifying ==
  /\ proc[Gate].cli = "verify" /\ proc[Gate].calm
  /\ proc[Gate].pc \in {"load", "git", "build", "wasm", "source"}
  /\ proc[Gate].pc # "load" => proc[Gate].seal = work.prov

Verified ==
  proc[Gate].pc = "idle" /\ (proc[Gate].exit = "pass" => TreeConforms(work, head))

GateCalm ==
  gate.calm =>
    /\ gate.pc = "verify" => Verifying \/ Verified
    /\ gate.pc \in {"analyze", "commit"} => TreeConforms(work, head)
    /\ gate.pc = "commit" => Acceptable(work.src, work.man)

GateInv == VerifyInv /\ GateTypeOK /\ GateCalm

\* A verify that is about to pass has found the seal to describe the tree.
LEMMA ReportConforms ==
  ASSUME VerifyInv, Verifying, AtReport(Gate), proc[Gate].ok
  PROVE  TreeConforms(work, head)
<1>1. Conforms(proc[Gate].seal) /\ proc[Gate].seal = work.prov
  BY VerifyInvSound, GateAssumption DEF VerifySound, Verifying, AtReport, At
<1>2. proc[Gate].seal \in Seals
  BY GateAssumption DEF VerifyInv, TypeInv, ShapeOK, HoldsSeal, AtReport, At
<1>3. QED
  BY <1>1, <1>2 DEF Conforms, TreeConforms

\* The files a step leaves alone leave the promise as it was.
LEMMA ConformsKept ==
  ASSUME UNCHANGED <<work, head, commits>>
  PROVE  /\ TreeConforms(work, head)' <=> TreeConforms(work, head)
         /\ Acceptable(work.src, work.man)' <=> Acceptable(work.src, work.man)
BY DEF TreeConforms, Acceptable, Declared, Sealed, TreeDigest, Scan

\* The hook's verify takes a step: it goes on, or it ends and is right to pass.
LEMMA VerifyingStep ==
  ASSUME VerifyInv, Verifying, Advance(Gate) \/ Crash(Gate)
  PROVE  (Verifying \/ Verified)' /\ UNCHANGED <<work, head, commits>>
<1> DEFINE r == proc[Gate]
           n == proc'[Gate]
<1>1. Gate \in Procs /\ r \in Processes /\ TypeInv
  BY GateAssumption DEF VerifyInv, TypeInv, TypeOK
<1> DEFINE Goes == /\ n.cli = r.cli /\ n.calm = r.calm
                   /\ n.pc \in {"git", "build", "wasm", "source"}
                   /\ n.seal = work.prov
<1>2. ASSUME Goes, UNCHANGED <<work, head, commits>>
      PROVE  (Verifying \/ Verified)'
  BY <1>2 DEF Verifying
<1>3. ASSUME NEW x, Exit(Gate, x), UNCHANGED <<work, head, commits>>,
             x = "pass" => TreeConforms(work, head)
      PROVE  (Verifying \/ Verified)'
  <2>1. n.pc = "idle" /\ n.exit = x
    BY <1>1, <1>3 DEF Exit, Local, Stopped, TypeInv, TypeOK
  <2>2. QED
    BY <1>3, <2>1, ConformsKept DEF Verified
<1>4. r.cli = "verify" /\ r.calm /\ r.pc \notin {"idle", "status", "scan", "write"}
  BY DEF Verifying
<1>5. UNCHANGED <<work, head, commits>>
  BY <1>4 DEF Advance, Crash, RecordRevParse, RecordStatus, RecordBuild, RecordWasm,
     RecordSource, LoadSeal, VerifyGit, VerifyOrphan, VerifyBuild, VerifyWasm, VerifySource,
     VerifyReport, AnalyzeArtifact, SaveTruncate, AtSave, SaveWrite, At, repo
<1>6. CASE Crash(Gate)
  BY <1>3, <1>5, <1>6 DEF Crash
<1>7. CASE VerifyReport(Gate)
  BY <1>3, <1>5, <1>7, ReportConforms DEF VerifyReport
<1>8. CASE LoadSeal(Gate)
  <2>1. CASE Exit(Gate, "error")
    BY <1>3, <1>5, <2>1
  <2>2. CASE \E b : Local(Gate, [r EXCEPT !.pc = "git", !.seal = work.prov, !.ok = b])
    <3>1. Goes
      BY <1>1, <2>2 DEF Local, TypeInv, TypeOK, Processes
    <3>2. QED
      BY <1>2, <1>5, <3>1
  <2>3. QED
    BY <1>4, <1>8, <2>1, <2>2 DEF LoadSeal
<1>9. CASE VerifyGit(Gate)
  <2>1. r.seal = work.prov
    BY <1>9 DEF Verifying, VerifyGit, At
  <2>2. CASE Exit(Gate, "error")
    BY <1>3, <1>5, <2>2
  <2>3. CASE \E t, b : Local(Gate, [r EXCEPT !.pc = "build", !.todo = t, !.ok = b])
    <3>1. Goes
      BY <1>1, <2>1, <2>3 DEF Local, TypeInv, TypeOK, Processes
    <3>2. QED
      BY <1>2, <1>5, <3>1
  <2>4. QED
    BY <1>9, <2>2, <2>3 DEF VerifyGit
<1>10. CASE VerifyOrphan(Gate)
  <2>1. r.seal = work.prov /\ r.pc = "build"
    BY <1>10 DEF Verifying, VerifyOrphan, At
  <2>2. PICK t : Local(Gate, [r EXCEPT !.todo = t, !.ok = FALSE])
    BY <1>10 DEF VerifyOrphan
  <2>3. Goes
    BY <1>1, <2>1, <2>2 DEF Local, TypeInv, TypeOK, Processes
  <2>4. QED
    BY <1>2, <1>5, <2>3
<1>11. CASE VerifyBuild(Gate)
  <2>1. r.seal = work.prov /\ r.pc = "build"
    BY <1>11 DEF Verifying, VerifyBuild, At
  <2>2. \/ \E t : Write(Gate, [r EXCEPT !.todo = t, !.ok = FALSE])
        \/ \E a, t, b : Write(Gate, [r EXCEPT !.pc = "wasm", !.at = a, !.todo = t, !.ok = b])
    BY <1>11 DEF VerifyBuild
  <2>3. CASE \E t : Write(Gate, [r EXCEPT !.todo = t, !.ok = FALSE])
    <3>1. Goes
      BY <1>1, <2>1, <2>3 DEF Write, Processes
    <3>2. QED
      BY <1>2, <1>5, <3>1
  <2>4. CASE \E a, t, b : Write(Gate, [r EXCEPT !.pc = "wasm", !.at = a, !.todo = t, !.ok = b])
    <3>1. Goes
      BY <1>1, <2>1, <2>4 DEF Write, Processes
    <3>2. QED
      BY <1>2, <1>5, <3>1
  <2>5. QED
    BY <2>2, <2>3, <2>4
<1>12. CASE VerifyWasm(Gate)
  <2>1. r.seal = work.prov
    BY <1>12 DEF Verifying, VerifyWasm, At
  <2>2. CASE Exit(Gate, "error")
    BY <1>3, <1>5, <2>2
  <2>3. CASE \E b : Local(Gate, [r EXCEPT !.pc = "source", !.ok = b])
    <3>1. Goes
      BY <1>1, <2>1, <2>3 DEF Local, TypeInv, TypeOK, Processes
    <3>2. QED
      BY <1>2, <1>5, <3>1
  <2>4. QED
    BY <1>12, <2>2, <2>3 DEF VerifyWasm
<1>13. CASE VerifySource(Gate)
  <2>1. r.seal = work.prov
    BY <1>13 DEF Verifying, VerifySource, At
  <2>2. CASE Exit(Gate, "error")
    BY <1>3, <1>5, <2>2
  <2>3. CASE \E b : Local(Gate, [r EXCEPT !.pc = "build", !.at = NoArt, !.ok = b])
    <3>1. Goes
      BY <1>1, <2>1, <2>3 DEF Local, TypeInv, TypeOK, Processes
    <3>2. QED
      BY <1>2, <1>5, <3>1
  <2>4. QED
    BY <1>13, <2>2, <2>3 DEF VerifySource
<1>14. QED
  BY <1>4, <1>5, <1>6, <1>7, <1>8, <1>9, <1>10, <1>11, <1>12, <1>13
     DEF Advance, RecordRevParse, RecordStatus, RecordBuild, RecordWasm, RecordSource,
         AnalyzeArtifact, SaveTruncate, AtSave, SaveWrite, At

\* A step elsewhere that does not end the commit's calm changes nothing of it.
LEMMA GateCalmKept ==
  ASSUME GateCalm, UNCHANGED <<work, head, commits>>, gate'.pc = gate.pc,
         gate'.calm => gate.calm,
         proc'[Gate] = proc[Gate]
  PROVE  GateCalm'
<1>1. (Verifying' <=> Verifying) /\ (Verified' <=> Verified)
  BY ConformsKept DEF Verifying, Verified
<1>2. QED
  BY <1>1, ConformsKept DEF GateCalm

\* A subcommand that leaves the working tree and target/ alone leaves every
\* other subcommand alone.
LEMMA StepElsewhereCalm ==
  ASSUME TypeInv, NEW q \in Procs, NEW p \in Procs, p # q,
         Begin(p) \/ Advance(p) \/ Crash(p), UNCHANGED <<work, wasm>>
  PROVE  proc'[q] = proc[q]
<1>1. ASSUME NEW r, Local(p, r) PROVE proc'[q] = proc[q]
  BY <1>1 DEF Local, TypeInv, TypeOK
<1>2. ASSUME NEW r, Write(p, r) PROVE proc'[q] = proc[q]
  <2>1. proc'[q] = [proc[q] EXCEPT !.calm = proc[q].calm /\ work' = work /\ wasm' = wasm]
    BY <1>2 DEF Write
  <2>2. (proc[q].calm /\ work' = work /\ wasm' = wasm) = proc[q].calm
    BY DEF TypeInv, TypeOK, Processes
  <2>3. QED
    BY <2>1, <2>2, SameRecordUndisturbed DEF TypeInv, TypeOK
<1>3. (\E r : Local(p, r)) \/ (\E r : Write(p, r))
  <2>1. CASE Begin(p)
    BY <2>1 DEF Begin, RecordStart, VerifyStart, AnalyzeStart, Start, Exit
  <2>2. CASE Crash(p)
    BY <2>2 DEF Crash, Exit
  <2>3. CASE RecordBuild(p) \/ VerifyBuild(p) \/ SaveTruncate(p) \/ SaveWrite(p)
    BY <2>3 DEF RecordBuild, VerifyBuild, SaveTruncate, SaveWrite
  <2>4. CASE \/ RecordRevParse(p) \/ RecordStatus(p) \/ RecordWasm(p) \/ RecordSource(p)
             \/ LoadSeal(p) \/ VerifyGit(p)
    BY <2>4 DEF RecordRevParse, RecordStatus, RecordWasm, RecordSource, LoadSeal, VerifyGit, Exit
  <2>5. CASE \/ VerifyOrphan(p) \/ VerifyWasm(p) \/ VerifySource(p) \/ VerifyReport(p)
             \/ AnalyzeArtifact(p)
    BY <2>5 DEF VerifyOrphan, VerifyWasm, VerifySource, VerifyReport, AnalyzeArtifact, Exit
  <2>6. QED
    BY <2>1, <2>2, <2>3, <2>4, <2>5 DEF Advance
<1>4. QED
  BY <1>1, <1>2, <1>3

LEMMA GateCalmStep ==
  ASSUME GateInv, [GateNext]_gvars
  PROVE  GateCalm'
<1>1. TypeInv /\ GateTypeOK /\ GateCalm /\ gate \in Commits /\ Gate \in Procs
  BY GateAssumption DEF GateInv, VerifyInv, GateTypeOK
<1>2. CASE UNCHANGED <<vars, gate>>
  <2>1. proc'[Gate] = proc[Gate] /\ UNCHANGED <<work, head, commits>>
    BY <1>2 DEF vars
  <2>2. QED
    BY <1>1, <1>2, <2>1, GateCalmKept
<1>3. CASE CommitStart
  <2>1. CASE VerifyStart(Gate) /\ gate'.pc = "verify"
    <3>1. \/ Exit(Gate, "error")
          \/ Local(Gate, [Stopped(work.man, "none") EXCEPT
                           !.cli = "verify", !.pc = "load", !.dirtyOk = FALSE, !.calm = TRUE])
      BY <2>1 DEF VerifyStart, Start
    <3>2. CASE Exit(Gate, "error")
      <4>1. proc'[Gate] = Stopped(proc[Gate].man, "error")
        BY <1>1, <3>2 DEF Exit, Local, TypeInv, TypeOK
      <4>2. Verified'
        BY <4>1 DEF Stopped, Verified
      <4>3. QED
        BY <2>1, <4>2 DEF GateCalm
    <3>3. CASE Local(Gate, [Stopped(work.man, "none") EXCEPT
                              !.cli = "verify", !.pc = "load", !.dirtyOk = FALSE, !.calm = TRUE])
      <4>1. proc'[Gate] = [Stopped(work.man, "none") EXCEPT
                             !.cli = "verify", !.pc = "load", !.dirtyOk = FALSE, !.calm = TRUE]
        BY <1>1, <3>3 DEF Local, TypeInv, TypeOK
      <4>2. proc'[Gate].cli = "verify" /\ proc'[Gate].pc = "load"
        BY <4>1 DEF Stopped
      <4>3. proc'[Gate].calm
        BY <4>1 DEF Stopped
      <4>4. Verifying'
        BY <4>2, <4>3 DEF Verifying
      <4>5. QED
        BY <2>1, <4>4 DEF GateCalm
    <3>4. QED
      BY <3>1, <3>2, <3>3
  <2>2. CASE gate' = [pc |-> "commit", onto |-> head, calm |-> FALSE]
    <3>1. gate'.calm = FALSE
      BY <2>2
    <3>2. QED
      BY <3>1 DEF GateCalm
  <2>3. CASE VerifyStart(Gate) /\ gate' = [pc |-> "verify", onto |-> head, calm |-> TRUE]
    <3>1. gate'.pc = "verify"
      BY <2>3
    <3>2. QED
      BY <2>1, <2>3, <3>1
  <2>4. QED
    BY <1>3, <2>2, <2>3 DEF CommitStart
<1>4. CASE gate'.calm = FALSE
  BY <1>4 DEF GateCalm
<1>5. CASE HookVerified /\ gate'.calm
  <2>1. /\ gate.pc = "verify" /\ proc[Gate].pc = "idle" /\ proc[Gate].exit = "pass"
        /\ gate'.pc = "analyze" /\ gate.calm /\ UNCHANGED <<work, head, commits>>
    BY <1>1, <1>5 DEF HookVerified, Admits, NoCommit, Commits, vars
  <2>2. TreeConforms(work, head)
    BY <1>1, <2>1 DEF GateCalm, Verifying, Verified
  <2>3. QED
    BY <2>1, <2>2, ConformsKept DEF GateCalm
<1>6. CASE HookAnalyzed /\ gate'.calm
  <2>1. /\ gate.pc = "analyze" /\ gate'.pc = "commit" /\ gate.calm
        /\ Acceptable(work.src, work.man) /\ UNCHANGED <<work, head, commits>>
    BY <1>1, <1>6 DEF HookAnalyzed, NoCommit, Commits, vars
  <2>2. TreeConforms(work, head)
    BY <1>1, <2>1 DEF GateCalm
  <2>3. QED
    BY <2>1, <2>2, ConformsKept DEF GateCalm
<1>7. CASE PlainCommit
  <2>1. gate'.pc = "idle"
    BY <1>7 DEF PlainCommit
  <2>2. QED
    BY <2>1 DEF GateCalm
<1>8. CASE Committed \/ Develop
  <2>1. gate'.calm = FALSE
    BY <1>1, <1>8 DEF Committed, NoCommit, Develop, Disturb, Commits
  <2>2. QED
    BY <1>4, <2>1
<1>9. ASSUME NEW p \in Procs, Run(p), p # Gate
      PROVE  GateCalm'
  <2>1. gate'.pc = gate.pc /\ (gate'.calm => gate.calm /\ UNCHANGED <<work, wasm>>)
    BY <1>1, <1>9 DEF Run, Commits
  <2>2. CASE gate'.calm
    <3>1. UNCHANGED <<head, commits, work>>
      BY <1>9, <2>1, <2>2 DEF Run, Advance, Begin, Crash, RecordStart, VerifyStart, AnalyzeStart,
         Start, RecordRevParse, RecordStatus, RecordBuild, RecordWasm, RecordSource, LoadSeal,
         VerifyGit, VerifyOrphan, VerifyBuild, VerifyWasm, VerifySource, VerifyReport,
         AnalyzeArtifact, SaveTruncate, SaveWrite, repo
    <3>2. proc'[Gate] = proc[Gate]
      <4>1. Begin(p) \/ Advance(p) \/ Crash(p)
        BY <1>9 DEF Run
      <4>2. UNCHANGED <<work, wasm>>
        BY <2>1, <2>2
      <4>3. QED
        BY <1>1, <1>9, <4>1, <4>2, StepElsewhereCalm
    <3>3. QED
      BY <1>1, <2>1, <3>1, <3>2, GateCalmKept
  <2>3. QED
    BY <2>2 DEF GateCalm
<1>10. CASE Run(Gate)
  <2>1. gate'.pc = gate.pc /\ gate'.calm = gate.calm /\ (Advance(Gate) \/ Crash(Gate))
    BY <1>1, <1>10 DEF Run, Commits
  <2>2. gate.pc = "verify" /\ proc[Gate].pc # "idle"
    BY <1>1, <2>1, AdvanceRuns DEF GateTypeOK
  <2>3. gate.calm => Verifying
    BY <1>1, <2>2 DEF GateCalm, Verified
  <2>4. gate.calm => (Verifying \/ Verified)'
    BY <2>1, <2>3, VerifyingStep DEF GateInv
  <2>5. QED
    BY <2>1, <2>2, <2>4 DEF GateCalm
<1>11. CASE InstallStart \/ InstallStep \/ InstallStops \/ Uninstall \/ UNCHANGED gvars
  BY <1>2, <1>11 DEF InstallStart, InstallStep, InstallStops, Uninstall, gvars
<1>12. gate'.calm \in BOOLEAN
  BY <1>1, GateTypeStep DEF GateTypeOK, Commits
<1>13. QED
  BY <1>3, <1>4, <1>5, <1>6, <1>7, <1>8, <1>9, <1>10, <1>11, <1>12 DEF GateNext, GateSteps

LEMMA GateInvInductive == GateInv /\ [GateNext]_gvars => GateInv'
<1> SUFFICES ASSUME GateInv, [GateNext]_gvars PROVE GateInv'
  OBVIOUS
<1>1. VerifyInv' /\ GateTypeOK'
  BY GateVerifyInductive, GateTypeStep DEF GateInv, VerifyInv
<1>2. QED
  BY <1>1, GateCalmStep DEF GateInv

\* The hook's promise (hook.rs:4-6) for the working tree: a commit that it lets
\* through and that nothing has disturbed is made beside a seal that describes
\* the tree, and over sources analyze --fail-on High accepts.
THEOREM GateIsSound == GateSpec => []GateSound
<1>1. GateInit => GateInv
  <2> SUFFICES ASSUME GateInit PROVE GateInv
    OBVIOUS
  <2>1. VerifyInv
    BY GateInitType, GateIdleInit DEF VerifyInv, VerifyAgrees
  <2>2. GateCalm
    BY DEF GateInit, NoCommit, GateCalm
  <2>3. QED
    BY <2>1, <2>2, GateTypeInit DEF GateInv, GateTypeInv
<1>2. GateInv => GateSound
  BY DEF GateInv, GateCalm, GateSound
<1>3. QED
  BY <1>1, <1>2, GateInvInductive, PTL DEF GateSpec
=============================================================================
