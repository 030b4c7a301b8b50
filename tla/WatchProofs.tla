---------------------------- MODULE WatchProofs -----------------------------
(***************************************************************************)
(* Proofs about Watch: type correctness for any shells, and, for one shell *)
(* at a time, that watch implements DriftMonitor, for any paths, contents, *)
(* webhooks and bounds.                                                    *)
(***************************************************************************)
EXTENDS Watch, TLAPS

\* In TypeOK the clause about the path in hand belongs to each run.
ShapeOK(r) == r.pc = "hash" => r.at \in Paths

LEMMA EmptyType == Empty \in Bases
BY DEF Empty, Bases

LEMMA LoadedType == ASSUME TypeOK PROVE Loaded(disk) \in Bases
BY EmptyType DEF TypeOK, Loaded

LEMMA StoppedType ==
  ASSUME NEW x \in Exits PROVE Stopped(x) \in Runs /\ ShapeOK(Stopped(x))
BY EmptyType DEF Stopped, Runs, Steps, ShapeOK

\* A step that puts a well-typed run in for one shell.
LEMMA LocalType ==
  ASSUME TypeOK, NEW p \in Procs, NEW r \in Runs, ShapeOK(r), Local(p, r)
  PROVE  proc' \in [Procs -> Runs] /\ \A q \in Procs : ShapeOK(proc'[q])
BY DEF Local, TypeOK, ShapeOK

LEMMA CalmType ==
  ASSUME NEW r \in Runs, ShapeOK(r)
  PROVE  [r EXCEPT !.calm = FALSE] \in Runs /\ ShapeOK([r EXCEPT !.calm = FALSE])
BY DEF Runs, ShapeOK

LEMMA WriteType ==
  ASSUME TypeOK, NEW p \in Procs, NEW r \in Runs, ShapeOK(r), Write(p, r)
  PROVE  proc' \in [Procs -> Runs] /\ \A q \in Procs : ShapeOK(proc'[q])
<1>1. ASSUME NEW q \in Procs
      PROVE  proc'[q] \in Runs /\ ShapeOK(proc'[q])
  <2>1. proc[q] \in Runs /\ ShapeOK(proc[q])
    BY DEF TypeOK, ShapeOK
  <2>2. proc'[q] \in {r, [proc[q] EXCEPT !.calm = FALSE]}
    BY DEF Write
  <2>3. QED
    BY <2>1, <2>2, CalmType
<1>2. QED
  BY <1>1 DEF Write

LEMMA EditType ==
  ASSUME TypeOK, Edit
  PROVE  /\ proc' \in [Procs -> Runs]
         /\ \A q \in Procs : ShapeOK(proc'[q])
         /\ edits' \in 0..MaxEdits /\ starts' \in 0..MaxStarts
<1>1. ASSUME NEW q \in Procs
      PROVE  proc'[q] \in Runs /\ ShapeOK(proc'[q])
  <2>1. proc[q] \in Runs /\ ShapeOK(proc[q])
    BY DEF TypeOK, ShapeOK
  <2>2. QED
    BY <2>1, CalmType DEF Edit
<1>2. edits' \in 0..MaxEdits /\ starts' \in 0..MaxStarts
  BY ConstantsAssumption DEF Edit, TypeOK
<1>3. QED
  BY <1>1, <1>2 DEF Edit

-----------------------------------------------------------------------------
LEMMA InitType == Init => TypeOK
<1> SUFFICES ASSUME Init PROVE TypeOK
  OBVIOUS
<1>1. proc \in [Procs -> Runs] /\ \A p \in Procs : ShapeOK(proc[p])
  BY StoppedType DEF Init, Exits
<1>2. config \in Configs
  BY ConstantsAssumption DEF Init, Configs
<1>3. edits \in 0..MaxEdits /\ starts \in 0..MaxStarts
  BY ConstantsAssumption DEF Init
<1>4. QED
  BY <1>1, <1>2, <1>3, EmptyType DEF Init, TypeOK, ShapeOK, FileStates

\* What a run holds after a hash is well typed.
LEMMA HashedType ==
  ASSUME NEW r \in Runs, r.pc = "hash", r.at \in Paths, NEW c \in Contents
  PROVE  Pinned(r, c) \in Bases /\ Failed(r, c) \subseteq Alerts
<1>1. r.base \in Bases /\ r.failed \subseteq Alerts
  BY DEF Runs
<1>2. Pinned(r, c) \in Bases
  BY <1>1 DEF Pinned, Bases
<1>3. ASSUME r.base[r.at] # Unknown
      PROVE  [path |-> r.at, was |-> r.base[r.at], now |-> c] \in Alerts
  BY <1>1, <1>3 DEF Bases, Alerts
<1>4. QED
  BY <1>1, <1>2, <1>3 DEF Failed

LEMMA HashType ==
  ASSUME TypeOK, NEW p \in Procs, HashPath(p)
  PROVE  proc' \in [Procs -> Runs] /\ \A q \in Procs : ShapeOK(proc'[q])
<1> DEFINE r == proc[p]
           c == file[r.at]
           s == [r EXCEPT !.pc = "look", !.at = Unknown,
                          !.base = Pinned(r, c), !.failed = Failed(r, c)]
<1>1. r \in Runs /\ r.pc = "hash" /\ r.at \in Paths
  BY DEF TypeOK, HashPath
<1>2. CASE c \in Contents
  <2>1. Pinned(r, c) \in Bases /\ Failed(r, c) \subseteq Alerts
    BY <1>1, <1>2, HashedType
  <2>2. s \in Runs /\ ShapeOK(s)
    BY <1>1, <2>1 DEF Runs, Steps, ShapeOK
  <2>3. Local(p, s)
    BY <1>2 DEF HashPath
  <2>4. QED
    BY <2>2, <2>3, LocalType
<1>3. CASE c \notin Contents
  <2>1. Local(p, Stopped("error")) /\ "error" \in Exits
    BY <1>3 DEF HashPath, Exits
  <2>2. QED
    BY <2>1, StoppedType, LocalType
<1>4. QED
  BY <1>2, <1>3

LEMMA LookType ==
  ASSUME TypeOK, NEW p \in Procs, Look(p)
  PROVE  proc' \in [Procs -> Runs] /\ \A q \in Procs : ShapeOK(proc'[q])
<1> DEFINE r == proc[p]
<1>1. r \in Runs /\ r.todo \subseteq Paths
  BY DEF TypeOK, Runs
<1>2. PICK f \in r.todo :
        Local(p, IF file[f] = Absent
                 THEN [r EXCEPT !.todo = @ \ {f},
                         !.failed = @ \cup {[path |-> f, was |-> Unknown, now |-> Absent]}]
                 ELSE [r EXCEPT !.todo = @ \ {f}, !.at = f, !.pc = "hash"])
  BY DEF Look
<1>3. [path |-> f, was |-> Unknown, now |-> Absent] \in Alerts
  BY <1>1 DEF Alerts
<1>4. r.pc = "look"
  BY DEF Look
<1>5. LET m == [r EXCEPT !.todo = @ \ {f},
                  !.failed = @ \cup {[path |-> f, was |-> Unknown, now |-> Absent]}]
      IN  m \in Runs /\ ShapeOK(m)
  BY <1>1, <1>3, <1>4 DEF Runs, ShapeOK
<1>6. LET m == [r EXCEPT !.todo = @ \ {f}, !.at = f, !.pc = "hash"]
      IN  m \in Runs /\ ShapeOK(m)
  BY <1>1 DEF Runs, ShapeOK, Steps
<1>7. QED
  BY <1>2, <1>5, <1>6, LocalType

LEMMA LoadType ==
  ASSUME TypeOK, NEW p \in Procs, Load(p)
  PROVE  proc' \in [Procs -> Runs] /\ \A q \in Procs : ShapeOK(proc'[q])
<1>1. PICK m \in Modes \cap {"daemon", "once"} :
        IF config = NoConfig
        THEN Local(p, Stopped("error"))
        ELSE Local(p, [Stopped("none") EXCEPT
                         !.mode = m, !.pc = "look", !.paths = config, !.todo = config,
                         !.base = Loaded(disk), !.calm = TRUE])
  BY DEF Load
<1>2. CASE config = NoConfig
  <2>1. Local(p, Stopped("error")) /\ "error" \in Exits
    BY <1>1, <1>2 DEF Exits
  <2>2. QED
    BY <2>1, StoppedType, LocalType
<1>3. CASE config # NoConfig
  <2> DEFINE s == [Stopped("none") EXCEPT
                     !.mode = m, !.pc = "look", !.paths = config, !.todo = config,
                     !.base = Loaded(disk), !.calm = TRUE]
  <2>1. config \in SUBSET Paths
    BY <1>3 DEF TypeOK, Configs
  <2>2. Stopped("none") \in Runs
    BY StoppedType DEF Exits
  <2>3. s \in Runs /\ ShapeOK(s)
    BY <2>1, <2>2, LoadedType DEF Runs, Steps, ShapeOK
  <2>4. QED
    BY <1>1, <1>3, <2>3, LocalType
<1>4. QED
  BY <1>2, <1>3

LEMMA PostType ==
  ASSUME TypeOK, NEW p \in Procs, Post(p)
  PROVE  /\ proc' \in [Procs -> Runs] /\ \A q \in Procs : ShapeOK(proc'[q])
         /\ inbox' \subseteq (Hooks \X Alerts)
<1> DEFINE r == proc[p]
<1>1. r \in Runs /\ r.pc = "alert" /\ r.failed \subseteq Alerts /\ r.hooks \subseteq Hooks
  BY DEF TypeOK, Runs, Post
<1>2. CASE \E h \in r.hooks : /\ inbox' = inbox \cup (({h} \cap up) \X r.failed)
                              /\ Local(p, [r EXCEPT !.hooks = Remaining(r, h)])
  <2>1. PICK h \in r.hooks : /\ inbox' = inbox \cup (({h} \cap up) \X r.failed)
                             /\ Local(p, [r EXCEPT !.hooks = Remaining(r, h)])
    BY <1>2
  <2>2. [r EXCEPT !.hooks = Remaining(r, h)] \in Runs
        /\ ShapeOK([r EXCEPT !.hooks = Remaining(r, h)])
    BY <1>1 DEF Runs, ShapeOK, Remaining
  <2>3. inbox' \subseteq (Hooks \X Alerts)
    BY <1>1, <2>1 DEF TypeOK
  <2>4. QED
    BY <2>1, <2>2, <2>3, LocalType
<1>3. CASE Local(p, [r EXCEPT !.pc = "save"]) /\ UNCHANGED inbox
  <2>1. [r EXCEPT !.pc = "save"] \in Runs /\ ShapeOK([r EXCEPT !.pc = "save"])
    BY <1>1 DEF Runs, Steps, ShapeOK
  <2>2. QED
    BY <1>3, <2>1, LocalType DEF TypeOK
<1>4. QED
  BY <1>2, <1>3 DEF Post

LEMMA WriteStateType ==
  ASSUME TypeOK, NEW p \in Procs, WriteState(p)
  PROVE  /\ proc' \in [Procs -> Runs] /\ \A q \in Procs : ShapeOK(proc'[q])
         /\ disk' \in Bases \cup {Torn} /\ saved' \in Bases
<1> DEFINE r == proc[p]
<1>1. r \in Runs /\ r.base \in Bases
  BY DEF TypeOK, Runs
<1>2. PICK v \in {r.base} \cup IF disk = Torn THEN {} ELSE {Torn} :
        disk' = v /\ saved' = IF v = Torn THEN saved ELSE v
  BY DEF WriteState
<1>3. disk' \in Bases \cup {Torn} /\ saved' \in Bases
  BY <1>1, <1>2 DEF TypeOK
<1>4. Verdict(r) \in Exits
  BY DEF Verdict, Exits
<1>5. [r EXCEPT !.pc = "sleep"] \in Runs /\ ShapeOK([r EXCEPT !.pc = "sleep"])
  BY <1>1 DEF Runs, Steps, ShapeOK
<1>6. Write(p, IF r.mode = "once" THEN Stopped(Verdict(r)) ELSE [r EXCEPT !.pc = "sleep"])
  BY DEF WriteState
<1>7. QED
  BY <1>3, <1>4, <1>5, <1>6, StoppedType, WriteType

LEMMA NextType == TypeOK /\ [Next]_vars => TypeOK'
<1> SUFFICES ASSUME TypeOK, [Next]_vars PROVE TypeOK'
  OBVIOUS
<1> USE DEF ShapeOK
<1>1. ASSUME Environment PROVE TypeOK'
  <2>1. Edit
    BY <1>1 DEF Environment, EditFile, EditConfig, Rebase, Toggle
  <2>2. CASE EditFile
    BY <2>1, <2>2, EditType DEF EditFile, Edit, TypeOK, FileStates
  <2>3. CASE EditConfig
    BY <2>1, <2>3, EditType DEF EditConfig, Edit, TypeOK
  <2>4. CASE Rebase
    BY <2>1, <2>4, EditType, EmptyType DEF Rebase, Edit, TypeOK
  <2>5. CASE Toggle
    BY <2>1, <2>5, EditType DEF Toggle, Edit, TypeOK
  <2>6. QED
    BY <1>1, <2>2, <2>3, <2>4, <2>5 DEF Environment
<1>2. ASSUME NEW p \in Procs, Start(p) PROVE starts' \in 0..MaxStarts
  BY <1>2, ConstantsAssumption DEF Start, TypeOK
<1>3. ASSUME NEW p \in Procs, WriteStarter(p) PROVE TypeOK'
  <2>1. Write(p, Stopped("pass")) /\ "pass" \in Exits
    BY <1>3 DEF WriteStarter, Exits
  <2>2. config' \in Configs
    BY <1>3, ConstantsAssumption DEF WriteStarter, Configs
  <2>3. QED
    BY <1>2, <1>3, <2>1, <2>2, StoppedType, WriteType DEF WriteStarter, TypeOK
<1>4. ASSUME NEW p \in Procs, Load(p) PROVE TypeOK'
  BY <1>2, <1>4, LoadType DEF Load, TypeOK, world
<1>5. ASSUME NEW p \in Procs, Look(p) PROVE TypeOK'
  BY <1>5, LookType DEF Look, TypeOK, world
<1>6. ASSUME NEW p \in Procs, HashPath(p) PROVE TypeOK'
  BY <1>6, HashType DEF HashPath, TypeOK, world
<1>7. ASSUME NEW p \in Procs, Report(p) PROVE TypeOK'
  <2>1. proc[p] \in Runs
    BY DEF TypeOK
  <2>2. LET s == [proc[p] EXCEPT !.pc = "save"] IN s \in Runs /\ ShapeOK(s)
    BY <2>1 DEF Runs, Steps
  <2>3. LET s == [proc[p] EXCEPT !.pc = "alert", !.hooks = Hooks] IN s \in Runs /\ ShapeOK(s)
    BY <2>1 DEF Runs, Steps
  <2>4. proc' \in [Procs -> Runs] /\ \A q \in Procs : ShapeOK(proc'[q])
    BY <1>7, <2>2, <2>3, LocalType DEF Report
  <2>5. QED
    BY <1>7, <2>4 DEF Report, TypeOK, world
<1>8. ASSUME NEW p \in Procs, Post(p) PROVE TypeOK'
  BY <1>8, PostType DEF Post, TypeOK, world
<1>9. ASSUME NEW p \in Procs, SarifFails(p) PROVE TypeOK'
  <2>1. Local(p, Stopped("error")) /\ "error" \in Exits
    BY <1>9 DEF SarifFails, Exits
  <2>2. QED
    BY <1>9, <2>1, StoppedType, LocalType DEF SarifFails, TypeOK, world
<1>10. ASSUME NEW p \in Procs, Truncate(p) PROVE TypeOK'
  <2>1. proc[p] \in Runs
    BY DEF TypeOK
  <2>2. LET s == [proc[p] EXCEPT !.pc = "write"] IN s \in Runs /\ ShapeOK(s)
    BY <2>1 DEF Runs, Steps
  <2>3. proc' \in [Procs -> Runs] /\ \A q \in Procs : ShapeOK(proc'[q])
    BY <1>10, <2>2, WriteType DEF Truncate
  <2>4. QED
    BY <1>10, <2>3 DEF Truncate, TypeOK, world
<1>11. ASSUME NEW p \in Procs, WriteState(p) PROVE TypeOK'
  BY <1>11, WriteStateType DEF WriteState, TypeOK, world
<1>12. ASSUME NEW p \in Procs, Wake(p) PROVE TypeOK'
  <2>1. proc[p] \in Runs
    BY DEF TypeOK
  <2>2. LET s == [proc[p] EXCEPT !.pc = "look", !.todo = proc[p].paths, !.failed = {}]
        IN  s \in Runs /\ ShapeOK(s)
    BY <2>1 DEF Runs, Steps
  <2>3. proc' \in [Procs -> Runs] /\ \A q \in Procs : ShapeOK(proc'[q])
    BY <1>12, <2>2, LocalType DEF Wake
  <2>4. QED
    BY <1>12, <2>3 DEF Wake, TypeOK, world
<1>13. ASSUME NEW p \in Procs, Crash(p) PROVE TypeOK'
  <2>1. Local(p, Stopped("killed")) /\ "killed" \in Exits
    BY <1>13 DEF Crash, Exits
  <2>2. QED
    BY <1>13, <2>1, StoppedType, LocalType DEF Crash, TypeOK, world
<1>14. CASE UNCHANGED vars
  BY <1>14 DEF vars, TypeOK
<1>15. QED
  BY <1>1, <1>3, <1>4, <1>5, <1>6, <1>7, <1>8, <1>9, <1>10, <1>11, <1>12, <1>13, <1>14
  DEF Next, Advance

\* Type correctness of watch.
THEOREM WatchTypeCorrect == Spec => []TypeOK
BY InitType, NextType, PTL DEF Spec
-----------------------------------------------------------------------------
(***************************************************************************)
(* One shell at a time: watch implements DriftMonitor.  What the shell has *)
(* in memory extends what the state file says, so that losing the shell    *)
(* loses pins and never changes one.                                       *)
(***************************************************************************)
Within(b, c) == \A f \in Paths : b[f] \in {c[f], Unknown}

Extends == \A p \in Procs : Running(p) => Within(Loaded(disk), proc[p].base)

MonitorInv == TypeOK /\ Extends

LEMMA WithinItself == ASSUME NEW b PROVE Within(b, b)
BY DEF Within

LEMMA EmptyWithin == ASSUME NEW b PROVE Within(Empty, b)
BY DEF Within, Empty

\* The refinement mapping without its CHOOSE.
LEMMA OneShell ==
  ASSUME NEW sh, Procs = {sh}
  PROVE  /\ Running(sh) => Known = proc[sh].base
         /\ Running(sh) => Failing = {a.path : a \in proc[sh].failed}
         /\ ~Running(sh) => Known = Loaded(disk) /\ Failing = {}
         /\ Running(sh)' => Known' = proc'[sh].base
         /\ Running(sh)' => Failing' = {a.path : a \in proc'[sh].failed}
         /\ ~Running(sh)' => Known' = Loaded(disk)' /\ Failing' = {}
<1>1. ASSUME \E p \in Procs : Running(p) PROVE (CHOOSE p \in Procs : Running(p)) = sh
  BY <1>1
<1>2. ASSUME \E p \in Procs : Running(p)' PROVE (CHOOSE p \in Procs : Running(p)') = sh
  BY <1>2
<1>3. QED
  BY <1>1, <1>2 DEF Known, Failing

LEMMA InitExtends == Init => Extends
BY DEF Init, Extends, Running, Stopped

\* The step of a shell that does not touch the state file keeps what it knows
\* or learns more.
LEMMA LocalExtends ==
  ASSUME MonitorInv, NEW p \in Procs, NEW r, Local(p, r), UNCHANGED disk,
         r.pc = "idle" \/ Within(Loaded(disk), r.base)
  PROVE  Extends'
<1>1. ASSUME NEW q \in Procs, Running(q)' PROVE Within(Loaded(disk), proc'[q].base)
  <2>1. CASE q = p
    BY <1>1, <2>1 DEF Local, Running, MonitorInv, TypeOK
  <2>2. CASE q # p
    BY <1>1, <2>2 DEF Local, Running, MonitorInv, TypeOK, Extends
  <2>3. QED
    BY <2>1, <2>2
<1>2. QED
  BY <1>1 DEF Extends, Loaded, Within

\* Hashing a path keeps every pin it has.
LEMMA HashedWithin ==
  ASSUME NEW r \in Runs, r.at \in Paths, NEW c, NEW b, Within(b, r.base)
  PROVE  Within(b, Pinned(r, c))
BY DEF Runs, Bases, Pinned, Within

LEMMA NextExtends ==
  ASSUME NEW sh, Procs = {sh}, MonitorInv, [Next]_vars PROVE Extends'
<1> DEFINE r == proc[sh]
<1>0. r \in Runs /\ (Running(sh) => Within(Loaded(disk), r.base))
  BY DEF MonitorInv, TypeOK, Extends
<1>1. CASE Environment
  <2>1. \A q \in Procs : proc'[q].pc = proc[q].pc /\ proc'[q].base = proc[q].base
    BY <1>1 DEF Environment, EditFile, EditConfig, Rebase, Toggle, Edit, MonitorInv, TypeOK, Runs
  <2>2. disk' \in {disk, Empty}
    BY <1>1 DEF Environment, EditFile, EditConfig, Rebase, Toggle
  <2>3. Loaded(disk)' \in {Loaded(disk), Empty}
    BY <2>2 DEF Loaded
  <2>4. QED
    BY <2>1, <2>3, EmptyWithin DEF Extends, Running, MonitorInv
<1>2. CASE WriteStarter(sh)
  BY <1>2 DEF WriteStarter, Write, Extends, Running, Stopped
<1>3. CASE Load(sh)
  <2>1. UNCHANGED disk
    BY <1>3 DEF Load
  <2>2. PICK m \in Modes \cap {"daemon", "once"} :
          IF config = NoConfig
          THEN Local(sh, Stopped("error"))
          ELSE Local(sh, [Stopped("none") EXCEPT
                            !.mode = m, !.pc = "look", !.paths = config, !.todo = config,
                            !.base = Loaded(disk), !.calm = TRUE])
    BY <1>3 DEF Load
  <2>3. Stopped("error").pc = "idle"
    BY DEF Stopped
  <2>4. LET s == [Stopped("none") EXCEPT
                    !.mode = m, !.pc = "look", !.paths = config, !.todo = config,
                    !.base = Loaded(disk), !.calm = TRUE]
        IN  Within(Loaded(disk), s.base)
    BY WithinItself DEF Stopped
  <2>5. QED
    BY <2>1, <2>2, <2>3, <2>4, LocalExtends
<1>4. CASE Look(sh)
  <2>1. Running(sh) /\ UNCHANGED disk
    BY <1>4 DEF Look, Running
  <2>2. PICK f \in r.todo :
          Local(sh, IF file[f] = Absent
                    THEN [r EXCEPT !.todo = @ \ {f},
                            !.failed = @ \cup {[path |-> f, was |-> Unknown, now |-> Absent]}]
                    ELSE [r EXCEPT !.todo = @ \ {f}, !.at = f, !.pc = "hash"])
    BY <1>4 DEF Look
  <2>3. LET s == [r EXCEPT !.todo = @ \ {f},
                    !.failed = @ \cup {[path |-> f, was |-> Unknown, now |-> Absent]}]
        IN  s.base = r.base
    BY <1>0 DEF Runs
  <2>4. LET s == [r EXCEPT !.todo = @ \ {f}, !.at = f, !.pc = "hash"] IN s.base = r.base
    BY <1>0 DEF Runs
  <2>5. QED
    BY <1>0, <2>1, <2>2, <2>3, <2>4, LocalExtends
<1>5. CASE HashPath(sh)
  <2> DEFINE c == file[r.at]
             s == [r EXCEPT !.pc = "look", !.at = Unknown,
                            !.base = Pinned(r, c), !.failed = Failed(r, c)]
  <2>1. Running(sh) /\ UNCHANGED disk /\ r.at \in Paths
    BY <1>5 DEF HashPath, Running, MonitorInv, TypeOK
  <2>2. CASE c \in Contents
    <3>1. Local(sh, s)
      BY <1>5, <2>2 DEF HashPath
    <3>2. s.base = Pinned(r, c)
      BY <1>0 DEF Runs
    <3>3. Within(Loaded(disk), s.base)
      BY <1>0, <2>1, <3>2, HashedWithin
    <3>4. QED
      BY <2>1, <3>1, <3>3, LocalExtends
  <2>3. CASE c \notin Contents
    <3>1. Local(sh, Stopped("error")) /\ Stopped("error").pc = "idle"
      BY <1>5, <2>3 DEF HashPath, Stopped
    <3>2. QED
      BY <2>1, <3>1, LocalExtends
  <2>4. QED
    BY <2>2, <2>3
<1>6. CASE Report(sh) \/ Post(sh) \/ Wake(sh)
  <2>1. Running(sh) /\ UNCHANGED disk
    BY <1>6 DEF Report, Post, Wake, Running
  <2>2. Within(Loaded(disk), r.base)
    BY <1>0, <2>1 DEF Extends
  <2>3. CASE Report(sh)
    <3>1. CASE r.failed = {}
      <4>1. Local(sh, [r EXCEPT !.pc = "save"])
        BY <2>3, <3>1 DEF Report
      <4>2. [r EXCEPT !.pc = "save"].base = r.base
        BY <1>0 DEF Runs
      <4>3. QED
        BY <2>1, <2>2, <4>1, <4>2, LocalExtends
    <3>2. CASE r.failed # {}
      <4>1. Local(sh, [r EXCEPT !.pc = "alert", !.hooks = Hooks])
        BY <2>3, <3>2 DEF Report
      <4>2. [r EXCEPT !.pc = "alert", !.hooks = Hooks].base = r.base
        BY <1>0 DEF Runs
      <4>3. QED
        BY <2>1, <2>2, <4>1, <4>2, LocalExtends
    <3>3. QED
      BY <3>1, <3>2
  <2>4. CASE Post(sh)
    <3>1. CASE r.hooks = {}
      <4>1. Local(sh, [r EXCEPT !.pc = "save"])
        BY <2>4, <3>1 DEF Post
      <4>2. [r EXCEPT !.pc = "save"].base = r.base
        BY <1>0 DEF Runs
      <4>3. QED
        BY <2>1, <2>2, <4>1, <4>2, LocalExtends
    <3>2. CASE r.hooks # {}
      <4>1. PICK h \in r.hooks : Local(sh, [r EXCEPT !.hooks = Remaining(r, h)])
        BY <2>4, <3>2 DEF Post
      <4>2. [r EXCEPT !.hooks = Remaining(r, h)].base = r.base
        BY <1>0 DEF Runs
      <4>3. QED
        BY <2>1, <2>2, <4>1, <4>2, LocalExtends
    <3>3. QED
      BY <3>1, <3>2
  <2>5. CASE Wake(sh)
    <3>1. Local(sh, [r EXCEPT !.pc = "look", !.todo = r.paths, !.failed = {}])
      BY <2>5 DEF Wake
    <3>2. [r EXCEPT !.pc = "look", !.todo = r.paths, !.failed = {}].base = r.base
      BY <1>0 DEF Runs
    <3>3. QED
      BY <2>1, <2>2, <3>1, <3>2, LocalExtends
  <2>6. QED
    BY <1>6, <2>3, <2>4, <2>5
<1>7. CASE SarifFails(sh) \/ Crash(sh)
  BY <1>7 DEF SarifFails, Crash, Local, Stopped, Extends, Running, MonitorInv, TypeOK
<1>8. CASE Truncate(sh)
  <2>1. Loaded(disk)' = Empty
    BY <1>8 DEF Truncate, Loaded
  <2>2. QED
    BY <2>1, EmptyWithin DEF Extends
<1>9. CASE WriteState(sh)
  <2>1. Loaded(disk)' \in {r.base, Empty}
    BY <1>9 DEF WriteState, Loaded
  <2>2. Running(sh)' => proc'[sh].base = r.base
    BY <1>9, <1>0 DEF WriteState, Write, Running, Stopped, Runs
  <2>3. QED
    BY <2>1, <2>2, WithinItself, EmptyWithin DEF Extends
<1>10. CASE UNCHANGED vars
  BY <1>10 DEF vars, Extends, Running, Loaded, MonitorInv
<1>11. QED
  BY <1>1, <1>2, <1>3, <1>4, <1>5, <1>6, <1>7, <1>8, <1>9, <1>10 DEF Next, Advance
-----------------------------------------------------------------------------
LEMMA InitRefines == ASSUME NEW sh, Procs = {sh}, Init PROVE Monitor!Init
<1>1. ~Running(sh)
  BY DEF Init, Running, Stopped
<1>2. Known = Empty /\ Failing = {}
  BY <1>1, OneShell, SentinelsAssumption, EmptyType DEF Init, Loaded
<1>3. file \in [Paths -> Monitor!FileStates]
  BY DEF Init, Monitor!FileStates
<1>4. QED
  BY <1>2, <1>3 DEF Monitor!Init, Empty

\* Pins that are all there before are a Settle away.
LEMMA SettleRefines ==
  ASSUME NEW sh, Procs = {sh}, Known' \in Bases, Within(Known', Known),
         Failing' = {}, UNCHANGED file
  PROVE  Monitor!Settle
<1> DEFINE keep == {f \in Paths : Known'[f] = Known[f]}
<1>1. ASSUME NEW f \in Paths
      PROVE  Known'[f] = IF f \in keep THEN Known[f] ELSE Unknown
  BY DEF Within
<1>2. Known' = [f \in Paths |-> IF f \in keep THEN Known[f] ELSE Unknown]
  BY <1>1 DEF Bases
<1>3. keep \in SUBSET Paths
  OBVIOUS
<1>4. QED
  BY <1>2, <1>3 DEF Monitor!Settle

\* A run that ends loses at most the pins it had not saved.
LEMMA EndRefines ==
  ASSUME NEW sh, Procs = {sh}, TypeOK', Running(sh), ~Running(sh)',
         Within(Loaded(disk)', proc[sh].base), UNCHANGED file
  PROVE  Monitor!Settle
<1>1. Known = proc[sh].base /\ Known' = Loaded(disk)' /\ Failing' = {}
  BY OneShell
<1>2. Loaded(disk)' \in Bases
  BY EmptyType DEF TypeOK, Loaded
<1>3. QED
  BY <1>1, <1>2, SettleRefines

\* The paths of the failures, with one failure more.
LEMMA OneMore ==
  ASSUME NEW S, NEW e
  PROVE  {a.path : a \in S \cup {e}} = {a.path : a \in S} \cup {e.path}
OBVIOUS

LEMMA LookRefines ==
  ASSUME NEW sh, Procs = {sh}, MonitorInv, Look(sh)
  PROVE  [Monitor!Next]_(Monitor!vars)
<1> DEFINE r == proc[sh]
<1>1. r \in Runs /\ Running(sh) /\ UNCHANGED file /\ r.pc = "look"
  BY DEF MonitorInv, TypeOK, Look, Running, world
<1>2. PICK f \in r.todo :
        Local(sh, IF file[f] = Absent
                  THEN [r EXCEPT !.todo = @ \ {f},
                          !.failed = @ \cup {[path |-> f, was |-> Unknown, now |-> Absent]}]
                  ELSE [r EXCEPT !.todo = @ \ {f}, !.at = f, !.pc = "hash"])
  BY DEF Look
<1>3. f \in Paths
  BY <1>1 DEF Runs
<1> DEFINE alert == [path |-> f, was |-> Unknown, now |-> Absent]
<1>4. CASE file[f] = Absent
  <2>1. /\ proc'[sh].base = r.base /\ proc'[sh].failed = r.failed \cup {alert}
        /\ proc'[sh].pc = "look"
    BY <1>1, <1>2, <1>4 DEF Local, MonitorInv, TypeOK, Runs
  <2>2. Running(sh)'
    BY <2>1 DEF Running
  <2>3. Known' = Known /\ Failing' = {a.path : a \in r.failed \cup {alert}}
    BY <1>1, <2>1, <2>2, OneShell
  <2>4. Failing' = {a.path : a \in r.failed} \cup {alert.path}
    BY <2>3, OneMore
  <2>7. Failing' = Failing \cup {f}
    BY <1>1, <2>4, OneShell
  <2>5. Monitor!Raise(f)
    BY <1>1, <1>4, <2>3, <2>7 DEF Monitor!Raise, Monitor!Fails
  <2>6. QED
    BY <1>3, <2>5 DEF Monitor!Next
<1>5. CASE file[f] # Absent
  <2>1. /\ proc'[sh].base = r.base /\ proc'[sh].failed = r.failed
        /\ proc'[sh].pc = "hash"
    BY <1>1, <1>2, <1>5 DEF Local, MonitorInv, TypeOK, Runs
  <2>2. Running(sh)'
    BY <2>1 DEF Running
  <2>3. Known' = Known /\ Failing' = Failing
    BY <1>1, <2>1, <2>2, OneShell
  <2>4. QED
    BY <1>1, <2>3 DEF Monitor!vars
<1>6. QED
  BY <1>4, <1>5

LEMMA HashRefines ==
  ASSUME NEW sh, Procs = {sh}, MonitorInv, TypeOK', HashPath(sh)
  PROVE  [Monitor!Next]_(Monitor!vars)
<1> DEFINE r == proc[sh]
           c == file[r.at]
           f == r.at
<1>1. r \in Runs /\ Running(sh) /\ UNCHANGED <<file, disk>> /\ f \in Paths
  BY DEF MonitorInv, TypeOK, HashPath, Running, world
<1>2. CASE c \notin Contents
  <2>1. proc'[sh] = Stopped("error")
    BY <1>2 DEF HashPath, Local, MonitorInv, TypeOK
  <2>2. ~Running(sh)'
    BY <2>1 DEF Running, Stopped
  <2>3. Within(Loaded(disk)', r.base)
    BY <1>1 DEF MonitorInv, Extends, Loaded
  <2>4. QED
    BY <1>1, <2>2, <2>3, EndRefines DEF Monitor!Next
<1>3. CASE c \in Contents
  <2>1. /\ proc'[sh].base = Pinned(r, c) /\ proc'[sh].failed = Failed(r, c)
        /\ proc'[sh].pc = "look"
    BY <1>1, <1>3 DEF HashPath, Local, MonitorInv, TypeOK, Runs
  <2>2. Running(sh)'
    BY <2>1 DEF Running
  <2>3. /\ Known = r.base /\ Known' = Pinned(r, c)
        /\ Failing = {a.path : a \in r.failed} /\ Failing' = {a.path : a \in Failed(r, c)}
    BY <1>1, <2>1, <2>2, OneShell
  <2>4. CASE r.base[f] = Unknown
    <3>1. Failing' = Failing
      BY <2>3, <2>4 DEF Failed
    <3>2. Known' = [Known EXCEPT ![f] = c]
      BY <2>3, <2>4 DEF Pinned
    <3>3. Monitor!Enrol(f)
      BY <1>1, <1>3, <2>3, <2>4, <3>1, <3>2 DEF Monitor!Enrol
    <3>4. QED
      BY <1>1, <3>3 DEF Monitor!Next
  <2>5. CASE r.base[f] # Unknown /\ r.base[f] = c
    <3>1. Known' = Known /\ Failing' = Failing
      BY <2>3, <2>5 DEF Failed, Pinned
    <3>2. QED
      BY <1>1, <3>1 DEF Monitor!vars
  <2>6. CASE r.base[f] # Unknown /\ r.base[f] # c
    <3>1. Known' = Known
      BY <2>3, <2>6 DEF Pinned
    <3> DEFINE alert == [path |-> f, was |-> r.base[f], now |-> c]
    <3>2. Failing' = {a.path : a \in r.failed \cup {alert}}
      BY <2>3, <2>6 DEF Failed
    <3>3. Failing' = {a.path : a \in r.failed} \cup {alert.path}
      BY <3>2, OneMore
    <3>6. Failing' = Failing \cup {f}
      BY <2>3, <3>3
    <3>4. Monitor!Raise(f)
      BY <1>1, <1>3, <2>3, <2>6, <3>1, <3>6 DEF Monitor!Raise, Monitor!Fails
    <3>5. QED
      BY <1>1, <3>4 DEF Monitor!Next
  <2>7. QED
    BY <2>4, <2>5, <2>6
<1>4. QED
  BY <1>2, <1>3

\* What a shell knows and has found is the same after a step that changes
\* neither that nor the state file.
LEMMA SameRefines ==
  ASSUME NEW sh, Procs = {sh}, Running(sh)' = Running(sh), UNCHANGED disk,
         proc'[sh].base = proc[sh].base, proc'[sh].failed = proc[sh].failed
  PROVE  Known' = Known /\ Failing' = Failing
<1>1. CASE Running(sh)
  BY <1>1, OneShell
<1>2. CASE ~Running(sh)
  <2>1. Loaded(disk)' = Loaded(disk)
    BY DEF Loaded
  <2>2. QED
    BY <1>2, <2>1, OneShell
<1>3. QED
  BY <1>1, <1>2

\* A step that keeps what a running shell knows and what has failed, or starts
\* a new round, changes nothing in the monitor but its alarms.
LEMMA KeepRefines ==
  ASSUME NEW sh, Procs = {sh}, MonitorInv, Running(sh), Running(sh)',
         proc'[sh].base = proc[sh].base, UNCHANGED file,
         proc'[sh].failed \in {proc[sh].failed, {}}
  PROVE  [Monitor!Next]_(Monitor!vars)
<1>1. Known' = Known /\ Known \in Bases
  BY OneShell DEF MonitorInv, TypeOK, Runs
<1>2. CASE proc'[sh].failed = proc[sh].failed
  <2>1. Failing' = Failing
    BY <1>2, OneShell
  <2>2. QED
    BY <1>1, <2>1 DEF Monitor!vars
<1>3. CASE proc'[sh].failed = {}
  <2>1. Failing' = {a.path : a \in {}}
    BY <1>3, OneShell
  <2>2. Failing' = {}
    BY <2>1
  <2>3. Monitor!Settle
    BY <1>1, <2>2, WithinItself, SettleRefines
  <2>4. QED
    BY <2>3 DEF Monitor!Next
<1>4. QED
  BY <1>2, <1>3

LEMMA NextRefines ==
  ASSUME NEW sh, Procs = {sh}, MonitorInv, TypeOK', [Next]_vars
  PROVE  [Monitor!Next]_(Monitor!vars)
<1> DEFINE r == proc[sh]
<1>0. /\ r \in Runs
      /\ \A s \in Runs : Local(sh, s) => proc'[sh] = s
      /\ \A s \in Runs : Write(sh, s) => proc'[sh] = s
  BY DEF MonitorInv, TypeOK, Local, Write
<1>1. CASE Environment
  <2>1. proc'[sh].pc = r.pc /\ proc'[sh].base = r.base /\ proc'[sh].failed = r.failed
    BY <1>0, <1>1 DEF Environment, EditFile, EditConfig, Rebase, Toggle, Edit, Runs
  <2>2. Running(sh)' = Running(sh)
    BY <2>1 DEF Running
  <2>3. CASE EditFile
    <3>1. UNCHANGED disk /\ file' \in [Paths -> Monitor!FileStates]
      BY <2>3 DEF EditFile, TypeOK, FileStates, Monitor!FileStates
    <3>2. Known' = Known /\ Failing' = Failing
      BY <2>1, <2>2, <3>1, SameRefines
    <3>3. Monitor!Change
      BY <3>1, <3>2 DEF Monitor!Change
    <3>4. QED
      BY <3>3 DEF Monitor!Next
  <2>4. CASE EditConfig \/ Toggle
    <3>1. UNCHANGED <<disk, file>>
      BY <2>4 DEF EditConfig, Toggle
    <3>2. Known' = Known /\ Failing' = Failing
      BY <2>1, <2>2, <3>1, SameRefines
    <3>3. QED
      BY <3>1, <3>2 DEF Monitor!vars
  <2>5. CASE Rebase
    <3>1. UNCHANGED file /\ Loaded(disk)' = Empty
      BY <2>5, SentinelsAssumption, EmptyType DEF Rebase, Loaded
    <3>2. CASE Running(sh)
      BY <2>1, <2>2, <3>1, <3>2, KeepRefines
    <3>3. CASE ~Running(sh)
      <4>1. Known' = Empty /\ Failing' = {}
        BY <2>2, <3>1, <3>3, OneShell
      <4>2. Monitor!Settle
        BY <3>1, <4>1, EmptyWithin, EmptyType, SettleRefines
      <4>3. QED
        BY <4>2 DEF Monitor!Next
    <3>4. QED
      BY <3>2, <3>3
  <2>6. QED
    BY <1>1, <2>3, <2>4, <2>5 DEF Environment
<1>2. CASE WriteStarter(sh)
  <2>1. ~Running(sh) /\ ~Running(sh)' /\ UNCHANGED <<file, disk>>
    BY <1>2 DEF WriteStarter, Start, Write, Running, Stopped
  <2>2. Known' = Known /\ Failing' = Failing
    BY <2>1, OneShell DEF Loaded
  <2>3. QED
    BY <2>1, <2>2 DEF Monitor!vars
<1>3. CASE Load(sh)
  <2>1. ~Running(sh) /\ UNCHANGED <<file, disk>>
    BY <1>3 DEF Load, Start, Running, world
  <2>2. (proc'[sh].base = Loaded(disk) /\ proc'[sh].failed = {}) \/ ~Running(sh)'
    <3>1. PICK m \in Modes \cap {"daemon", "once"} :
            proc'[sh] = IF config = NoConfig THEN Stopped("error")
                        ELSE [Stopped("none") EXCEPT
                                !.mode = m, !.pc = "look", !.paths = config,
                                !.todo = config, !.base = Loaded(disk), !.calm = TRUE]
      BY <1>3 DEF Load, Local, MonitorInv, TypeOK
    <3>2. Stopped("none") \in Runs /\ Stopped("none").failed = {}
      BY StoppedType DEF Exits, Stopped
    <3>3. LET s == [Stopped("none") EXCEPT
                      !.mode = m, !.pc = "look", !.paths = config,
                      !.todo = config, !.base = Loaded(disk), !.calm = TRUE]
          IN  s.base = Loaded(disk) /\ s.failed = {}
      BY <3>2 DEF Runs
    <3>4. Stopped("error").pc = "idle"
      BY DEF Stopped
    <3>5. QED
      BY <3>1, <3>3, <3>4 DEF Running
  <2>3. CASE Running(sh)'
    <3>1. Known' = Known /\ Failing' = {a.path : a \in {}} /\ Failing = {}
      BY <2>1, <2>2, <2>3, OneShell
    <3>2. Failing' = Failing
      BY <3>1
    <3>3. QED
      BY <2>1, <3>1, <3>2 DEF Monitor!vars
  <2>4. CASE ~Running(sh)'
    <3>1. Known' = Known /\ Failing' = Failing
      BY <2>1, <2>4, OneShell DEF Loaded
    <3>2. QED
      BY <2>1, <3>1 DEF Monitor!vars
  <2>5. QED
    BY <2>3, <2>4
<1>4. CASE Look(sh)
  BY <1>4, LookRefines
<1>5. CASE HashPath(sh)
  BY <1>5, HashRefines
<1>6. CASE Report(sh) \/ Post(sh) \/ Wake(sh) \/ Truncate(sh)
  <2>1. Running(sh) /\ UNCHANGED file
    BY <1>6 DEF Report, Post, Wake, Truncate, Running, world
  <2> DEFINE kept == /\ proc'[sh].base = r.base /\ proc'[sh].failed \in {r.failed, {}}
                     /\ proc'[sh].pc # "idle"
  <2>2. Report(sh) => kept
    BY <1>0 DEF Report, Local, Runs, MonitorInv, TypeOK
  <2>3. Post(sh) => kept
    BY <1>0 DEF Post, Local, Runs, MonitorInv, TypeOK
  <2>4. Wake(sh) => kept
    BY <1>0 DEF Wake, Local, Runs, MonitorInv, TypeOK
  <2>5. Truncate(sh) => kept
    BY <1>0 DEF Truncate, Write, Runs, MonitorInv, TypeOK
  <2>6. QED
    BY <1>6, <2>1, <2>2, <2>3, <2>4, <2>5, KeepRefines DEF Running
<1>7. CASE SarifFails(sh) \/ Crash(sh)
  <2>1. /\ Running(sh) /\ ~Running(sh)' /\ UNCHANGED <<file, disk>>
    BY <1>7 DEF SarifFails, Crash, Local, Stopped, Running, MonitorInv, TypeOK, world
  <2>2. Within(Loaded(disk)', r.base)
    BY <2>1 DEF MonitorInv, Extends, Loaded
  <2>3. QED
    BY <2>1, <2>2, EndRefines DEF Monitor!Next
<1>8. CASE WriteState(sh)
  <2>1. Running(sh) /\ UNCHANGED file
    BY <1>8 DEF WriteState, Running, world
  <2>2. Loaded(disk)' \in {r.base, Empty}
    BY <1>8 DEF WriteState, Loaded
  <2>3. CASE r.mode = "once"
    <3>1. ~Running(sh)'
      BY <1>8, <2>3 DEF WriteState, Write, Running, Stopped
    <3>2. Within(Loaded(disk)', r.base)
      BY <2>2, WithinItself, EmptyWithin
    <3>3. QED
      BY <2>1, <3>1, <3>2, EndRefines DEF Monitor!Next
  <2>4. CASE r.mode # "once"
    <3>1. /\ proc'[sh].base = r.base /\ proc'[sh].failed = r.failed
          /\ proc'[sh].pc = "sleep"
      BY <1>0, <1>8, <2>4 DEF WriteState, Write, Runs
    <3>2. QED
      BY <2>1, <3>1, KeepRefines DEF Running
  <2>5. QED
    BY <2>3, <2>4
<1>9. CASE UNCHANGED vars
  <2>1. Known' = Known /\ Failing' = Failing
    BY <1>9, SameRefines DEF vars, Running
  <2>2. QED
    BY <1>9, <2>1 DEF vars, Monitor!vars
<1>10. QED
  BY <1>1, <1>2, <1>3, <1>4, <1>5, <1>6, <1>7, <1>8, <1>9 DEF Next, Advance

\* One shell at a time, watch is a drift monitor: it never swaps a pin for
\* another content and raises no false alarm.
THEOREM WatchIsMonitor == ASSUME NEW sh, Procs = {sh} PROVE Spec => Monitored
<1>1. Init => MonitorInv /\ Monitor!Init
  BY InitType, InitExtends, InitRefines DEF MonitorInv
<1>2. MonitorInv /\ [Next]_vars => MonitorInv'
  BY NextType, NextExtends DEF MonitorInv
<1>3. MonitorInv /\ [Next]_vars => [Monitor!Next]_(Monitor!vars)
  BY NextType, NextRefines DEF MonitorInv
<1>4. QED
  BY <1>1, <1>2, <1>3, PTL DEF Spec, Monitored, Monitor!Spec
-----------------------------------------------------------------------------
(***************************************************************************)
(* What a run has pinned.  A run that nothing has disturbed and that has   *)
(* found no failure holds the present content of every path it is done     *)
(* with, and once it saves it is done with all of them.                    *)
(***************************************************************************)
InHand(r) == IF r.pc = "hash" THEN {r.at} ELSE {}

Holds(r, fl) == \A f \in r.paths : f \in r.todo \cup InHand(r) \/ r.base[f] = fl[f]

Saving(r, d) ==
  /\ r.pc \in {"alert", "save", "write"} => r.todo = {}
  /\ r.pc = "write" => d = Torn

PinsOK(r, fl, d) ==
  /\ r.pc # "idle" => r.exit = "none"
  /\ r.calm /\ r.failed = {} /\ r.pc # "sleep" => Holds(r, fl)
  /\ r.calm => Saving(r, d)

PinsInv == TypeOK /\ \A p \in Procs : PinsOK(proc[p], file, disk)

LEMMA StoppedPins ==
  ASSUME NEW x, NEW fl, NEW d
  PROVE  PinsOK(Stopped(x), fl, d)
BY DEF Stopped, PinsOK

\* A step of one shell leaves the others what they hold, or ends their calm.
LEMMA PinsStep ==
  ASSUME PinsInv, TypeOK', NEW p \in Procs, NEW r, PinsOK(r, file', disk'),
         (Local(p, r) /\ UNCHANGED <<file, disk>>) \/ Write(p, r)
  PROVE  PinsInv'
<1>1. ASSUME NEW q \in Procs PROVE PinsOK(proc'[q], file', disk')
  <2>1. proc[q] \in Runs /\ PinsOK(proc[q], file, disk) /\ proc \in [Procs -> Runs]
    BY DEF PinsInv, TypeOK
  <2>2. CASE q = p
    <3>1. proc'[q] = r
      BY <2>1, <2>2 DEF Local, Write
    <3>2. QED
      BY <3>1
  <2>3. CASE q # p /\ Local(p, r) /\ UNCHANGED <<file, disk>>
    <3>1. proc'[q] = proc[q]
      BY <2>1, <2>3 DEF Local
    <3>2. QED
      BY <2>1, <2>3, <3>1
  <2>4. CASE q # p /\ Write(p, r)
    <3>1. proc'[q] = [proc[q] EXCEPT !.calm = FALSE]
      BY <2>4 DEF Write
    <3>2. proc'[q].pc = proc[q].pc /\ proc'[q].exit = proc[q].exit
      BY <2>1, <3>1 DEF Runs
    <3>3. proc'[q].calm = FALSE
      BY <2>1, <3>1 DEF Runs
    <3>4. QED
      BY <2>1, <3>2, <3>3 DEF PinsOK
  <2>5. QED
    BY <2>2, <2>3, <2>4
<1>2. QED
  BY <1>1 DEF PinsInv

LEMMA PinsInit == Init => PinsInv
BY InitType, StoppedPins DEF Init, PinsInv

LEMMA LoadPins ==
  ASSUME PinsInv, TypeOK', NEW p \in Procs, Load(p)
  PROVE  PinsInv'
<1>0. UNCHANGED <<file, disk>>
  BY DEF Load, world
<1>1. PICK m \in Modes \cap {"daemon", "once"} :
        IF config = NoConfig
        THEN Local(p, Stopped("error"))
        ELSE Local(p, [Stopped("none") EXCEPT
                         !.mode = m, !.pc = "look", !.paths = config, !.todo = config,
                         !.base = Loaded(disk), !.calm = TRUE])
  BY DEF Load
<1> DEFINE s == [Stopped("none") EXCEPT
                   !.mode = m, !.pc = "look", !.paths = config, !.todo = config,
                   !.base = Loaded(disk), !.calm = TRUE]
<1>2. s.pc = "look" /\ s.paths = config /\ s.todo = config /\ s.exit = "none"
  BY DEF Stopped
<1>3. PinsOK(s, file', disk')
  BY <1>2 DEF PinsOK, Holds, Saving
<1>4. QED
  BY <1>0, <1>1, <1>3, StoppedPins, PinsStep

LEMMA LookPins ==
  ASSUME PinsInv, TypeOK', NEW p \in Procs, Look(p)
  PROVE  PinsInv'
<1> DEFINE r == proc[p]
<1>0. /\ r \in Runs /\ PinsOK(r, file, disk) /\ r.pc = "look"
      /\ UNCHANGED <<file, disk>>
  BY DEF Look, world, PinsInv, TypeOK
<1>1. PICK f \in r.todo :
        Local(p, IF file[f] = Absent
                 THEN [r EXCEPT !.todo = @ \ {f},
                         !.failed = @ \cup {[path |-> f, was |-> Unknown, now |-> Absent]}]
                 ELSE [r EXCEPT !.todo = @ \ {f}, !.at = f, !.pc = "hash"])
  BY DEF Look
<1>2. CASE file[f] = Absent
  <2> DEFINE s == [r EXCEPT !.todo = @ \ {f},
                     !.failed = @ \cup {[path |-> f, was |-> Unknown, now |-> Absent]}]
  <2>1. s.pc = "look" /\ s.exit = r.exit /\ s.failed # {}
    BY <1>0 DEF Runs
  <2>2. PinsOK(s, file', disk')
    BY <1>0, <2>1 DEF PinsOK, Saving
  <2>3. QED
    BY <1>0, <1>1, <1>2, <2>2, PinsStep
<1>3. CASE file[f] # Absent
  <2> DEFINE s == [r EXCEPT !.todo = @ \ {f}, !.at = f, !.pc = "hash"]
  <2>1. /\ s.pc = "hash" /\ s.exit = r.exit /\ s.failed = r.failed /\ s.paths = r.paths
        /\ s.base = r.base /\ s.at = f /\ s.todo = r.todo \ {f}
    BY <1>0 DEF Runs
  <2>2. s.calm = r.calm
    BY <1>0 DEF Runs
  <2>3. Holds(r, file) => Holds(s, file')
    BY <1>0, <2>1 DEF Holds, InHand
  <2>4. PinsOK(s, file', disk')
    BY <1>0, <2>1, <2>2, <2>3 DEF PinsOK, Saving
  <2>5. QED
    BY <1>0, <1>1, <1>3, <2>4, PinsStep
<1>4. QED
  BY <1>2, <1>3

\* A hash that is not the baseline is a failure, a first one is pinned.
LEMMA HashPins ==
  ASSUME PinsInv, TypeOK', NEW p \in Procs, HashPath(p)
  PROVE  PinsInv'
<1> DEFINE r == proc[p]
           c == file[r.at]
           s == [r EXCEPT !.pc = "look", !.at = Unknown,
                          !.base = Pinned(r, c), !.failed = Failed(r, c)]
<1>0. /\ r \in Runs /\ PinsOK(r, file, disk) /\ r.pc = "hash" /\ r.at \in Paths
      /\ UNCHANGED <<file, disk>>
  BY DEF HashPath, world, PinsInv, TypeOK
<1>1. CASE c \in Contents
  <2>1. /\ s.pc = "look" /\ s.exit = r.exit /\ s.failed = Failed(r, c) /\ s.paths = r.paths
        /\ s.base = Pinned(r, c) /\ s.todo = r.todo
    BY <1>0 DEF Runs
  <2>2. s.calm = r.calm
    BY <1>0 DEF Runs
  <2>3. ASSUME Failed(r, c) = {} PROVE r.failed = {} /\ r.base[r.at] \in {Unknown, c}
    BY <2>3 DEF Failed
  <2>4. r.base \in [Paths -> Contents \cup {Unknown}] /\ r.paths \subseteq Paths
    BY <1>0 DEF Runs, Bases
  <2>5. ASSUME r.base[r.at] \in {Unknown, c}, Holds(r, file) PROVE Holds(s, file')
    <3>1. Pinned(r, c)[r.at] = c
      BY <1>0, <2>4, <2>5 DEF Pinned
    <3>2. \A f \in Paths : f # r.at => Pinned(r, c)[f] = r.base[f]
      BY <2>4 DEF Pinned
    <3>3. QED
      BY <1>0, <2>1, <2>4, <2>5, <3>1, <3>2 DEF Holds, InHand
  <2>6. PinsOK(s, file', disk')
    BY <1>0, <2>1, <2>2, <2>3, <2>5 DEF PinsOK, Saving
  <2>7. Local(p, s)
    BY <1>1 DEF HashPath
  <2>8. QED
    BY <1>0, <2>6, <2>7, PinsStep
<1>2. CASE c \notin Contents
  <2>1. Local(p, Stopped("error"))
    BY <1>2 DEF HashPath
  <2>2. QED
    BY <1>0, <2>1, StoppedPins, PinsStep
<1>3. QED
  BY <1>1, <1>2

\* The steps between the round and the write keep what was pinned.
LEMMA ReportPins ==
  ASSUME PinsInv, TypeOK', NEW p \in Procs, Report(p) \/ Post(p) \/ Wake(p)
  PROVE  PinsInv'
<1> DEFINE r == proc[p]
<1>0. r \in Runs /\ PinsOK(r, file, disk) /\ UNCHANGED <<file, disk>>
  BY DEF Report, Post, Wake, world, PinsInv, TypeOK
<1>1. CASE r.todo = {} /\ r.pc \in {"look", "alert"} /\ Local(p, [r EXCEPT !.pc = "save"])
  <2> DEFINE s == [r EXCEPT !.pc = "save"]
  <2>1. /\ s.pc = "save" /\ s.exit = r.exit /\ s.failed = r.failed /\ s.paths = r.paths
        /\ s.base = r.base /\ s.todo = r.todo
    BY <1>0 DEF Runs
  <2>2. s.calm = r.calm
    BY <1>0 DEF Runs
  <2>3. PinsOK(s, file', disk')
    BY <1>0, <1>1, <2>1, <2>2 DEF PinsOK, Saving, Holds, InHand
  <2>4. QED
    BY <1>0, <1>1, <2>3, PinsStep
<1>2. CASE r.todo = {} /\ r.pc = "look" /\ Local(p, [r EXCEPT !.pc = "alert", !.hooks = Hooks])
  <2> DEFINE s == [r EXCEPT !.pc = "alert", !.hooks = Hooks]
  <2>1. /\ s.pc = "alert" /\ s.exit = r.exit /\ s.failed = r.failed /\ s.paths = r.paths
        /\ s.base = r.base /\ s.todo = r.todo
    BY <1>0 DEF Runs
  <2>2. s.calm = r.calm
    BY <1>0 DEF Runs
  <2>3. PinsOK(s, file', disk')
    BY <1>0, <1>2, <2>1, <2>2 DEF PinsOK, Saving, Holds, InHand
  <2>4. QED
    BY <1>0, <1>2, <2>3, PinsStep
<1>3. ASSUME NEW h, r.pc = "alert", Local(p, [r EXCEPT !.hooks = Remaining(r, h)])
      PROVE  PinsInv'
  <2> DEFINE s == [r EXCEPT !.hooks = Remaining(r, h)]
  <2>1. /\ s.pc = r.pc /\ s.exit = r.exit /\ s.failed = r.failed /\ s.paths = r.paths
        /\ s.base = r.base /\ s.todo = r.todo
    BY <1>0 DEF Runs
  <2>2. s.calm = r.calm
    BY <1>0 DEF Runs
  <2>3. PinsOK(s, file', disk')
    BY <1>0, <1>3, <2>1, <2>2 DEF PinsOK, Saving, Holds, InHand
  <2>4. QED
    BY <1>0, <1>3, <2>3, PinsStep
<1>4. CASE r.pc = "sleep" /\ Local(p, [r EXCEPT !.pc = "look", !.todo = r.paths, !.failed = {}])
  <2> DEFINE s == [r EXCEPT !.pc = "look", !.todo = r.paths, !.failed = {}]
  <2>1. s.pc = "look" /\ s.exit = r.exit /\ s.paths = r.paths /\ s.todo = r.paths
    BY <1>0 DEF Runs
  <2>2. PinsOK(s, file', disk')
    BY <1>0, <1>4, <2>1 DEF PinsOK, Saving, Holds
  <2>3. QED
    BY <1>0, <1>4, <2>2, PinsStep
<1>5. CASE Report(p)
  BY <1>1, <1>2, <1>5 DEF Report
<1>6. CASE Post(p)
  <2>1. r.pc = "alert" /\ (r.calm => r.todo = {})
    BY <1>0, <1>6 DEF Post, PinsOK, Saving
  <2>2. ASSUME Local(p, [r EXCEPT !.pc = "save"]) PROVE PinsInv'
    <3> DEFINE s == [r EXCEPT !.pc = "save"]
    <3>1. /\ s.pc = "save" /\ s.exit = r.exit /\ s.failed = r.failed /\ s.paths = r.paths
          /\ s.base = r.base /\ s.todo = r.todo
      BY <1>0 DEF Runs
    <3>2. s.calm = r.calm
      BY <1>0 DEF Runs
    <3>3. PinsOK(s, file', disk')
      BY <1>0, <2>1, <3>1, <3>2 DEF PinsOK, Saving, Holds, InHand
    <3>4. QED
      BY <1>0, <2>2, <3>3, PinsStep
  <2>3. (\E h : Local(p, [r EXCEPT !.hooks = Remaining(r, h)]))
          \/ Local(p, [r EXCEPT !.pc = "save"])
    BY <1>6 DEF Post
  <2>4. QED
    BY <1>3, <2>1, <2>2, <2>3
<1>7. CASE Wake(p)
  BY <1>4, <1>7 DEF Wake
<1>8. QED
  BY <1>5, <1>6, <1>7

LEMMA SavePins ==
  ASSUME PinsInv, TypeOK', NEW p \in Procs, Truncate(p) \/ WriteState(p)
  PROVE  PinsInv'
<1> DEFINE r == proc[p]
<1>0. r \in Runs /\ PinsOK(r, file, disk) /\ file' = file
  BY DEF Truncate, WriteState, world, PinsInv, TypeOK
<1>1. CASE Truncate(p)
  <2> DEFINE s == [r EXCEPT !.pc = "write"]
  <2>1. /\ s.pc = "write" /\ s.exit = r.exit /\ s.failed = r.failed /\ s.paths = r.paths
        /\ s.base = r.base /\ s.todo = r.todo
    BY <1>0 DEF Runs
  <2>2. s.calm = r.calm
    BY <1>0 DEF Runs
  <2>3. disk' = Torn /\ r.pc = "save" /\ Write(p, s)
    BY <1>1 DEF Truncate
  <2>4. PinsOK(s, file', disk')
    BY <1>0, <2>1, <2>2, <2>3 DEF PinsOK, Saving, Holds, InHand
  <2>5. QED
    BY <2>3, <2>4, PinsStep
<1>2. CASE WriteState(p) /\ r.mode = "once"
  <2>1. Write(p, Stopped(Verdict(r)))
    BY <1>2 DEF WriteState
  <2>2. QED
    BY <2>1, StoppedPins, PinsStep
<1>3. CASE WriteState(p) /\ r.mode # "once"
  <2> DEFINE s == [r EXCEPT !.pc = "sleep"]
  <2>1. s.pc = "sleep" /\ s.exit = r.exit
    BY <1>0 DEF Runs
  <2>2. r.pc = "write" /\ Write(p, s)
    BY <1>3 DEF WriteState
  <2>3. PinsOK(s, file', disk')
    BY <1>0, <2>1, <2>2 DEF PinsOK, Saving
  <2>4. QED
    BY <2>2, <2>3, PinsStep
<1>4. QED
  BY <1>1, <1>2, <1>3

LEMMA NextPins ==
  ASSUME PinsInv, [Next]_vars
  PROVE  PinsInv'
<1>0. TypeOK'
  BY NextType DEF PinsInv
<1>1. ASSUME Environment PROVE PinsInv'
  <2>1. proc' = [q \in Procs |-> [proc[q] EXCEPT !.calm = FALSE]]
    BY <1>1 DEF Environment, EditFile, EditConfig, Rebase, Toggle, Edit
  <2>2. ASSUME NEW q \in Procs PROVE PinsOK(proc'[q], file', disk')
    <3>1. proc[q] \in Runs /\ PinsOK(proc[q], file, disk)
      BY DEF PinsInv, TypeOK
    <3>2. proc'[q].pc = proc[q].pc /\ proc'[q].exit = proc[q].exit
      BY <2>1, <3>1 DEF Runs
    <3>3. proc'[q].calm = FALSE
      BY <2>1, <3>1 DEF Runs
    <3>4. QED
      BY <3>1, <3>2, <3>3 DEF PinsOK
  <2>3. QED
    BY <1>0, <2>2 DEF PinsInv
<1>2. ASSUME NEW p \in Procs, SarifFails(p) \/ Crash(p) PROVE PinsInv'
  <2>1. (\E x : Local(p, Stopped(x))) /\ UNCHANGED <<file, disk>>
    BY <1>2 DEF SarifFails, Crash, world
  <2>2. QED
    BY <1>0, <2>1, StoppedPins, PinsStep
<1>3. ASSUME NEW p \in Procs, WriteStarter(p) PROVE PinsInv'
  BY <1>0, <1>3, StoppedPins, PinsStep DEF WriteStarter
<1>4. CASE UNCHANGED vars
  BY <1>0, <1>4 DEF vars, PinsInv
<1>5. QED
  BY <1>0, <1>1, <1>2, <1>3, <1>4, LoadPins, LookPins, HashPins, ReportPins, SavePins
     DEF Next, Advance

\* watch --once that passes undisturbed leaves a state file with the present
\* content of every path (watch.rs:159-230, main.rs:484-503), for any paths
THEOREM PassPinsWhatItSaw == Spec => PassPins
<1> DEFINE Step == \A p \in Procs :
       proc[p].pc = "write" /\ proc[p].calm /\ proc[p].mode = "once" /\ proc'[p].exit = "pass"
         => \A f \in proc[p].paths : disk'[f] = file[f]
<1>1. PinsInv /\ [Next]_vars => Step
  <2> SUFFICES ASSUME PinsInv, [Next]_vars, NEW p \in Procs, proc[p].pc = "write",
                      proc[p].calm, proc[p].mode = "once", proc'[p].exit = "pass"
               PROVE  \A f \in proc[p].paths : disk'[f] = file[f]
    OBVIOUS
  <2> DEFINE r == proc[p]
  <2>1. r \in Runs /\ proc \in [Procs -> Runs] /\ PinsOK(r, file, disk) /\ r.exit = "none"
    BY DEF PinsInv, TypeOK, PinsOK
  <2>2. ASSUME WriteState(p) PROVE \A f \in r.paths : disk'[f] = file[f]
    <3>1. Write(p, Stopped(Verdict(r)))
      BY <2>2 DEF WriteState
    <3>2. proc'[p] = Stopped(Verdict(r))
      BY <3>1 DEF Write
    <3>3. r.failed = {}
      BY <3>2 DEF Stopped, Verdict
    <3>4. disk = Torn /\ r.todo = {} /\ Holds(r, file)
      BY <2>1, <3>3 DEF PinsOK, Saving
    <3>5. disk' = r.base
      BY <2>2, <3>4 DEF WriteState
    <3>6. QED
      BY <3>4, <3>5 DEF Holds, InHand
  <2>3. ASSUME proc'[p].exit = r.exit PROVE FALSE
    BY <2>1, <2>3
  <2>4. ASSUME NEW x \in Exits, Local(p, Stopped(x)), x # "pass" PROVE FALSE
    <3>1. proc'[p] = Stopped(x)
      BY <2>1, <2>4 DEF Local
    <3>2. QED
      BY <2>4, <3>1 DEF Stopped
  <2>5. ASSUME NEW q \in Procs, q # p, NEW s, Local(q, s) \/ Write(q, s) PROVE FALSE
    <3>1. proc'[p] = r \/ proc'[p] = [r EXCEPT !.calm = FALSE]
      BY <2>1, <2>5 DEF Local, Write
    <3>2. QED
      BY <2>1, <2>3, <3>1 DEF Runs
  <2>6. ASSUME Environment PROVE FALSE
    <3>1. proc'[p] = [r EXCEPT !.calm = FALSE]
      BY <2>6 DEF Environment, EditFile, EditConfig, Rebase, Toggle, Edit
    <3>2. QED
      BY <2>1, <2>3, <3>1 DEF Runs
  <2>7. ASSUME NEW q \in Procs, q # p,
               WriteStarter(q) \/ Load(q) \/ Advance(q) \/ Crash(q)
        PROVE  FALSE
    <3>1. ASSUME Load(q) PROVE \E s : Local(q, s)
      <4>1. PICK m \in Modes \cap {"daemon", "once"} :
              Local(q, Stopped("error"))
                \/ Local(q, [Stopped("none") EXCEPT
                         !.mode = m, !.pc = "look", !.paths = config, !.todo = config,
                         !.base = Loaded(disk), !.calm = TRUE])
        BY <3>1 DEF Load
      <4>2. QED
        BY <4>1
    <3>2. ASSUME Advance(q) PROVE \E s : Local(q, s) \/ Write(q, s)
      <4>1. CASE Look(q)
        <5>1. PICK f \in proc[q].todo :
                Local(q, IF file[f] = Absent
                  THEN [proc[q] EXCEPT !.todo = @ \ {f},
                         !.failed = @ \cup {[path |-> f, was |-> Unknown, now |-> Absent]}]
                  ELSE [proc[q] EXCEPT !.todo = @ \ {f}, !.at = f, !.pc = "hash"])
          BY <4>1 DEF Look
        <5>2. QED
          BY <5>1
      <4>2. CASE HashPath(q)
        BY <4>2 DEF HashPath
      <4>3. CASE Report(q)
        BY <4>3 DEF Report
      <4>4. CASE Post(q)
        <5>1. (\E h \in proc[q].hooks : Local(q, [proc[q] EXCEPT !.hooks = Remaining(proc[q], h)]))
                \/ Local(q, [proc[q] EXCEPT !.pc = "save"])
          BY <4>4 DEF Post
        <5>2. QED
          BY <5>1
      <4>5. CASE SarifFails(q) \/ Truncate(q) \/ WriteState(q) \/ Wake(q)
        BY <4>5 DEF SarifFails, Truncate, WriteState, Wake
      <4>6. QED
        BY <3>2, <4>1, <4>2, <4>3, <4>4, <4>5 DEF Advance
    <3>3. \E s : Local(q, s) \/ Write(q, s)
      BY <2>7, <3>1, <3>2 DEF WriteStarter, Crash
    <3>4. QED
      BY <2>5, <2>7, <3>3
  <2>8. ASSUME WriteStarter(p) \/ Load(p) \/ Crash(p) \/ Look(p) \/ HashPath(p) \/ Report(p)
                 \/ Post(p) \/ SarifFails(p) \/ Truncate(p) \/ Wake(p)
        PROVE  FALSE
    BY <2>4, <2>8 DEF WriteStarter, Load, Start, Running, Crash, Look, HashPath, Report, Post,
       SarifFails, Truncate, Wake, Exits
  <2>9. CASE UNCHANGED vars
    BY <2>3, <2>9 DEF vars
  <2>10. QED
    BY <2>2, <2>6, <2>7, <2>8, <2>9 DEF Next, Advance
<1>2. Spec => [][Step]_vars
  BY <1>1, PinsInit, NextPins, PTL DEF Spec
<1>3. QED
  BY <1>2 DEF PassPins
=============================================================================
