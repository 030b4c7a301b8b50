-------------------------------- MODULE Seal --------------------------------
(***************************************************************************)
(* The seal workflow: `sorseal record`, `sorseal verify` and `sorseal      *)
(* analyze --seal` over one project directory, its git repository and its  *)
(* build output, while the developer keeps working in the same directory.  *)
(*                                                                         *)
(* Each subcommand is a process that reads and writes the shared files one *)
(* at a time (src/src/runner.rs and the dispatch in src/src/main.rs), so   *)
(* an edit, a commit, another subcommand or a crash can come between any   *)
(* two of its steps.                                                       *)
(*                                                                         *)
(* Data is abstracted to what the checks compare.  A digest is the content *)
(* it is taken of (SHA-256 is taken to be injective); a build is a         *)
(* relation from source and command to what it may leave behind.           *)
(***************************************************************************)
EXTENDS Naturals, Sequences

CONSTANTS
  Artifacts,    \* artifact ids a manifest may declare
  AtRoot,       \* the artifacts whose source_root is "." (the default)
  Sources,      \* contents an artifact's own source files may have
  NoDir,        \* the element of Sources that stands for a missing source_root
  Commands,     \* build commands
  Projects,     \* project names
  Wasms,        \* wasm binaries
  Builds,       \* Builds[s, c]: what running command c on source s may do
  Audits,       \* possible digests of an analysis
  AuditOf,      \* AuditOf[t]: the analysis digest of the scanned sources t
  Procs,        \* command-line processes
  Cli,          \* the subcommands that are run
  AllowDirty,   \* the values --allow-dirty is given
  MaxCommits,   \* bound on commits ever made
  MaxEdits,     \* bound on steps of the developer
  MaxStarts,    \* bound on subcommands started
  Missing,      \* no provenance file
  Corrupt,      \* a provenance file Provenance::load rejects
  Unsealed,     \* no entry for the artifact in the seal
  Undeclared,   \* no entry for the artifact in the manifest
  Fails,        \* a build that exits non-zero
  NoOutput,     \* a build that succeeds and leaves the wasm file alone
  NoWasm,       \* no wasm file in the build output
  NoArt         \* no artifact in progress

Manifests == [name : Projects, cmd : [Artifacts -> Commands \cup {Undeclared}]]

\* digest::tree_sha256 of artifact a's source_root.  An artifact at the root
\* covers the sources of the others and sorseal.toml; none covers the
\* provenance file (SKIP_FILES) or target/ (SKIP_DIRS).
TreeDigest(src, man, a) == IF a \in AtRoot THEN <<src, man>> ELSE <<src[a]>>

\* What analyze_tree reads of artifact a.
Scan(src, a) == IF a \in AtRoot THEN <<src>> ELSE <<src[a]>>

Scans == {Scan(src, a) : src \in [Artifacts -> Sources], a \in Artifacts}

Digests == {TreeDigest(src, man, a) :
              src \in [Artifacts -> Sources], man \in Manifests, a \in Artifacts}

Entries == [cmd : Commands, wasm : Wasms, src : Digests]

GitStates == [present : BOOLEAN, commit : 0..MaxCommits, clean : BOOLEAN]

Seals == [project  : Projects,
          git      : GitStates,
          art      : [Artifacts -> Entries \cup {Unsealed}],
          analysis : Seq([id : Artifacts, digest : Audits])]

\* What git tracks: the sources, the manifest and the provenance file.
\* target/ is ignored.
Trees == [src  : [Artifacts -> Sources],
          man  : Manifests,
          prov : Seals \cup {Missing, Corrupt}]

ASSUME ConstantsAssumption ==
  /\ AtRoot \subseteq Artifacts
  /\ NoDir \in Sources
  /\ Builds \in [Sources \X Commands -> SUBSET (Wasms \cup {Fails, NoOutput})]
  /\ AuditOf \in [Scans -> Audits]
  /\ Cli \subseteq {"record", "verify", "analyze"}
  /\ AllowDirty \subseteq BOOLEAN
  /\ MaxCommits \in Nat /\ MaxEdits \in Nat /\ MaxStarts \in Nat

ASSUME SentinelsAssumption ==
  /\ Missing # Corrupt /\ Missing \notin Seals /\ Corrupt \notin Seals
  /\ Unsealed \notin Entries
  /\ Undeclared \notin Commands
  /\ NoWasm \notin Wasms /\ Fails \notin Wasms /\ NoOutput \notin Wasms
  /\ Fails # NoOutput
  /\ NoArt \notin Artifacts

VARIABLES
  work,     \* the working tree
  index,    \* git's staging area
  commits,  \* every commit object: its tree and its ancestors, itself included
  head,     \* the commit HEAD names, 0 when there is none
  marker,   \* whether .git exists
  wasm,     \* target/: the wasm file of each artifact
  proc,     \* the command-line processes
  edits,    \* steps of the developer so far
  starts    \* subcommands started so far

vars == <<work, index, commits, head, marker, wasm, proc, edits, starts>>
repo == <<index, commits, head, marker>>

Steps == {"idle", "status", "load", "git", "build", "wasm", "source", "scan", "write"}
Exits == {"none", "pass", "fail", "error", "killed"}   \* exit codes 0, 1, 2

\* A process: the subcommand and its next step, the manifest and the seal it
\* holds in memory, the artifacts still to do, the one in hand and its wasm
\* digest, and whether every check passed.  `calm` records that nothing has changed the shared
\* files under the run since it started; no step depends on it.
Processes == [cli : Cli \cup {"none"}, pc : Steps, man : Manifests,
              seal : Seals \cup {Missing}, todo : SUBSET Artifacts,
              at : Artifacts \cup {NoArt}, got : Wasms \cup {NoWasm},
              ok : BOOLEAN, dirtyOk : BOOLEAN, exit : Exits, calm : BOOLEAN]

TypeOK ==
  /\ work \in Trees /\ index \in Trees
  /\ commits \in Seq([tree : Trees, anc : SUBSET (1..MaxCommits)])
  /\ Len(commits) <= MaxCommits
  /\ head \in 0..Len(commits)
  /\ marker \in BOOLEAN
  /\ wasm \in [Artifacts -> Wasms \cup {NoWasm}]
  /\ proc \in [Procs -> Processes]
  /\ edits \in 0..MaxEdits /\ starts \in 0..MaxStarts

Declared(man) == {a \in Artifacts : man.cmd[a] # Undeclared}
Sealed(s) == {a \in Artifacts : s.art[a] # Unsealed}

-----------------------------------------------------------------------------
(***************************************************************************)
(* Faults.  Each definition whose name ends in Fault is the definition it  *)
(* is named after with a plausible bug in it; the model never uses it.  A  *)
(* property is trusted only if putting such a fault in breaks it.          *)
(***************************************************************************)
OutputFault(a, o) == [wasm EXCEPT ![a] = o]
CleanFault == head # 0 /\ index = commits[head].tree
MaySealFault(r) == TRUE
LostCommitFault(r) == r.seal.git.present => head # 0
UnversionedFault(r) == head # 0 /\ r.seal.git.commit \in commits[head].anc
PushFault(analysis, e) == <<e>>
AtSaveFault(p) == proc[p].pc = "scan" \/ (proc[p].cli = "record" /\ proc[p].pc = "build")
-----------------------------------------------------------------------------
(***************************************************************************)
(* What a step reads off the shared files                                  *)
(***************************************************************************)

\* How command c may end on the present source of artifact a.
Outcomes(a, c) == Builds[<<work.src[a], c>>]

\* What a build that ended in o leaves in target/.
Output(a, o) == [wasm EXCEPT ![a] = IF o \in Wasms THEN o ELSE @]

\* git status --porcelain prints nothing.
Clean == head # 0 /\ work = index /\ index = commits[head].tree

\* record refuses a dirty tree unless --allow-dirty was given.
MaySeal(r) == marker /\ (Clean \/ r.dirtyOk)

\* The git check: git merge-base --is-ancestor <sealed commit> HEAD.
CommitKept(r) ==
  r.seal.git.present => head # 0 /\ r.seal.git.commit \in commits[head].anc

\* No declared artifact without an entry in the seal.
NoGap(r) == Declared(r.man) \subseteq Sealed(r.seal)

\* The seal with one more analysis entry.
Push(analysis, e) == Append(analysis, e)
-----------------------------------------------------------------------------

Stopped(m, x) ==
  [cli |-> "none", pc |-> "idle", man |-> m, seal |-> Missing, todo |-> {},
   at |-> NoArt, got |-> NoWasm, ok |-> TRUE, dirtyOk |-> FALSE, exit |-> x, calm |-> FALSE]

\* A step of p that only reads the shared files, and one that writes them: what
\* it changes, it changes under the other processes.
Local(p, r) == proc' = [proc EXCEPT ![p] = r]
Write(p, r) ==
  proc' = [q \in Procs |->
             IF q = p THEN r
             ELSE [proc[q] EXCEPT !.calm = @ /\ work' = work /\ wasm' = wasm]]
Exit(p, x) == Local(p, Stopped(proc[p].man, x))

Init ==
  /\ work \in [src : [Artifacts -> Sources \ {NoDir}], man : Manifests, prov : {Missing}]
  /\ Declared(work.man) # {}
  /\ index = work
  /\ commits = <<>> /\ head = 0 /\ marker \in BOOLEAN
  /\ wasm = [a \in Artifacts |-> NoWasm]
  /\ proc = [p \in Procs |-> Stopped(work.man, "none")]
  /\ edits = 0 /\ starts = 0
-----------------------------------------------------------------------------
(***************************************************************************)
(* Starting a subcommand.  Manifest::load runs first in each of them; a    *)
(* manifest that declares no artifact is rejected.                         *)
(***************************************************************************)
Start(p, cli, next, dirtyOk) ==
  /\ cli \in Cli /\ proc[p].pc = "idle" /\ starts < MaxStarts
  /\ starts' = starts + 1
  /\ IF Declared(work.man) = {}
     THEN Exit(p, "error")
     ELSE Local(p, [Stopped(work.man, "none") EXCEPT
                      !.cli = cli, !.pc = next, !.dirtyOk = dirtyOk, !.calm = TRUE])
  /\ UNCHANGED <<work, repo, wasm, edits>>

RecordStart(p) == \E d \in AllowDirty : Start(p, "record", "git", d)
VerifyStart(p) == Start(p, "verify", "load", FALSE)
AnalyzeStart(p) == Start(p, "analyze", "load", FALSE)

At(p, cli, pc) == proc[p].cli = cli /\ proc[p].pc = pc

\* A fresh seal that holds only the git state.
Fresh(man, present, commit) ==
  [project |-> man.name,
   git |-> [present |-> present, commit |-> commit, clean |-> FALSE],
   art |-> [a \in Artifacts |-> Unsealed], analysis |-> <<>>]

\* git_state, first half: git rev-parse HEAD.
RecordRevParse(p) ==
  LET r == proc[p] IN
  /\ At(p, "record", "git")
  /\ \/ /\ head # 0
        /\ Local(p, [r EXCEPT !.pc = "status", !.seal = Fresh(r.man, TRUE, head)])
     \/ /\ head = 0 /\ marker
        /\ Exit(p, "error")
     \/ /\ head = 0 /\ ~marker
        /\ Local(p, [r EXCEPT !.pc = "build", !.seal = Fresh(r.man, FALSE, 0),
                              !.todo = Declared(r.man)])
  /\ UNCHANGED <<work, repo, wasm, edits, starts>>

\* git_state, second half: git status; then the refusal of a dirty tree.
RecordStatus(p) ==
  LET r == proc[p] IN
  /\ At(p, "record", "status")
  /\ IF MaySeal(r)
     THEN Local(p, [r EXCEPT !.pc = "build", !.seal.git.clean = Clean,
                             !.todo = Declared(r.man)])
     ELSE Exit(p, "error")
  /\ UNCHANGED <<work, repo, wasm, edits, starts>>

\* run_build for the next artifact, and the check that the wasm file exists.
RecordBuild(p) ==
  LET r == proc[p] IN
  /\ At(p, "record", "build")
  /\ \E a \in r.todo : \E o \in Outcomes(a, r.man.cmd[a]) :
       /\ wasm' = Output(a, o) /\ UNCHANGED work
       /\ Write(p, IF o = Fails \/ wasm'[a] = NoWasm
                     THEN Stopped(r.man, "error")
                     ELSE [r EXCEPT !.pc = "wasm", !.at = a, !.todo = @ \ {a}])
  /\ UNCHANGED <<repo, edits, starts>>

\* file_sha256 of the build output.
RecordWasm(p) ==
  LET r == proc[p] IN
  /\ At(p, "record", "wasm")
  /\ IF wasm[r.at] = NoWasm
     THEN Exit(p, "error")
     ELSE Local(p, [r EXCEPT !.pc = "source", !.got = wasm[r.at]])
  /\ UNCHANGED <<work, repo, wasm, edits, starts>>

\* tree_sha256 of the source_root, read after the build and the wasm hash;
\* the artifact's entry is complete.
RecordSource(p) ==
  LET r == proc[p]
      entry == [cmd |-> r.man.cmd[r.at], wasm |-> r.got,
                src |-> TreeDigest(work.src, work.man, r.at)]
  IN
  /\ At(p, "record", "source")
  /\ IF work.src[r.at] = NoDir
     THEN Exit(p, "error")
     ELSE Local(p, [r EXCEPT !.pc = "build", !.at = NoArt, !.got = NoWasm,
                             !.seal.art[r.at] = entry])
  /\ UNCHANGED <<work, repo, wasm, edits, starts>>
-----------------------------------------------------------------------------
(***************************************************************************)
(* verify                                                                  *)
(***************************************************************************)

\* The artifacts analyze scans: all, or the one --artifact names.
Chosen(man) == {Declared(man)} \cup {Declared(man) \cap {a} : a \in Artifacts}

\* Provenance::load for verify and for analyze --seal, and the name check.
LoadSeal(p) ==
  LET r == proc[p] IN
  /\ r.pc = "load"
  /\ \/ /\ work.prov \in {Missing, Corrupt}
        /\ Exit(p, "error")
     \/ /\ work.prov \notin {Missing, Corrupt} /\ r.cli = "verify"
        /\ Local(p, [r EXCEPT !.pc = "git", !.seal = work.prov,
                              !.ok = (work.prov.project = r.man.name)])
     \/ /\ work.prov \notin {Missing, Corrupt} /\ r.cli = "analyze"
        /\ \E t \in Chosen(r.man) :
             Local(p, [r EXCEPT !.pc = "scan", !.seal = work.prov, !.todo = t])
  /\ UNCHANGED <<work, repo, wasm, edits, starts>>

\* The sealed commit must be reachable from HEAD; then the declared artifacts
\* the seal does not cover.
VerifyGit(p) ==
  LET r == proc[p] IN
  /\ At(p, "verify", "git")
  /\ IF r.seal.git.present /\ marker /\ head = 0
     THEN Exit(p, "error")
     ELSE Local(p, [r EXCEPT !.pc = "build", !.todo = Sealed(r.seal),
                             !.ok = @ /\ CommitKept(r) /\ NoGap(r)])
  /\ UNCHANGED <<work, repo, wasm, edits, starts>>

\* A sealed artifact the manifest no longer declares is an ERROR check.
VerifyOrphan(p) ==
  LET r == proc[p] IN
  /\ At(p, "verify", "build")
  /\ \E a \in r.todo \ Declared(r.man) :
       Local(p, [r EXCEPT !.todo = @ \ {a}, !.ok = FALSE])
  /\ UNCHANGED <<work, repo, wasm, edits, starts>>

\* The command check, the rebuild and the check that the wasm file exists.
VerifyBuild(p) ==
  LET r == proc[p] IN
  /\ At(p, "verify", "build")
  /\ \E a \in r.todo \cap Declared(r.man) : \E o \in Outcomes(a, r.man.cmd[a]) :
       LET same == r.ok /\ r.man.cmd[a] = r.seal.art[a].cmd
       IN  /\ wasm' = Output(a, o) /\ UNCHANGED work
           /\ Write(p, IF o = Fails \/ wasm'[a] = NoWasm
                         THEN [r EXCEPT !.todo = @ \ {a}, !.ok = FALSE]
                         ELSE [r EXCEPT !.pc = "wasm", !.at = a,
                                        !.todo = @ \ {a}, !.ok = same])
  /\ UNCHANGED <<repo, edits, starts>>

\* The rebuilt wasm against the sealed digest.
VerifyWasm(p) ==
  LET r == proc[p] IN
  /\ At(p, "verify", "wasm")
  /\ IF wasm[r.at] = NoWasm
     THEN Exit(p, "error")
     ELSE Local(p, [r EXCEPT !.pc = "source",
                             !.ok = @ /\ wasm[r.at] = r.seal.art[r.at].wasm])
  /\ UNCHANGED <<work, repo, wasm, edits, starts>>

\* The source tree against the sealed digest.
VerifySource(p) ==
  LET r == proc[p] IN
  /\ At(p, "verify", "source")
  /\ IF work.src[r.at] = NoDir
     THEN Exit(p, "error")
     ELSE Local(p, [r EXCEPT !.pc = "build", !.at = NoArt,
                             !.ok = @ /\ TreeDigest(work.src, work.man, r.at)
                                           = r.seal.art[r.at].src])
  /\ UNCHANGED <<work, repo, wasm, edits, starts>>

AtReport(p) == At(p, "verify", "build") /\ proc[p].todo = {}

VerifyReport(p) ==
  /\ AtReport(p)
  /\ Exit(p, IF proc[p].ok THEN "pass" ELSE "fail")
  /\ UNCHANGED <<work, repo, wasm, edits, starts>>
-----------------------------------------------------------------------------
(***************************************************************************)
(* analyze --seal, and the save it shares with record                      *)
(***************************************************************************)

\* Scan one declared artifact and push its digest onto the loaded record.
AnalyzeArtifact(p) ==
  LET r == proc[p] IN
  /\ At(p, "analyze", "scan")
  /\ \E a \in r.todo :
       IF work.src[a] = NoDir
       THEN Exit(p, "error")
       ELSE Local(p, [r EXCEPT !.todo = @ \ {a},
                               !.seal.analysis =
                                 Push(@, [id |-> a, digest |-> AuditOf[Scan(work.src, a)]])])
  /\ UNCHANGED <<work, repo, wasm, edits, starts>>

AtSave(p) == (At(p, "record", "build") \/ At(p, "analyze", "scan")) /\ proc[p].todo = {}

\* Provenance::save is std::fs::write: the file is truncated, then written.
SaveTruncate(p) ==
  /\ AtSave(p)
  /\ work' = [work EXCEPT !.prov = Corrupt] /\ UNCHANGED wasm
  /\ Write(p, [proc[p] EXCEPT !.pc = "write"])
  /\ UNCHANGED <<repo, edits, starts>>

\* How a run that has saved exits: analyze reports its findings all the same.
Codes(cli) == IF cli = "analyze" THEN {"pass", "fail", "error"} ELSE {"pass"}

\* If another write landed after the truncation, the shorter of the two leaves
\* the tail of the longer behind.
SaveWrite(p) ==
  /\ proc[p].pc = "write"
  /\ \E v \in {proc[p].seal} \cup IF work.prov = Corrupt THEN {} ELSE {Corrupt} :
       work' = [work EXCEPT !.prov = v] /\ UNCHANGED wasm
  /\ \E x \in Codes(proc[p].cli) : Write(p, Stopped(proc[p].man, x))
  /\ UNCHANGED <<repo, edits, starts>>

\* The process is killed between two of its steps.
Crash(p) ==
  /\ proc[p].pc # "idle"
  /\ Exit(p, "killed")
  /\ UNCHANGED <<work, repo, wasm, edits, starts>>
-----------------------------------------------------------------------------
(***************************************************************************)
(* The developer                                                           *)
(***************************************************************************)
Edit ==
  /\ edits < MaxEdits
  /\ edits' = edits + 1
  /\ proc' = [q \in Procs |-> [proc[q] EXCEPT !.calm = FALSE]]
  /\ UNCHANGED starts

EditSource ==
  /\ Edit
  /\ \E a \in Artifacts, s \in Sources :
       /\ s # work.src[a]
       /\ a \in AtRoot => s # NoDir
       /\ work' = [work EXCEPT !.src[a] = s]
  /\ UNCHANGED <<repo, wasm>>

EditManifest ==
  /\ Edit
  /\ \E m \in Manifests : m # work.man /\ work' = [work EXCEPT !.man = m]
  /\ UNCHANGED <<repo, wasm>>

\* A seal with one wasm or analysis digest replaced.
Tampered(s) ==
  {[s EXCEPT !.art[a].wasm = w] : a \in Sealed(s), w \in Wasms}
    \cup {[s EXCEPT !.analysis[i].digest = d] : i \in 1..Len(s.analysis), d \in Audits}

\* The provenance file is removed, damaged or tampered with.
EditSeal ==
  /\ Edit
  /\ \E v \in {Missing, Corrupt} \cup
              IF work.prov \in {Missing, Corrupt} THEN {} ELSE Tampered(work.prov) :
       v # work.prov /\ work' = [work EXCEPT !.prov = v]
  /\ UNCHANGED <<repo, wasm>>

\* rm -rf target
Wipe ==
  /\ Edit
  /\ wasm' = [a \in Artifacts |-> NoWasm]
  /\ UNCHANGED <<work, repo>>

GitInit ==
  /\ Edit /\ ~marker
  /\ marker' = TRUE /\ index' = work
  /\ UNCHANGED <<work, commits, head, wasm>>

\* rm -rf .git: the commit objects are out of reach for good.
GitRemove ==
  /\ Edit /\ marker
  /\ marker' = FALSE /\ head' = 0
  /\ UNCHANGED <<work, index, commits, wasm>>

\* git add -A
Stage ==
  /\ Edit /\ marker /\ index # work
  /\ index' = work
  /\ UNCHANGED <<work, commits, head, marker, wasm>>

Ancestors == IF head = 0 THEN {} ELSE commits[head].anc
HeadTrees == IF head = 0 THEN {} ELSE {commits[head].tree}

\* git commit: the index becomes the tree of a new commit, and HEAD moves.
Commit ==
  /\ Edit /\ marker /\ Len(commits) < MaxCommits
  /\ index \notin HeadTrees
  /\ LET new == Len(commits) + 1
     IN  /\ commits' = Append(commits, [tree |-> index, anc |-> Ancestors \cup {new}])
         /\ head' = new
  /\ UNCHANGED <<work, index, marker, wasm>>

\* git reset --hard c: an untracked provenance file is left where it is.
Reset ==
  /\ Edit /\ head # 0
  /\ \E c \in Ancestors :
       LET t == commits[c].tree
           keep == index.prov = Missing /\ t.prov = Missing
       IN  /\ work' = [t EXCEPT !.prov = IF keep THEN work.prov ELSE @]
           /\ index' = t
           /\ head' = c
  /\ UNCHANGED <<commits, marker, wasm>>

Developer ==
  \/ EditSource \/ EditManifest \/ EditSeal \/ Wipe
  \/ GitInit \/ GitRemove \/ Stage \/ Commit \/ Reset

Begin(p) == RecordStart(p) \/ VerifyStart(p) \/ AnalyzeStart(p)

Advance(p) ==
  \/ RecordRevParse(p) \/ RecordStatus(p) \/ RecordBuild(p)
  \/ RecordWasm(p) \/ RecordSource(p)
  \/ LoadSeal(p) \/ VerifyGit(p) \/ VerifyOrphan(p) \/ VerifyBuild(p)
  \/ VerifyWasm(p) \/ VerifySource(p) \/ VerifyReport(p)
  \/ AnalyzeArtifact(p) \/ SaveTruncate(p) \/ SaveWrite(p)

Next == Developer \/ \E p \in Procs : Begin(p) \/ Advance(p) \/ Crash(p)

Spec == Init /\ [][Next]_vars

\* A process that is scheduled keeps going; builds are assumed to terminate.
\* Nothing obliges the developer to act or a process to be killed.
FairSpec == Spec /\ \A p \in Procs : WF_vars(Advance(p))
-----------------------------------------------------------------------------
(***************************************************************************)
(* Properties                                                              *)
(***************************************************************************)

\* Every seal that is on disk, staged or committed.
SealsIn(t) == {t.prov} \ {Missing, Corrupt}
StoredSeals ==
  SealsIn(work) \cup SealsIn(index)
    \cup UNION {SealsIn(commits[k].tree) : k \in 1..Len(commits)}

\* What a passing verify claims of the project as it stands.
Conforms(s) ==
  /\ s.project = work.man.name
  /\ s.git.present => head # 0 /\ s.git.commit \in commits[head].anc
  /\ Sealed(s) = Declared(work.man)
  /\ \A a \in Sealed(s) :
       /\ s.art[a].cmd = work.man.cmd[a]
       /\ s.art[a].src = TreeDigest(work.src, work.man, a)
       /\ s.art[a].wasm = wasm[a]

\* Command c makes wasm w of the present source of a, or leaves target/ alone.
MadeBy(w, a, c) == w \in Outcomes(a, c) \/ NoOutput \in Outcomes(a, c)

\* A verify nobody disturbed that is about to pass speaks the truth: name,
\* history, artifact set, command, source and wasm all agree with the seal,
\* and each sealed wasm is what the sealed command makes of the sealed source,
\* unless that command can leave the output alone (runner.rs:140-324).
VerifySound ==
  \A p \in Procs :
    AtReport(p) /\ proc[p].ok /\ proc[p].calm =>
      /\ Conforms(proc[p].seal)
      /\ \A a \in Sealed(proc[p].seal) : MadeBy(proc[p].seal.art[a].wasm, a, work.man.cmd[a])

\* `record` then `verify` exits 0 (PRD criterion 1): an undisturbed verify of a
\* project that conforms to its seal, whose builds can only reproduce the
\* sealed wasm, does not fail.
VerifyComplete ==
  \A p \in Procs :
    LET s == proc[p].seal IN
    (/\ AtReport(p) /\ proc[p].calm
     /\ Conforms(s)
     /\ \A a \in Sealed(s) : Outcomes(a, work.man.cmd[a]) = {s.art[a].wasm})
    => proc[p].ok

\* "A record is only meaningful if it describes the exact committed source"
\* (runner.rs:71-72): the sources, commands and name in seal s are those of
\* the sealed commit.
DescribesCommit(s) ==
  /\ s.git.commit \in 1..Len(commits)
  /\ LET t == commits[s.git.commit].tree
     IN  /\ s.project = t.man.name
         /\ Sealed(s) = Declared(t.man)
         /\ \A a \in Sealed(s) : /\ s.art[a].cmd = t.man.cmd[a]
                                  /\ s.art[a].src = TreeDigest(t.src, t.man, a)

ReadyToSeal(p) == At(p, "record", "build") /\ AtSave(p)

\* A record that ran undisturbed and found a clean tree is about to save a
\* seal that describes the committed source, with wasm its commands produce.
RecordSound ==
  \A p \in Procs :
    LET s == proc[p].seal IN
    ReadyToSeal(p) /\ proc[p].calm /\ s.git.clean =>
      /\ DescribesCommit(s)
      /\ \A a \in Sealed(s) : MadeBy(s.art[a].wasm, a, s.art[a].cmd)

\* The refusal of runner.rs:75-80 holds for every seal that reaches a disk, a
\* staging area or a commit, by whatever route: without --allow-dirty no seal
\* of a git project says its tree was dirty.
NoDirtySeal ==
  TRUE \notin AllowDirty =>
    \A s \in StoredSeals : s.git.present => s.git.clean

SameRecord(s, t) == s.project = t.project /\ s.git = t.git /\ s.art = t.art

\* analyze --seal only appends (main.rs:706-722): when it runs undisturbed, the
\* record it is about to write back is the one on disk, with the earlier
\* analysis entries first.
AnalyzeAppends ==
  \A p \in Procs :
    At(p, "analyze", "scan") /\ proc[p].calm =>
      /\ work.prov \in Seals
      /\ SameRecord(proc[p].seal, work.prov)
      /\ Len(work.prov.analysis) <= Len(proc[p].seal.analysis)
      /\ SubSeq(proc[p].seal.analysis, 1, Len(work.prov.analysis)) = work.prov.analysis

\* Only a save, the developer or git changes the provenance file, and a file
\* that loads comes from a process that ran to its last step: whatever is
\* killed or refused leaves the previous seal or a file that does not load.
NoPartialSeal ==
  [][\A s \in SealsIn(work)' \ SealsIn(work) :
       \/ edits' # edits
       \/ \E p \in Procs : /\ proc[p].pc = "write" /\ proc[p].seal = s
                           /\ proc[p].todo = {} /\ proc'[p].exit \in Codes(proc[p].cli)]_vars

\* Every subcommand ends: its artifacts are finitely many and each is done once.
RunsEnd == \A p \in Procs : proc[p].pc # "idle" ~> proc[p].pc = "idle"

-----------------------------------------------------------------------------
(***************************************************************************)
(* Statements of the documentation the code does not keep                  *)
(***************************************************************************)

\* "a sealed record must describe the exact committed source" (the message at
\* runner.rs:78), with no assumption that nothing else touches the tree.
CleanSealDescribesCommit ==
  \A p \in Procs :
    ReadyToSeal(p) /\ proc[p].seal.git.clean => DescribesCommit(proc[p].seal)

\* "`verify` then cross-checks that the analysis digest is stable and that the
\* source under the seal is unchanged" (ARCHITECTURE.md:154-155).
VerifyChecksAnalysis ==
  \A p \in Procs :
    AtReport(p) /\ proc[p].ok /\ proc[p].calm =>
      \A i \in 1..Len(proc[p].seal.analysis) :
        LET e == proc[p].seal.analysis[i] IN e.digest = AuditOf[Scan(work.src, e.id)]

\* "Any source change, corrupted provenance, or moved-away git history fails
\* `verify` with exit 1" (PRD.md:114-115), of a provenance that does not load.
CorruptSealExitsOne ==
  [][\A p \in Procs :
       At(p, "verify", "load") /\ work.prov = Corrupt /\ LoadSeal(p)
         => proc'[p].exit = "fail"]_vars
=============================================================================
