----------------------------- MODULE CommitGate ------------------------------
(***************************************************************************)
(* `sorseal hook` and the commits made under it: the seal workflow of Seal *)
(* with a pre-commit hook in the repository (src/src/hook.rs).             *)
(*                                                                         *)
(* A `git commit` runs the hook, the hook runs `sorseal verify` (a process *)
(* of Seal, step by step) and then `sorseal analyze --fail-on High`, and   *)
(* git commits what is staged by then if both exit 0.  Other subcommands   *)
(* and the developer go on meanwhile.                                      *)
(***************************************************************************)
EXTENDS Seal

CONSTANTS
  Gate,        \* the process the hook runs verify in
  Grave,       \* the scanned sources with a Critical or High finding
  MaxInstalls  \* bound on runs of hook install and hook uninstall

ASSUME GateAssumption ==
  /\ Gate \in Procs /\ "verify" \in Cli
  /\ Grave \subseteq Scans /\ MaxInstalls \in Nat
  /\ MaxCommits > 0   \* the history starts from one commit

VARIABLES
  hook,     \* .git/hooks/pre-commit
  setup,    \* the next step of a running hook install
  gate,     \* the `git commit` under way
  installs  \* runs of hook install and uninstall so far

gvars == <<vars, hook, setup, gate, installs>>

\* No hook; a file that is still empty; sorseal's hook before it is executable,
\* which git does not run; sorseal's hook; a hook of somebody else.
Hooks == {"none", "torn", "plain", "ours", "other"}

\* The commit under way: its step, the commit it will go on top of, and whether
\* nothing but the hook's own verify has touched the shared files since it
\* started (history).
Commits == [pc : {"idle", "verify", "analyze", "commit"}, onto : 0..MaxCommits, calm : BOOLEAN]

GateTypeOK ==
  /\ TypeOK
  /\ hook \in Hooks
  /\ setup \in {"idle", "create", "write", "chmod"}
  /\ gate \in Commits
  /\ gate.pc # "verify" => proc[Gate].pc = "idle"
  /\ installs \in 0..MaxInstalls

NoCommit == [pc |-> "idle", onto |-> 0, calm |-> FALSE]

\* From the first commit on, which has no provenance file.
GateInit ==
  /\ work \in [src : [Artifacts -> Sources \ {NoDir}], man : Manifests, prov : {Missing}]
  /\ Declared(work.man) # {}
  /\ index = work
  /\ commits = <<[tree |-> work, anc |-> {1}]>> /\ head = 1 /\ marker = TRUE
  /\ wasm = [a \in Artifacts |-> NoWasm]
  /\ proc = [p \in Procs |-> Stopped(work.man, "none")]
  /\ edits = 0 /\ starts = 0
  /\ hook = "none" /\ setup = "idle" /\ gate = NoCommit /\ installs = 0
-----------------------------------------------------------------------------
(***************************************************************************)
(* sorseal hook                                                            *)
(***************************************************************************)

\* is_installed looks for the mark in the file and at nothing else.
Installed == hook \in {"plain", "ours"}

\* install refuses without a repository and over any file that is there.
InstallStart ==
  /\ setup = "idle" /\ installs < MaxInstalls
  /\ marker /\ ~Installed /\ hook = "none"
  /\ setup' = "create" /\ installs' = installs + 1
  /\ UNCHANGED <<vars, hook, gate>>

\* It then creates the file, fills it and makes it executable.
InstallStep ==
  /\ setup # "idle" /\ marker
  /\ \/ setup = "create" /\ setup' = "write" /\ hook' = "torn"
     \/ setup = "write" /\ setup' = "chmod" /\ hook' = "plain"
     \/ setup = "chmod" /\ setup' = "idle" /\ hook' = IF Installed THEN "ours" ELSE hook
  /\ UNCHANGED <<vars, gate, installs>>

\* The command is killed, or the repository has gone.
InstallStops ==
  /\ setup # "idle" /\ setup' = "idle"
  /\ UNCHANGED <<vars, hook, gate, installs>>

Uninstall ==
  /\ setup = "idle" /\ installs < MaxInstalls /\ marker /\ Installed
  /\ hook' = "none" /\ installs' = installs + 1
  /\ UNCHANGED <<vars, setup, gate>>
\* hook status prints one of two texts and looks for the word in what it printed.
Reported == IF Installed THEN "installed" ELSE "not installed"
Mentions == {"installed", "not installed"}  \* the texts that contain "installed"
StatusExit == IF Reported \in Mentions THEN 0 ELSE 1
-----------------------------------------------------------------------------
(***************************************************************************)
(* git commit                                                              *)
(***************************************************************************)

\* What the hook does before it lets a commit through: without a provenance
\* file it checks nothing.
Checked == work.prov # Missing

\* git runs the hook if it is executable; verify runs on the working tree.
CommitStart ==
  /\ gate.pc = "idle" /\ marker /\ hook = "ours" /\ Len(commits) < MaxCommits
  /\ \/ /\ Checked /\ VerifyStart(Gate)
        /\ gate' = [pc |-> "verify", onto |-> head, calm |-> TRUE]
     \/ /\ ~Checked /\ gate' = [pc |-> "commit", onto |-> head, calm |-> FALSE]
        /\ UNCHANGED vars
  /\ UNCHANGED <<hook, setup, installs>>

\* A fault: only the errors of the tool stop the commit.
AdmitsFault(x) == x \in {"pass", "fail"}

\* `if ! sorseal verify` lets exit code 0 through and nothing else.
Admits(x) == x = "pass"

\* A fault: a failed verification is not noticed.
HookVerifiedFault ==
  /\ gate.pc = "verify" /\ proc[Gate].pc = "idle" /\ proc[Gate].exit = "pass"
  /\ gate' = [gate EXCEPT !.pc = "analyze"]
  /\ UNCHANGED <<vars, hook, setup, installs>>

\* A fault: the hook does not wait for verify to end.
HookHastyFault ==
  /\ gate.pc = "verify"
  /\ gate' = IF Admits(proc[Gate].exit) THEN [gate EXCEPT !.pc = "analyze"] ELSE NoCommit
  /\ UNCHANGED <<vars, hook, setup, installs>>

\* The hook goes on when verify exits 0 and refuses the commit otherwise.
HookVerified ==
  /\ gate.pc = "verify" /\ proc[Gate].pc = "idle"
  /\ gate' = IF Admits(proc[Gate].exit) THEN [gate EXCEPT !.pc = "analyze"] ELSE NoCommit
  /\ UNCHANGED <<vars, hook, setup, installs>>

\* The sources analyze passes at --fail-on High: every declared artifact has
\* its source_root and none a grave finding.
Acceptable(src, man) ==
  \A a \in Declared(man) : src[a] # NoDir /\ Scan(src, a) \notin Grave

HookAnalyzed ==
  /\ gate.pc = "analyze"
  /\ gate' = IF Acceptable(work.src, work.man) /\ Declared(work.man) # {}
             THEN [gate EXCEPT !.pc = "commit"] ELSE NoCommit
  /\ UNCHANGED <<vars, hook, setup, installs>>

\* git makes a commit of what is staged, unless HEAD has moved meanwhile or
\* nothing is staged.
Committed ==
  /\ gate.pc = "commit" /\ gate' = NoCommit
  /\ IF marker /\ head = gate.onto /\ index \notin HeadTrees /\ Len(commits) < MaxCommits
     THEN /\ commits' = Append(commits, [tree |-> index, anc |-> Ancestors \cup {Len(commits) + 1}])
          /\ head' = Len(commits) + 1
          /\ proc' = [q \in Procs |-> [proc[q] EXCEPT !.calm = FALSE]]
     ELSE UNCHANGED <<commits, head, proc>>
  /\ UNCHANGED <<work, index, marker, wasm, edits, starts, hook, setup, installs>>

\* A commit sorseal's hook does not see: git does not run it, or the developer
\* sets SORSEAL_SKIP_HOOK or says --no-verify.
PlainCommit == gate.pc = "idle" /\ Commit /\ UNCHANGED <<hook, setup, gate, installs>>
-----------------------------------------------------------------------------
\* The developer installs a hook of another make.
OtherHook ==
  /\ Edit /\ marker /\ hook' = "other"
  /\ UNCHANGED <<work, repo, wasm>>

Disturb == gate' = [gate EXCEPT !.calm = FALSE]

\* The developer's other steps.  A new .git has no hook.
Develop ==
  /\ \/ /\ EditSource \/ EditManifest \/ EditSeal \/ Wipe \/ Stage \/ Reset
        /\ UNCHANGED hook
     \/ (GitInit \/ GitRemove) /\ hook' = "none"
     \/ OtherHook
  /\ Disturb /\ UNCHANGED <<setup, installs>>

\* Subcommands, the hook's verify among them.
Run(p) ==
  /\ Advance(p) \/ Crash(p) \/ (p # Gate /\ Begin(p))
  /\ gate' = [gate EXCEPT !.calm = @ /\ (p = Gate \/ <<work, wasm>>' = <<work, wasm>>)]
  /\ UNCHANGED <<hook, setup, installs>>

GateSteps == HookVerified \/ HookAnalyzed \/ Committed

GateNext ==
  \/ InstallStart \/ InstallStep \/ InstallStops \/ Uninstall
  \/ CommitStart \/ GateSteps \/ PlainCommit \/ Develop
  \/ \E p \in Procs : Run(p)

GateSpec == GateInit /\ [][GateNext]_gvars

\* A commit under way goes on, and so does every started subcommand.
FairGateSpec ==
  GateSpec /\ WF_gvars(GateSteps)
    /\ \A p \in Procs : WF_gvars(Advance(p) /\ Run(p))
-----------------------------------------------------------------------------
(***************************************************************************)
(* Properties                                                              *)
(***************************************************************************)

\* The seal in tree t describes t and an ancestor of commit c.
TreeConforms(t, c) ==
  /\ t.prov \in Seals
  /\ t.prov.project = t.man.name
  /\ t.prov.git.present => t.prov.git.commit \in commits[c].anc
  /\ Sealed(t.prov) = Declared(t.man)
  /\ \A a \in Declared(t.man) : /\ t.prov.art[a].cmd = t.man.cmd[a]
                                /\ t.prov.art[a].src = TreeDigest(t.src, t.man, a)

\* Provenance and vulnerability drift is caught before the commit (hook.rs:4-6):
\* when the hook has let a commit through and nothing disturbed it, the working
\* tree carries a seal that describes it and sources without grave findings, so
\* a commit of all of it does too.
GateSound ==
  gate.pc = "commit" /\ gate.calm =>
    TreeConforms(work, head) /\ Acceptable(work.src, work.man)

\* Every subcommand ends, and a commit under the hook is made or refused: the
\* hook does not hang.
GateEnds == RunsEnd /\ (gate.pc # "idle" ~> gate.pc = "idle")
-----------------------------------------------------------------------------
(***************************************************************************)
(* Statements of the documentation the code does not keep                  *)
(***************************************************************************)

\* "so provenance and vulnerability drift is caught at the moment a developer
\* tries to commit" (hook.rs:4-6), of what is committed: the seal in an
\* undisturbed commit the hook has checked describes the sources beside it.
GateCatches ==
  [][gate.calm /\ Len(commits') > Len(commits) /\ Committed =>
       (index.prov \in Seals => TreeConforms(index, head))]_gvars

\* "Show whether the hook is installed" (main.rs:240): the exit code of hook
\* status is 0 when it is and 1 when it is not.
StatusTells == StatusExit = 0 <=> Installed

\* "Whether a sorseal pre-commit hook is currently installed" (hook.rs:62): once
\* no install is running, a hook taken for installed is one that git runs.
InstalledMeansRun == setup = "idle" /\ Installed => hook = "ours"

\* "provenance verification failed — re-run `sorseal record` if the build
\* changed" (hook.rs:33): a record started after the hook's verify has failed
\* is not refused.
RerecordHelps ==
  \A p \in Procs :
    At(p, "record", "status") /\ proc[p].calm /\ proc[Gate].exit = "fail" => MaySeal(proc[p])
=============================================================================
