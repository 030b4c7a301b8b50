------------------------------- MODULE Watch --------------------------------
(***************************************************************************)
(* `sorseal watch`: the daemon and the --once check (src/src/watch.rs and  *)
(* its dispatch in src/src/main.rs), the state file they keep, and the     *)
(* webhooks they post to, while files, configuration and endpoints change. *)
(*                                                                         *)
(* The check of a path is two steps, the test that it exists and the hash; *)
(* the save is two, the truncation and the write.  A file stands for its   *)
(* digest.                                                                 *)
(***************************************************************************)
EXTENDS Naturals

CONSTANTS
  Paths,       \* the files that may be watched
  Contents,    \* their contents
  Absent,      \* there is no such file
  Unreadable,  \* there is something that cannot be opened and read
  Unknown,     \* no baseline
  Torn,        \* a state file that does not parse
  NoConfig,    \* no sorseal.watch.toml: a set that is not of paths
  Starter,     \* the paths of the configuration watch --init writes
  Hooks,       \* the configured webhooks
  Procs,       \* shells
  Modes,       \* the modes that are run
  MaxEdits,    \* bound on steps of the environment
  MaxStarts    \* bound on runs started

Bases == [Paths -> Contents \cup {Unknown}]
Empty == [f \in Paths |-> Unknown]
FileStates == Contents \cup {Absent, Unreadable}
Configs == (SUBSET Paths) \cup {NoConfig}

\* A failed check: what the path was and what it is now.
Alerts == [path : Paths, was : Contents \cup {Unknown}, now : Contents \cup {Absent}]

ASSUME ConstantsAssumption ==
  /\ Starter \subseteq Paths
  /\ Modes \subseteq {"daemon", "once", "init"}
  /\ MaxEdits \in Nat /\ MaxStarts \in Nat

ASSUME SentinelsAssumption ==
  /\ Absent \notin Contents /\ Unreadable \notin Contents /\ Unknown \notin Contents
  /\ Absent # Unreadable
  /\ Torn \notin Bases
  /\ NoConfig \notin SUBSET Paths

VARIABLES
  file,    \* what is at each watched path
  config,  \* the paths sorseal.watch.toml lists
  disk,    \* the state file; a missing one and one without baselines are the same
  up,      \* the webhook endpoints that answer
  inbox,   \* what each endpoint has received
  saved,   \* the last baselines that reached the state file whole (history)
  proc,    \* the shells
  edits,   \* steps of the environment so far
  starts   \* runs started so far

vars == <<file, config, disk, up, inbox, saved, proc, edits, starts>>
world == <<file, config, up, edits>>

Steps == {"idle", "look", "hash", "alert", "save", "write", "sleep"}
Exits == {"none", "pass", "fail", "error", "killed"}

\* A run: the configuration and baselines it holds in memory, the paths still
\* to check and the one in hand, what failed, the webhooks still to post to.
\* `calm` records that nothing else has touched the files, the configuration or
\* the state file since the run started; no step depends on it.
Runs == [mode : Modes \cup {"none"}, pc : Steps, paths : SUBSET Paths, base : Bases,
         todo : SUBSET Paths, at : Paths \cup {Unknown}, failed : SUBSET Alerts,
         hooks : SUBSET Hooks, exit : Exits, calm : BOOLEAN]

TypeOK ==
  /\ file \in [Paths -> FileStates]
  /\ config \in Configs
  /\ disk \in Bases \cup {Torn}
  /\ up \subseteq Hooks
  /\ inbox \subseteq (Hooks \X Alerts)
  /\ saved \in Bases
  /\ proc \in [Procs -> Runs]
  /\ \A p \in Procs : proc[p].pc = "hash" => proc[p].at \in Paths
  /\ edits \in 0..MaxEdits /\ starts \in 0..MaxStarts

Stopped(x) ==
  [mode |-> "none", pc |-> "idle", paths |-> {}, base |-> Empty, todo |-> {},
   at |-> Unknown, failed |-> {}, hooks |-> {}, exit |-> x, calm |-> FALSE]

Running(p) == proc[p].pc # "idle"

\* A step of p that leaves the shared files alone, and one that writes them.
Local(p, r) == proc' = [proc EXCEPT ![p] = r]
Write(p, r) ==
  proc' = [q \in Procs |-> IF q = p THEN r ELSE [proc[q] EXCEPT !.calm = FALSE]]

\* Definitions whose names end in Fault are the definition after them with a
\* plausible bug in it; the model never uses them.
LoadedFault(d) == d

\* load_state: a state file that does not parse counts as no state.
Loaded(d) == IF d = Torn THEN Empty ELSE d

Init ==
  /\ file \in [Paths -> Contents \cup {Absent}]
  /\ config \in {NoConfig, Starter}
  /\ disk = Empty /\ saved = Empty
  /\ up = Hooks /\ inbox = {}
  /\ proc = [p \in Procs |-> Stopped("none")]
  /\ edits = 0 /\ starts = 0

Start(p) == ~Running(p) /\ starts < MaxStarts /\ starts' = starts + 1

\* watch --init writes the starter configuration over whatever is there.
WriteStarter(p) ==
  /\ Start(p) /\ "init" \in Modes
  /\ config' = Starter
  /\ Write(p, Stopped("pass"))
  /\ UNCHANGED <<file, disk, up, inbox, saved, edits>>

\* watch and watch --once read the configuration, then the state file.
Load(p) ==
  /\ Start(p)
  /\ \E m \in Modes \cap {"daemon", "once"} :
       IF config = NoConfig
       THEN Local(p, Stopped("error"))
       ELSE Local(p, [Stopped("none") EXCEPT
                        !.mode = m, !.pc = "look", !.paths = config, !.todo = config,
                        !.base = Loaded(disk), !.calm = TRUE])
  /\ UNCHANGED <<world, disk, inbox, saved>>

\* check_once, first half of one path: a missing file fails the check.
Look(p) ==
  LET r == proc[p] IN
  /\ r.pc = "look"
  /\ \E f \in r.todo :
       Local(p, IF file[f] = Absent
                THEN [r EXCEPT !.todo = @ \ {f},
                               !.failed = @ \cup {[path |-> f, was |-> Unknown, now |-> Absent]}]
                ELSE [r EXCEPT !.todo = @ \ {f}, !.at = f, !.pc = "hash"])
  /\ UNCHANGED <<world, disk, inbox, saved, starts>>

\* What a run knows after it has hashed a path with content c.
PinnedFault(r, c) == [r.base EXCEPT ![r.at] = c]
Pinned(r, c) == IF r.base[r.at] = Unknown THEN [r.base EXCEPT ![r.at] = c] ELSE r.base

\* The failures of a run after that: drift from a known baseline is one more.
Failed(r, c) ==
  IF r.base[r.at] \in {Unknown, c} THEN r.failed
  ELSE r.failed \cup {[path |-> r.at, was |-> r.base[r.at], now |-> c]}

\* check_once, second half: a path that has gone or cannot be read by now ends
\* the run; a first hash becomes the baseline.
HashPath(p) ==
  LET r == proc[p]
      c == file[r.at]
  IN
  /\ r.pc = "hash"
  /\ Local(p, IF c \notin Contents
              THEN Stopped("error")
              ELSE [r EXCEPT !.pc = "look", !.at = Unknown,
                             !.base = Pinned(r, c), !.failed = Failed(r, c)])
  /\ UNCHANGED <<world, disk, inbox, saved, starts>>

\* The round is complete; failures go to the webhooks.
Report(p) ==
  LET r == proc[p] IN
  /\ r.pc = "look" /\ r.todo = {}
  /\ Local(p, IF r.failed = {} THEN [r EXCEPT !.pc = "save"]
              ELSE [r EXCEPT !.pc = "alert", !.hooks = Hooks])
  /\ UNCHANGED <<world, disk, inbox, saved, starts>>

\* send_alerts posts to one webhook after the other and gives up on none of
\* them because another failed.
RemainingFault(r, h) == IF h \in up THEN r.hooks \ {h} ELSE {}
Remaining(r, h) == r.hooks \ {h}

Post(p) ==
  LET r == proc[p] IN
  /\ r.pc = "alert"
  /\ \/ \E h \in r.hooks :
          /\ inbox' = inbox \cup (({h} \cap up) \X r.failed)
          /\ Local(p, [r EXCEPT !.hooks = Remaining(r, h)])
     \/ /\ r.hooks = {}
        /\ Local(p, [r EXCEPT !.pc = "save"])
        /\ UNCHANGED inbox
  /\ UNCHANGED <<world, disk, saved, starts>>

\* watch --once --sarif: a report that cannot be written ends the run before
\* the state is saved.
SarifFails(p) ==
  /\ proc[p].pc = "save" /\ proc[p].mode = "once"
  /\ Local(p, Stopped("error"))
  /\ UNCHANGED <<world, disk, inbox, saved, starts>>

\* save_state is std::fs::write: the file is truncated, then written.
Truncate(p) ==
  /\ proc[p].pc = "save"
  /\ disk' = Torn
  /\ Write(p, [proc[p] EXCEPT !.pc = "write"])
  /\ UNCHANGED <<world, inbox, saved, starts>>

VerdictFault(r) == "pass"
Verdict(r) == IF r.failed = {} THEN "pass" ELSE "fail"

\* A write that lands on top of another one may leave a mixture behind.
WriteState(p) ==
  LET r == proc[p] IN
  /\ r.pc = "write"
  /\ \E v \in {r.base} \cup IF disk = Torn THEN {} ELSE {Torn} :
       /\ disk' = v
       /\ saved' = IF v = Torn THEN saved ELSE v
  /\ Write(p, IF r.mode = "once" THEN Stopped(Verdict(r)) ELSE [r EXCEPT !.pc = "sleep"])
  /\ UNCHANGED <<world, inbox, starts>>

\* The daemon goes round again, on the configuration and the baselines it has.
Wake(p) ==
  LET r == proc[p] IN
  /\ r.pc = "sleep"
  /\ Local(p, [r EXCEPT !.pc = "look", !.todo = r.paths, !.failed = {}])
  /\ UNCHANGED <<world, disk, inbox, saved, starts>>

\* The process is killed between two of its steps.
Crash(p) ==
  /\ Running(p)
  /\ Local(p, Stopped("killed"))
  /\ UNCHANGED <<world, disk, inbox, saved, starts>>
-----------------------------------------------------------------------------
(***************************************************************************)
(* The environment                                                         *)
(***************************************************************************)
Edit ==
  /\ edits < MaxEdits
  /\ edits' = edits + 1
  /\ proc' = [q \in Procs |-> [proc[q] EXCEPT !.calm = FALSE]]
  /\ UNCHANGED <<inbox, starts>>

EditFile ==
  /\ Edit
  /\ \E f \in Paths, c \in FileStates : c # file[f] /\ file' = [file EXCEPT ![f] = c]
  /\ UNCHANGED <<config, disk, up, saved>>

EditConfig ==
  /\ Edit
  /\ \E c \in Configs : c # config /\ config' = c
  /\ UNCHANGED <<file, disk, up, saved>>

\* The state file is removed, to accept the files as they are.
Rebase ==
  /\ Edit
  /\ disk' = Empty /\ saved' = Empty
  /\ UNCHANGED <<file, config, up>>

\* An endpoint goes down or comes back.
Toggle ==
  /\ Edit
  /\ \E h \in Hooks : up' = IF h \in up THEN up \ {h} ELSE up \cup {h}
  /\ UNCHANGED <<file, config, disk, saved>>

Environment == EditFile \/ EditConfig \/ Rebase \/ Toggle

Advance(p) ==
  \/ Look(p) \/ HashPath(p) \/ Report(p) \/ Post(p)
  \/ SarifFails(p) \/ Truncate(p) \/ WriteState(p) \/ Wake(p)

Next ==
  \/ Environment
  \/ \E p \in Procs : WriteStarter(p) \/ Load(p) \/ Advance(p) \/ Crash(p)

Spec == Init /\ [][Next]_vars

\* A run that is scheduled keeps going: each post is capped at 15 seconds and
\* the sleep at interval_secs.  Nothing obliges the environment to act.
FairSpec == Spec /\ \A p \in Procs : WF_vars(Advance(p))
-----------------------------------------------------------------------------
(***************************************************************************)
(* Properties                                                              *)
(***************************************************************************)

\* What the one shell that is running knows, or else the state file.
Known ==
  IF \E p \in Procs : Running(p)
  THEN proc[CHOOSE p \in Procs : Running(p)].base ELSE Loaded(disk)
Failing ==
  IF \E p \in Procs : Running(p)
  THEN {a.path : a \in proc[CHOOSE p \in Procs : Running(p)].failed} ELSE {}

Monitor == INSTANCE DriftMonitor WITH base <- Known, alarm <- Failing

\* With one shell at a time, watch is a drift monitor: through rounds, kills,
\* torn state files and restarts it pins each path to the first content it
\* hashed, never swaps a pin for another content and raises no false alarm.
Monitored == Monitor!Spec

\* A --once run that nothing disturbed and that passes has pinned exactly what
\* it saw: the state file it leaves holds the present content of every path.
PassPins ==
  [][\A p \in Procs :
       proc[p].pc = "write" /\ proc[p].calm /\ proc[p].mode = "once" /\ proc'[p].exit = "pass"
         => \A f \in proc[p].paths : disk'[f] = file[f]]_vars

\* The daemon holds content b for f, which now has content c; h answers.
Drifting(p, f, b, c, h) ==
  /\ proc[p].mode = "daemon" /\ f \in proc[p].paths
  /\ proc[p].base[f] = b /\ file[f] = c /\ h \in up

\* Drift reaches every endpoint that answers, however the others fare: while the
\* daemon runs and the drift and the endpoint last, the alert is delivered.
AlertDelivered ==
  \A p \in Procs, f \in Paths, b, c \in Contents, h \in Hooks :
    b # c =>
      (Drifting(p, f, b, c, h) ~>
         (\/ <<h, [path |-> f, was |-> b, now |-> c]>> \in inbox
          \/ ~Drifting(p, f, b, c, h)))
-----------------------------------------------------------------------------
(***************************************************************************)
(* Statements of the documentation the code does not keep                  *)
(***************************************************************************)

\* "Run the watch loop: check periodically until interrupted" (watch.rs:400).
UntilInterrupted ==
  [][\A p \in Procs :
       proc[p].mode = "daemon" /\ ~Running(p)' => proc'[p].exit = "killed"]_vars

\* "Compare against baselines stored in `sorseal.watchstate.json`"
\* (ARCHITECTURE.md:113): a hash that differs from the stored one is a failure.
ComparesWithStored ==
  [][\A p \in Procs :
       LET f == proc[p].at
       IN  HashPath(p) /\ disk # Torn /\ file[f] \in Contents /\ disk[f] \notin {Unknown, file[f]}
             => f \in {a.path : a \in proc'[p].failed}]_vars

\* "records baselines on first run, detects drift on subsequent runs, and exits
\* non-zero on any failure" (PRD.md:129-130).
OnceDetectsDrift ==
  [][\A p \in Procs :
       proc[p].pc = "write" /\ proc[p].calm /\ proc[p].mode = "once" /\ proc'[p].exit = "pass"
         => \A f \in proc[p].paths : saved[f] \in {Unknown, file[f]}]_vars
=============================================================================
