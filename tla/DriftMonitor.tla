---------------------------- MODULE DriftMonitor ----------------------------
(***************************************************************************)
(* What file-integrity monitoring promises, whatever process does it: a    *)
(* path is pinned to the content it had when it was first seen, an alarm   *)
(* is raised only of a path that is missing or differs from its pin, and a *)
(* pin is never replaced by another content.  Pins may be lost.            *)
(***************************************************************************)
CONSTANTS
  Paths,       \* the files that may be watched
  Contents,    \* their contents
  Absent,      \* there is no such file
  Unreadable,  \* there is something that cannot be read as a file
  Unknown      \* no pin

VARIABLES
  file,   \* what is at each path
  base,   \* the pin of each path
  alarm   \* the paths the check in progress has found failing

vars == <<file, base, alarm>>

FileStates == Contents \cup {Absent, Unreadable}
Bases == [Paths -> Contents \cup {Unknown}]

Init ==
  /\ file \in [Paths -> FileStates]
  /\ base = [f \in Paths |-> Unknown]
  /\ alarm = {}

Change == file' \in [Paths -> FileStates] /\ UNCHANGED <<base, alarm>>

Enrol(f) ==
  /\ base[f] = Unknown /\ file[f] \in Contents
  /\ base' = [base EXCEPT ![f] = file[f]]
  /\ UNCHANGED <<file, alarm>>

\* f is not what it was.
Fails(f) ==
  \/ file[f] = Absent
  \/ file[f] \in Contents /\ base[f] # Unknown /\ base[f] # file[f]

Raise(f) ==
  /\ Fails(f)
  /\ alarm' = alarm \cup {f}
  /\ UNCHANGED <<file, base>>

\* A check ends, and with it perhaps some of the pins.
Settle ==
  /\ \E keep \in SUBSET Paths :
       base' = [f \in Paths |-> IF f \in keep THEN base[f] ELSE Unknown]
  /\ alarm' = {}
  /\ UNCHANGED file

Next == Change \/ Settle \/ \E f \in Paths : Enrol(f) \/ Raise(f)

Spec == Init /\ [][Next]_vars

\* Drift is never absorbed: a pin goes only by being forgotten.
NeverAbsorbed ==
  [][\A f \in Paths : base[f] # Unknown => base'[f] \in {base[f], Unknown}]_vars
=============================================================================
