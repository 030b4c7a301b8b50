------------------------------ MODULE Lineage -------------------------------
(***************************************************************************)
(* What `sorseal onchain-audit` makes of the upgrade events it has         *)
(* collected and the wasm it found deployed: build_audit and               *)
(* collapse_noops of src/src/audit.rs, shared with simulate-onchain.       *)
(*                                                                         *)
(* An event is a record with fields ledger, old and new; a ledger stands   *)
(* for its close time, and 0 for a time that is not known.                 *)
(***************************************************************************)
EXTENDS SequencesExt

\* The members of a finite set of positions, in ascending order.
Ascending(s) ==
  [k \in 1..Cardinality(s) |-> CHOOSE i \in s : Cardinality({j \in s : j <= i}) = k]

\* One row of the report: a wasm, since when and until when, and whether it is
\* the deployed one.
Row(wasm, from, until, current) ==
  [wasm |-> wasm, from |-> from, until |-> until, current |-> current]

\* Definitions whose names end in Fault are the definition after them with a
\* plausible bug in it; the model never uses them.
ChainConsistentFault(events, cur) ==
  \A i \in 1..Len(events) - 1 : events[i].new = events[i + 1].old

\* Each event starts from the wasm the previous one ended in, and the last one
\* ends in the deployed wasm.
ChainConsistent(events, cur) ==
  /\ \A i \in 1..Len(events) - 1 : events[i].new = events[i + 1].old
  /\ events # <<>> => Last(events).new = cur

\* The rows before no-op upgrades are merged.  A deployed wasm that is not the
\* newest upgrade gets a row of its own.
Rows(events, cur) ==
  LET n == Len(events)
      until(i) == IF i = n THEN 0 ELSE events[i + 1].ledger
      upgraded == [i \in 1..n |-> Row(events[i].new, events[i].ledger, until(i),
                                      i = n /\ events[i].new = cur)]
      unseen == IF Last(events).new = cur THEN <<>> ELSE <<Row(cur, 0, 0, TRUE)>>
  IN  IF events = <<>>
      THEN <<Row(cur, 0, 0, TRUE)>>
      ELSE <<Row(events[1].old, 0, events[1].ledger, FALSE)>> \o upgraded \o unseen

\* A row that continues the wasm of the row before it extends that row.
MergeFault(merged, row) ==
  IF merged # <<>> /\ Last(merged).wasm = row.wasm
  THEN [merged EXCEPT ![Len(merged)] = Row(@.wasm, @.from, row.until, @.current)]
  ELSE Append(merged, row)
Merge(merged, row) ==
  IF merged # <<>> /\ Last(merged).wasm = row.wasm
  THEN [merged EXCEPT ![Len(merged)] =
          Row(@.wasm, @.from, row.until, @.current \/ row.current)]
  ELSE Append(merged, row)

\* What is left of the first n rows, for each n.
Merging(rows) ==
  LET upto[n \in 0..Len(rows)] == IF n = 0 THEN <<>> ELSE Merge(upto[n - 1], rows[n])
  IN  upto
CollapseNoops(rows) == Merging(rows)[Len(rows)]

Versions(events, cur) == CollapseNoops(Rows(events, cur))

\* The deployed version is one of the sealed artifacts.
CurrentAttested(events, cur, sealed) ==
  \E i \in 1..Len(Versions(events, cur)) :
    LET v == Versions(events, cur)[i] IN v.current /\ v.wasm \in sealed
=============================================================================
