------------------------------ MODULE Simulate -------------------------------
(***************************************************************************)
(* `sorseal simulate-onchain`: the ledger src/src/sim.rs makes up from a   *)
(* provenance record, and what the commands of Audit report of it.  The    *)
(* command reads one file and prints; its inputs are the state.            *)
(***************************************************************************)
EXTENDS Lineage

CONSTANTS
  Wasms,     \* wasm binaries
  Default,   \* an option that is not given
  MaxLen     \* bound on the artifacts of a record and on --upgrades

ASSUME ConstantsAssumption == Default \notin Wasms /\ Default \notin Nat /\ MaxLen \in Nat

VARIABLES
  prov,      \* the wasms of the record's artifacts, in order
  named,     \* the first of them that has the id of the last
  upgrades,  \* --upgrades
  deploy,    \* --deploy-wasm
  out        \* what the command reports, <<>> before it does

simVars == <<prov, named, upgrades, deploy, out>>

\* record gives the artifacts different ids, so the last is the first with its own;
\* Provenance::validate takes a record edited by hand in which it is not.
Firsts(p) == IF p = <<>> THEN {0} ELSE 1..Len(p)

SimTypeOK ==
  /\ prov \in BoundedSeq(Wasms, MaxLen)
  /\ named \in Firsts(prov)
  /\ upgrades \in (0..MaxLen) \cup {Default}
  /\ deploy \in Wasms \cup {Default}
  /\ out \in {<<>>} \cup [failed : {TRUE}]
         \cup [match : BOOLEAN, attested : BOOLEAN, consistent : BOOLEAN,
               rows : Seq([wasm : Wasms, from : Nat, until : Nat, current : BOOLEAN])]

\* Definitions whose names end in Fault are the definition after them with a
\* plausible bug in it; the model never uses them.

\* The artifacts the simulated contract has gone through.  The sum in the code is in
\* machine words and leaves them only for a number of upgrades that is the largest
\* word (sim.rs:205), which MaxLen excludes.
Chain == IF upgrades = Default THEN prov ELSE SubSeq(prov, 1, Min({upgrades + 1, Len(prov)}))

\* The deployed wasm.
Current == IF deploy = Default THEN Last(Chain) ELSE deploy

\* One event per upgrade, a thousand ledgers apart.
Event(i) == [ledger |-> 1000 + i * 1000, old |-> Chain[i], new |-> Chain[i + 1]]
EventsFault == [i \in 1..Len(Chain) - 1 |-> [Event(i) EXCEPT !.old = Chain[i + 1]]]
Events == [i \in 1..Len(Chain) - 1 |-> Event(i)]
Oldest == 900
Latest == 1000 + Len(Chain) * 1000

\* What the mock transport answers a request for events from ledger l with,
\* and what a scan of ledgers l to m collects of it.
Answer(l) == IF l <= Oldest THEN Events ELSE <<>>
Scan(l, m) ==
  LET kept == Ascending({i \in 1..Len(Answer(l)) : Answer(l)[i].ledger <= m})
  IN  [k \in 1..Len(kept) |-> Answer(l)[kept[k]]]

SimInit ==
  /\ prov \in BoundedSeq(Wasms, MaxLen)
  /\ named \in Firsts(prov)
  /\ upgrades \in (0..MaxLen) \cup {Default}
  /\ deploy \in Wasms \cup {Default}
  /\ out = <<>>

\* The check of onchain-verify is against the first artifact with the id of the
\* last one; the audit covers the whole window.
Matches == Current = prov[named]

Simulate ==
  /\ out = <<>>
  /\ LET events == Scan(Oldest, Latest)
     IN  out' = IF prov = <<>>
                THEN [failed |-> TRUE]
                ELSE [match |-> Matches,
                      attested |-> CurrentAttested(events, Current, ToSet(prov)),
                      consistent |-> ChainConsistent(events, Current),
                      rows |-> Versions(events, Current)]
  /\ UNCHANGED <<prov, named, upgrades, deploy>>

SimNext == Simulate

SimSpec == SimInit /\ [][SimNext]_simVars
-----------------------------------------------------------------------------
(***************************************************************************)
(* Properties                                                              *)
(***************************************************************************)
Reported == out # <<>> /\ prov # <<>>

\* The wasms of sequence s without immediate repetitions.
Distinct(s) ==
  LET first == Ascending({i \in 1..Len(s) : i > 1 => s[i] # s[i - 1]})
  IN  [k \in 1..Len(first) |-> s[first[k]]]
Shown == [i \in 1..Len(out.rows) |-> out.rows[i].wasm]

\* "reconstructs the upgrade lineage and reports the current deployment PASSED"
\* (PRD criterion 18): without --deploy-wasm both checks agree with the record
\* and the versions are the artifacts gone through, repeated builds merged; the
\* check of the last artifact if no other has its id.
SealedLedgerPasses ==
  Reported /\ deploy = Default =>
    /\ out.attested /\ out.consistent
    /\ Shown = Distinct(Chain)
    /\ upgrades = Default /\ named = Len(prov) => out.match

\* "--deploy-wasm with an unsealed hash reports FAILED" (PRD criterion 18), in
\* both checks, with the unsealed wasm as the current version and the gap shown
\* if the contract was ever upgraded.
UnsealedLedgerFails ==
  Reported /\ deploy \notin ToSet(prov) \cup {Default} =>
    /\ ~out.attested /\ ~out.match
    /\ \A i \in 1..Len(out.rows) : out.rows[i].current <=> i = Len(out.rows)
    /\ Last(Shown) = deploy
    /\ out.consistent <=> Len(Chain) = 1

\* The report is that of the record and the options, sealed or not.
SimulationCorrect == SimTypeOK /\ SealedLedgerPasses /\ UnsealedLedgerFails
-----------------------------------------------------------------------------
(***************************************************************************)
(* A statement of the documentation the code does not keep                 *)
(***************************************************************************)

\* "compares it against the current (last) artifact — PASSED when sealed"
\* (ARCHITECTURE.md:170-171): the deployed wasm is one the record seals.
SealedMatches == Reported /\ Current \in ToSet(prov) => out.match
=============================================================================
