-------------------------------- MODULE Audit --------------------------------
(***************************************************************************)
(* `sorseal onchain-audit` and `sorseal onchain-verify` (src/src/audit.rs, *)
(* src/src/onchain.rs and their dispatch in src/src/main.rs) against a     *)
(* ledger that goes on closing: the contract is upgraded, other contracts  *)
(* emit the same kind of event, the node forgets its oldest ledgers, and   *)
(* any request may fail, all between two requests of one run.              *)
(*                                                                         *)
(* The ledger and the RPC node are outside the repository; they are        *)
(* modelled from what the code asks of them.  An event id is the position  *)
(* of the event in the chain; a wasm stands for its hash.                  *)
(***************************************************************************)
EXTENDS Lineage

CONSTANTS
  Wasms,       \* wasm binaries
  Batches,     \* what one ledger may hold: sequences of Wasms, Foreign, Malformed
  Foreign,     \* an upgrade of another contract
  Malformed,   \* an event of another contract that does not decode
  NoSeal,      \* no provenance file: a set that is not of wasms
  Corrupt,     \* one that does not load
  NoWasm,      \* no wasm known
  Sealings,    \* provenance files: sets of wasms, NoSeal, Corrupt
  Asked,       \* the values of --start-ledger and --end-ledger
  EmptyPages,  \* whether a node may answer with an empty page before the end
  MaxLedger,   \* bound on ledgers closed
  PageLimit,   \* events per page
  MaxPages     \* pages per scan

Events == [ledger : 1..MaxLedger, mine : BOOLEAN, ok : BOOLEAN,
           old : Wasms \cup {NoWasm}, new : Wasms \cup {NoWasm}]

ASSUME ConstantsAssumption ==
  /\ Foreign \notin Wasms /\ Malformed \notin Wasms /\ NoWasm \notin Wasms
  /\ Foreign # Malformed
  /\ NoSeal \notin SUBSET Wasms /\ Corrupt \notin SUBSET Wasms /\ NoSeal # Corrupt
  /\ Sealings \subseteq (SUBSET Wasms) \cup {NoSeal, Corrupt}
  /\ Batches \subseteq Seq(Wasms \cup {Foreign, Malformed})
  /\ Asked \subseteq Nat /\ EmptyPages \in BOOLEAN
  /\ MaxLedger \in Nat \ {0} /\ PageLimit \in Nat \ {0} /\ MaxPages \in Nat

\* Definitions whose names end in Fault are the definition after them with a
\* plausible bug in it; the model never uses them.

VARIABLES
  chain,    \* the events emitted so far, oldest first
  genesis,  \* the wasm the contract was deployed with
  latest,   \* the last ledger closed
  oldest,   \* the oldest ledger the node still serves
  seal,     \* the wasms of the provenance file
  run       \* the command being run

vars == <<chain, genesis, latest, oldest, seal, run>>
ledger == <<chain, genesis, latest, oldest>>

Steps == {"idle", "window", "page", "fetch", "report", "done"}
Exits == {"none", "pass", "fail", "error"}

\* A run: the window it scans, the ids it has seen, the last one (the cursor),
\* the upgrades of this contract it has collected, the pages asked for and the
\* wasm found deployed.  `calm` records that since the run started this
\* contract was not upgraded, nothing was forgotten and no page came back
\* empty before the end; `top` how many events there were when the deployed
\* wasm was read.  No step depends on these two.
Runs == [cli : {"none", "audit", "verify"}, pc : Steps, first : 0..MaxLedger,
         last : 0..MaxLedger, seen : SUBSET Nat, cursor : Nat, got : Seq(Nat),
         pages : 0..MaxPages, want : Wasms \cup {NoWasm}, cur : Wasms \cup {NoWasm},
         exit : Exits, calm : BOOLEAN, top : Nat]

TypeOK ==
  /\ chain \in Seq(Events)
  /\ genesis \in Wasms
  /\ latest \in 1..MaxLedger /\ oldest \in 1..latest
  /\ seal \in Sealings
  /\ run \in Runs
  /\ run.seen \subseteq 1..Len(chain) /\ run.cursor \in 0..Len(chain)
  /\ \A i \in 1..Len(run.got) : run.got[i] \in 1..Len(chain) /\ chain[run.got[i]].mine
  /\ run.top <= Len(chain)

-----------------------------------------------------------------------------
(***************************************************************************)
(* The ledger and the node                                                 *)
(***************************************************************************)
Mine == {i \in 1..Len(chain) : chain[i].mine}

\* The wasm deployed after the upgrades at positions s, and the one deployed now.
After(s) == IF s = {} THEN genesis ELSE chain[Max(s)].new
Live == After(Mine)

\* What the n-th upgrade of batch b starts from: what is deployed by then.
Replaced(b, n) ==
  LET earlier == {m \in 1..(n - 1) : b[m] \in Wasms}
  IN  IF earlier = {} THEN Live ELSE b[Max(earlier)]

\* The events a ledger with batch b emits.
Emitted(b) ==
  [n \in 1..Len(b) |->
     [ledger |-> latest + 1, mine |-> b[n] \in Wasms, ok |-> b[n] # Malformed,
      old |-> IF b[n] \in Wasms THEN Replaced(b, n) ELSE NoWasm,
      new |-> IF b[n] \in Wasms THEN b[n] ELSE NoWasm]]

CloseLedger ==
  /\ latest < MaxLedger
  /\ latest' = latest + 1
  /\ \E b \in Batches :
       /\ chain' = chain \o Emitted(b)
       /\ run' = [run EXCEPT !.calm = @ /\ ToSet(b) \cap Wasms = {}]
  /\ UNCHANGED <<genesis, oldest, seal>>

\* The retention window moves on.
Forget ==
  /\ oldest < latest
  /\ oldest' = oldest + 1
  /\ run' = [run EXCEPT !.calm = FALSE]
  /\ UNCHANGED <<chain, genesis, latest, seal>>

\* The events a request for ledger l or for what follows cursor c may be
\* answered with.  The node may serve the event at the cursor once more.
Served(l, c) == {i \in 1..Len(chain) : i >= c /\ chain[i].ledger >= Max({l, oldest})}
-----------------------------------------------------------------------------
(***************************************************************************)
(* The commands                                                            *)
(***************************************************************************)
NoRun ==
  [cli |-> "none", pc |-> "idle", first |-> 0, last |-> 0, seen |-> {}, cursor |-> 0,
   got |-> <<>>, pages |-> 0, want |-> NoWasm, cur |-> NoWasm, exit |-> "none",
   calm |-> FALSE, top |-> 0]

Init ==
  /\ chain = <<>> /\ genesis \in Wasms
  /\ latest = 1 /\ oldest = 1
  /\ seal \in Sealings
  /\ run = NoRun

Quit(x) == run' = [NoRun EXCEPT !.pc = "done", !.exit = x]

\* onchain-audit: a missing provenance file is no obstacle, one that does not
\* load is.
AuditStart ==
  /\ run.pc = "idle"
  /\ IF seal = Corrupt
     THEN Quit("error")
     ELSE run' = [NoRun EXCEPT !.cli = "audit", !.pc = "window", !.calm = TRUE]
  /\ UNCHANGED <<ledger, seal>>

\* onchain-verify: the artifact to compare with is fixed before the request.
VerifyStart ==
  /\ run.pc = "idle"
  /\ IF seal \in {NoSeal, Corrupt, {}}
     THEN Quit("error")
     ELSE \E w \in seal : run' = [NoRun EXCEPT !.cli = "verify", !.pc = "fetch",
                                               !.want = w, !.calm = TRUE]
  /\ UNCHANGED <<ledger, seal>>

\* rpc_ledger_window, and the window that was asked for clamped to it.
Window ==
  /\ run.pc = "window"
  /\ \E s \in Asked \cup {oldest}, e \in Asked \cup {latest} :
       LET first == Max({s, oldest})
           last == Min({e, latest})
       IN  IF first > last
           THEN Quit("error")
           ELSE run' = [run EXCEPT !.pc = "page", !.first = first, !.last = last]
  /\ UNCHANGED <<ledger, seal>>

\* The pages a node may answer with: the next events it has, from the one at
\* the cursor or the one after it; none when there is nothing more.
Pages ==
  LET all == Served(run.first, run.cursor)
      starts == IF all = {} THEN {} ELSE {Min(all)} \cup (all \cap {run.cursor + 1})
  IN  {pg \in {a..b : a \in starts, b \in all} : Cardinality(pg) \in 1..PageLimit}
        \cup {pg \in {{}} : EmptyPages \/ all \subseteq {run.cursor}}

\* The events of a page that are new, and those of them that end the scan.
FreshFault(pg) == pg
Fresh(pg) == pg \ run.seen
Stops(pg) == {i \in Fresh(pg) : ~chain[i].ok \/ chain[i].ledger > run.last}

\* The upgrades of this contract on a page, up to the first event that stops
\* the scan, behind those collected before; sorted by ledger.
CollectedFault(pg) == run.got \o Ascending({i \in Fresh(pg) : \A j \in Stops(pg) : i < j})
Collected(pg) ==
  run.got \o Ascending({i \in Fresh(pg) : chain[i].mine /\ \A j \in Stops(pg) : i < j})

\* The sort keeps events of the same ledger in the order they were collected in.
SortedByLedger(got) ==
  LET before(i) == {j \in 1..Len(got) :
                      \/ chain[got[j]].ledger < chain[got[i]].ledger
                      \/ chain[got[j]].ledger = chain[got[i]].ledger /\ j <= i}
  IN  [k \in 1..Len(got) |-> got[CHOOSE i \in 1..Len(got) : Cardinality(before(i)) = k]]

CountedFault == (run.pages + 1) % MaxPages
Counted == run.pages + 1

\* One request of scan_upgrade_events.  A scan whose first ledger has been
\* forgotten meanwhile is refused.
Page ==
  /\ run.pc = "page" /\ run.pages < MaxPages
  /\ UNCHANGED <<ledger, seal>>
  /\ run.cursor = 0 => run.first >= oldest
  /\ \E pg \in Pages, more \in BOOLEAN :
       LET got == Collected(pg)
           stop == Stops(pg)
           ended == Served(run.first, run.cursor) \subseteq {run.cursor}
           end == [run EXCEPT !.pc = "fetch", !.got = SortedByLedger(got),
                              !.calm = @ /\ (pg # {} \/ ended)]
       IN  /\ more \/ Len(chain) \in pg \cup {run.cursor}
           /\ \/ /\ pg = {} \/ (stop # {} /\ chain[Min(stop)].ok) \/ (stop = {} /\ ~more)
                 /\ run' = end
              \/ /\ stop # {} /\ ~chain[Min(stop)].ok
                 /\ Quit("error")
              \/ /\ pg # {} /\ stop = {} /\ more
                 /\ run' = [run EXCEPT !.seen = @ \cup pg, !.cursor = Max(pg),
                                       !.got = got, !.pages = Counted]

\* fetch_deployed_wasm_hash, for both commands.
Fetch ==
  /\ run.pc = "fetch"
  /\ run' = [run EXCEPT !.pc = "report", !.cur = Live, !.top = Len(chain)]
  /\ UNCHANGED <<ledger, seal>>

\* A scan that has used up its pages gives up.
OutOfPages ==
  /\ run.pc = "page" /\ run.pages = MaxPages
  /\ Quit("error")
  /\ UNCHANGED <<ledger, seal>>

\* A request fails, is answered with an error, or with what does not decode.
RequestFails ==
  /\ run.pc \in {"window", "page", "fetch"}
  /\ Quit("error")
  /\ UNCHANGED <<ledger, seal>>

\* The events the scan has collected.
Scanned == [i \in 1..Len(run.got) |-> chain[run.got[i]]]

\* The verdict of either command.
Passes ==
  \/ run.cli = "verify" /\ run.cur = run.want
  \/ run.cli = "audit" /\ (seal = NoSeal \/ CurrentAttested(Scanned, run.cur, seal))

Report ==
  /\ run.pc = "report"
  /\ Quit(IF Passes THEN "pass" ELSE "fail")
  /\ UNCHANGED <<ledger, seal>>

\* What the command does if every request is answered.
Advance == Window \/ Page \/ OutOfPages \/ Fetch \/ Report

Next == CloseLedger \/ Forget \/ AuditStart \/ VerifyStart \/ Advance \/ RequestFails

Spec == Init /\ [][Next]_vars

\* A started command keeps going: a request that is not answered ends with its
\* timeout, so that one of the two is always taken.
FairSpec == Spec /\ WF_vars(RequestFails \/ Advance)
-----------------------------------------------------------------------------
(***************************************************************************)
(* Properties                                                              *)
(***************************************************************************)
AtReport(cli) == run.pc = "report" /\ run.cli = cli

\* The events that changed what was deployed, up to position k.
Changes(k) == {i \in Mine : i <= k /\ chain[i].old # chain[i].new}

\* The true history from ledger l to position k: one row per stretch in which
\* the same wasm was deployed.
History(l, k) ==
  LET turn == Ascending({i \in Changes(k) : chain[i].ledger >= l})
      n == Len(turn)
      at(i) == IF i \in 1..n THEN chain[turn[i]].ledger ELSE 0
      wasm(i) == IF i = 0 THEN After({p \in Mine : chain[p].ledger < l})
                 ELSE chain[turn[i]].new
  IN  [i \in 1..(n + 1) |-> Row(wasm(i - 1), at(i - 1), at(i), i = n + 1)]

\* The report's rows.
Reported == Versions(Scanned, run.cur)

\* "de-duplicates by event id ... so the result is exactly the upgrade
\* history" (audit.rs:250-255), carried through to the report: an audit whose
\* window ends where the upgrades end, which no page cut short and under which
\* neither the contract nor the retention window moved, lists exactly the
\* versions deployed since its first ledger with when each went live and was
\* replaced, and finds no gap.
CalmLineage ==
  (/\ AtReport("audit") /\ run.calm
   /\ \A i \in Mine : chain[i].ledger <= run.last)
  => /\ Reported = History(run.first, Len(chain))
     /\ ChainConsistent(Scanned, run.cur)

\* Whatever happens between the requests: the versions of a report were all
\* deployed, in the order it gives them (audit.rs:338-450).
LineageInOrder ==
  AtReport("audit") =>
    LET moments == {0} \cup Mine
        wasm(k) == IF k = 0 THEN genesis ELSE chain[k].new
    IN  \E at \in [1..Len(Reported) -> moments] :
          \A i \in 1..Len(Reported) : /\ Reported[i].wasm = wasm(at[i])
                                      /\ i > 1 => at[i - 1] < at[i]

\* What a report lists is the history of the contract: all of it in order if
\* nothing moved, and in any case in order and nothing else.
TrueLineage == CalmLineage /\ LineageInOrder

\* No wasm was deployed twice up to position k.
NoReturn(k) ==
  Cardinality({genesis} \cup {chain[i].new : i \in Changes(k)}) = 1 + Cardinality(Changes(k))

\* What the verdict "consistent" is worth (audit.rs:406-430) without any
\* assumption on what the ledger, the retention window or the pages did: if no
\* wasm was ever deployed twice, a consistent report is complete from its first
\* version up to the moment the deployed wasm was read.
ConsistentIsComplete ==
  (/\ AtReport("audit")
   /\ ChainConsistent(Scanned, run.cur)
   /\ NoReturn(run.top))
  => LET full  == History(1, run.top)
         since == Len(full) - Len(Reported) + 1
     IN  /\ since >= 1
         /\ Reported = [SubSeq(full, since, Len(full)) EXCEPT ![1].from = 0]

\* The exit code speaks of the ledger as it is (main.rs:838-839, 524): unless
\* an upgrade came after the last request, an audit passes exactly when the
\* deployed wasm is sealed or there is no seal, and onchain-verify when it is
\* the chosen one.
VerdictFollowsLedger ==
  run.pc = "report" /\ Mine \subseteq 1..run.top =>
    (Passes <=> IF run.cli = "verify" THEN Live = run.want
                ELSE seal = NoSeal \/ Live \in seal)

\* A command ends even if the node's cursor makes no progress
\* (audit.rs:267-269).
AuditEnds == run.pc = "window" ~> run.pc = "done"
-----------------------------------------------------------------------------
(***************************************************************************)
(* Statements of the documentation the code does not keep                  *)
(***************************************************************************)

\* "`1` when current is unsealed or the lineage is inconsistent"
\* (ARCHITECTURE.md:100-103), of an audit with a provenance file.
InconsistentExitsOne ==
  AtReport("audit") /\ seal # NoSeal /\ ~ChainConsistent(Scanned, run.cur) => ~Passes

\* "the result is exactly the upgrade history in the requested window"
\* (audit.rs:253-254), of a scan under which nothing was forgotten.
ScanExact ==
  run.pc = "fetch" /\ run.cli = "audit" /\ oldest <= run.first =>
    ToSet(run.got) = {i \in Mine : chain[i].ledger \in run.first..run.last}
=============================================================================
