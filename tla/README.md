# sorseal in TLA+

Specifications, model-checking runs and machine-checked proofs for sorseal: the command-line tool
that seals Soroban contract builds (`record`), checks them (`verify`), signs the seal, watches files,
and compares the seal with what is deployed on chain. Everything here is translated from the Rust
sources under `src/src/`; `PROJECT.json` maps each definition to the lines it models.

## 1. The system

sorseal is one crate: a library and a CLI. No process outlives its command except the `watch` daemon.
What makes it hard is therefore not threads but **files**: every subcommand is a process that reads and
writes a handful of shared files one at a time, while a developer, git, a cron job or a second sorseal
does the same, and any of them may be killed in between.

| Component | Keeps | Operations | Talks to | What must hold |
|---|---|---|---|---|
| Record and verify (`runner.rs`, `git.rs`) | nothing in memory between runs | record, verify | manifest, seal, git, build commands, source tree, `target/` | a passing verify speaks the truth about the project; a conforming project passes; a clean seal describes its commit |
| Provenance (`provenance.rs`) | `sorseal.provenance.json` | load + validate, truncating save | record, analyze --seal, verify, sign, audit | a torn or partial file never loads as a seal nobody made; no dirty seal is stored |
| Manifest (`manifest.rs`) | `sorseal.toml` | load + validate | every command | only manifests that can be built are accepted |
| Digests (`digest.rs`) | the files listed and hashed so far | walk, sort, hash | record, verify, watch; the tree may change under the walk | the digest is that of the sources, whatever order they are listed in |
| Static analyser (`analyze.rs`) | analysis entries of the seal | strip, find test blocks and functions, apply rules, walk, suppress, gate, seal | source tree, wasm scanner, provenance, hook | all deployed code and nothing else is judged; what is sealed depends on the sources only; the worst artifact decides the exit |
| Wasm scanner (`wasm_scan.rs`) | - | two walks over the sections of a binary | analyser | exact counts of a whole module; no bytes break or stall it |
| Git hook (`hook.rs`) | `.git/hooks/pre-commit` | install, uninstall, status, the script itself | git, verify, analyze | drift is caught before it is committed; a commit ends |
| Signing (`sign.rs`) | key files, attestation | keygen, sign, verify-attestation | provenance | a pass means signed by that key and covering the record |
| Watch (`watch.rs`) | `sorseal.watchstate.json`, baselines in memory | daemon, --once, --init | watched files, webhooks | drift is never absorbed, alerts reach who can be reached |
| On-chain audit (`audit.rs`) | events of one run | window probe, paged scan, report | Soroban RPC, provenance | the lineage is the ledger's, the verdict follows the deployed wasm |
| On-chain verify (`onchain.rs`) | - | choose the artifact, one request, decode, compare | Soroban RPC, provenance | only the encoding of a hash is read as that hash; a pass means the artifact asked for |
| Ledger simulation (`sim.rs`) | - | build a ledger from the seal | audit and verify code | a sealed chain passes, an unsealed one fails |
| Scaffolding (`scaffold.rs`) | `sorseal.toml` | init | Cargo workspace | every contract is found, the manifest works |
| CLI (`main.rs`) | - | dispatch, exit codes 0 / 1 / 2 | all | exit codes mean what is documented |
| Clock (`clock.rs`) | - | a timestamp | record, analyze, watch | it is the date and time there is |
| Reports (`report.rs`, `sarif.rs`) | - | render results | - | layout only |

The behaviours that are hard to test, with the line where each bites and the property that watches it,
are listed under `hazards` in `PROJECT.json`. They fall into six groups: steps of several processes
interleaving over the same file; a kill between truncation and write; git history moving between two
commands; a remote ledger and its retention window moving between two requests; a verdict computed
from less than it claims (analysis entries, lineage gaps, one-directional subject checks); and the
hand-written readers (of Rust lines, of wasm, of XDR, of the calendar), where one character, size or
division off goes unnoticed.

## 2. The modules

| Module | Models | State | Actions |
|---|---|---|---|
| `Seal` | record, verify, analyze --seal over one project | working tree, index, commits, HEAD, `target/`, and per process the values it holds between its steps | one action per read or write (`RecordRevParse`, `RecordStatus`, `RecordBuild`, `RecordWasm`, `RecordSource`, `LoadSeal`, `VerifyGit`, ..., `SaveTruncate`, `SaveWrite`), `Crash`, and the developer's edits, git commands and tampering |
| `CommitGate` | `sorseal hook` and the commits under it; EXTENDS `Seal` | plus hook file, install progress, commit under way | `InstallStart`/`InstallStep`/`InstallStops`, `Uninstall`, `CommitStart`, `HookVerified`, `HookAnalyzed`, `Committed`, `PlainCommit`, `OtherHook`; `hook status` as what it prints and exits with |
| `DriftMonitor` | abstract: what file-integrity monitoring promises | file, pin, alarm of each path | `Enrol`, `Raise`, `Settle`, `Change` |
| `Watch` | `sorseal watch`; implements `DriftMonitor` | files, config, state file, endpoints, inbox, runs | `WriteStarter`, `Load`, `Look`, `HashPath`, `Report`, `Post`, `SarifFails`, `Truncate`, `WriteState`, `Wake`, `Crash` |
| `Lineage` | build_audit and collapse_noops, pure | - | - |
| `Audit` | onchain-audit and onchain-verify against a moving ledger | events, retention window, seal, the run | `Window`, `Page`, `OutOfPages`, `Fetch`, `Report`, `RequestFails`, `CloseLedger`, `Forget` |
| `Simulate` | simulate-onchain | the record, the options, the report | `Simulate` |
| `Attest` | keygen, sign, verify-attestation | key files, attestation, record, processes | `KeygenOpen`, `KeygenWrite`, `SignKey`, `SignRecord`, `SignOpen`, `SignWrite`, `VerifyEnvelope`, `VerifySubjects`, `Verdict`, `Crash`, edits |
| `Scaffold` | init and the load of what it writes | directories, Cargo manifests, `sorseal.toml` | `InitCommand`, `Load` |
| `TreeDigest` | `tree_sha256` while the tree is written to | tree, directories open, files listed, bytes hashed | `CollectEntry` (`Skip`, `Push`, `Descend`), `Return`, `Sort`, `Hash`, `HashDone`, `Edit`, `WriteOutput` |
| `Strip` | `strip_comments_and_strings`, beside the lexer of Rust | a window of three characters, the flags of both lexers | one step of both per character |
| `SourceScan` | `analyze_file`: `test_block_ranges`, `split_functions`, the rules | the lines, the loop and its brace counter, the blocks, the findings | `TestLine`, `TestsDone`, `FunctionLine`, `FunctionsDone`, `FunctionLoop`, `Done` |
| `AnalyzeTree` | the `analyze` command: walk, suppressions, binary findings, gate, SARIF, sealing | options, directories open, findings, entries to seal, exit code | `Artifact`, `Walk`, `ArtifactDone`, `Finish` |
| `WasmScan` | `scan` and `wasm_findings` | the bytes, the reader's positions, the counts | `ReadHeader`, `CountSection`, `Counted`, `CodeSection`, `ReadBody`, `BodiesDone`, `Scanned` |
| `Onchain` | `onchain-verify`, the XDR decoders of `onchain.rs` and `audit.rs`, the encoders of `sim.rs` | the arguments, the answer, the hashes read | `Select`, `Fetch`, `Compare` |
| `Calendar` | abstract: the Gregorian calendar, day by day | date, time | `Later` |
| `Clock` | `utc_rfc3339`; implements `Calendar` | days and seconds since 1970 | `Wait` |
| `SealProofs` | proofs about `Seal` and, on those, `CommitGate` | | |
| `WatchProofs` | proofs about `Watch` | | |
| `AttestProofs` | proofs about `Attest` | | |
| `ScannerProofs` | proofs about `Strip`, `SourceScan` and `WasmScan`, on those of `LineageProofs` | | |
| `LineageProofs` | proofs about `Lineage`: what its recursive function and its ordering of positions compute; induction and recursion for the other proofs | | |
| `AuditProofs` | proofs about `Audit`, on those of `LineageProofs` | | |
| `FormatProofs` | proofs about `Clock`, `Onchain` and, on those of `LineageProofs`, `Simulate` | | |
| `TreeProofs` | proofs about the walks of a source tree, `AnalyzeTree` and `TreeDigest`, and about `Scaffold`, on those of `LineageProofs` | | |
| `MCSeal`, `MCCommitGate`, `MCWatch`, `MCAudit`, `MCAttest` | an instance of one module for TLC | | |
| `MCScanners`, `MCTrees`, `MCFormats` | instances of three modules each for TLC | which of the three moves | those of the three |

How the modules stand to each other: `CommitGate` extends `Seal`, so the hook's verify and analyze are
processes of it; `Audit` and `Simulate` share `Lineage`; `Watch` implements `DriftMonitor` and `Clock`
implements `Calendar`. The analyser is cut where its parts hand on plain data: `Strip` says what a line
keeps, `SourceScan` takes lines with what the rules look for in them, `AnalyzeTree` takes what is found in
each file, `Seal` takes the digest of an analysis. `TreeDigest` justifies what `Seal` assumes of a digest
(it is that of the sources) and bounds it (`OtherTreeOtherDigest`); `Onchain` does the same for the hashes
and events `Audit` works with.

Conventions. A process is a record with a `pc` naming its next step and the values the Rust code holds
in locals at that point; a process that has ended is `Stopped` with its exit ("pass", "fail", "error"
for codes 0, 1, 2, or "killed"). A history flag `calm` is true while nobody else has changed the shared
files under the run; no step reads it, properties use it to say *undisturbed*. Definitions ending in
`Fault` are the definition after them with a plausible bug; the model never uses them, and each checked
property is known to break when one of them is put in (`mutants` in `PROJECT.json`).

### Abstractions

* A digest is the content it is taken of: SHA-256 is taken to be injective. In `Seal` a source is a value;
  `TreeDigest` has the walk, with the bytes that are hashed in place of the hash.
* In `TreeDigest` text is a sequence of tokens (a path as written, a newline, other text). A directory
  has a listing when it is opened; what is created in it later is not seen. A file is read in one step.
* `Strip` has eight classes of characters: those that matter to either lexer, an `r` that may open a raw
  string, and the rest. Raw strings with hashes and byte strings are not told apart from `r"` and `"`.
* A line of `SourceScan` is its braces, whether it looks like a signature or carries `#[cfg(test)]`, and the
  words the rules look for, one name for words that are nowhere looked for apart. To say what should be found,
  a line also carries its place in a function of Rust and whether it is deployed; no step reads these.
* `WasmScan` keeps LEB128 and word arithmetic, with parameters in place of 128 and 2^64 that are small in the run.
  To say what should be reported, an artifact comes with the module it encodes and where each section and body
  of it is; no step reads these, and `IsModule` says when they fit the bytes.
* An XDR string of `Onchain` has one token per 32-bit word and `HashLen` tokens per hash. Tags keep the
  numbers they have in the code, so that hashes can be made to look like tags.
* `Clock` keeps seconds as days and seconds of the day, the first two quotients `utc_rfc3339` takes.
* A build is a relation `Builds[source, command]` to what it may leave in `target/`: a wasm, nothing new,
  or a failure. Builds change nothing but `target/`. A build that ends is assumed; a build that hangs is
  outside the fairness.
* Loops over artifacts, watched paths and webhooks take their elements in any order. Code order is one of
  these, so properties proved for all orders hold for it.
* git is modelled as commits with their trees and ancestor sets. Commits are never garbage-collected
  before a new `git init`; enclosing repositories are not modelled; the git check of verify
  (`rev-parse HEAD`, `merge-base`) is one step. A half-written `git commit` is git's affair.
* `std::fs::write` is a truncation and a write. Two of them overlapping may leave a mixture, which is
  `Corrupt` or `Torn`.
* Changing `wasm_path` or `source_root` in a manifest after a seal is not modelled: `source_root` is
  fixed per artifact by the constant `AtRoot`.
* Signatures are symbolic: `[by |-> key, over |-> statement]`. Knowing the public half of a key never
  yields a signature.
* The RPC node is outside the repository: it serves its events in order, in contiguous pages, may serve
  the event at the cursor again, may forget its oldest ledgers at any moment, and leaves the cursor out
  only at the end. With `EmptyPages` it may also answer with an empty page before the end.
* The trees of `AnalyzeTree` are finite, and what there is does not change under the walk. The code follows
  symbolic links (`is_dir`, analyze.rs:367), so that a link to a directory above makes it walk until the path
  is too long; such trees are left out. A source root that is missing, a directory that cannot be listed and a
  source that cannot be read are errors, as in the code.
* `Onchain` folds an error of the node and an answer without entries into an entry that holds no hash (all
  end with exit 2), and leaves out that an event must have a contract id that can be read (audit.rs:184-189):
  events that do not decode are in `Audit`, whatever is wrong with them.
* `Simulate` keeps of the ids of a record which artifact is the first with the last one's id, since the check looks it
  up by id (main.rs:556). `--upgrades` with the largest machine word overflows `upgrade_count + 1` (sim.rs:205);
  the bound on upgrades leaves it out.
* Error messages, formatting, colours, JSON layout and reports are left out.
* In `Scaffold`, strings are already split at `/` and `*`, a split giving one part at least; directories contain
  only directories; a package may be called like the `artifact-id` of the manifest without contracts
  (scaffold.rs:189, 259) and is taken for it; `exclude` and path dependencies of a Cargo workspace are not looked at by the code and not modelled.

## 3. Runs

Every passing run finishes in well under five minutes on two cores. Deadlock checking is off everywhere:
bounded edits and starts make every behaviour end, and a tool that has answered stops.

| Run | What it explores | Properties |
|---|---|---|
| `seal` | two shells, two artifacts, a source that may go missing, three runs of record, verify and analyze, two developer steps, two commits, kills | `TypeOK`, `VerifyComplete`, `AnalyzeAppends`, `NoPartialSeal` |
| `gate` | one shell and the hook, three sources, three commits: the hook installed, removed, half installed; commits under it among records, verifies, edits and kills, fairness | `GateTypeOK`, `GateSound`, `VerifySound`, `RecordSound`, `NoDirtySeal`, `GateEnds` |
| `watch` | one shell at a time: daemons, --once, --init, restarts, two paths, two endpoints of which either may be down, fairness | `TypeOK`, `Monitored` (refinement of `DriftMonitor`), `PassPins`, `AlertDelivered` |
| `audit` | clamped windows over closing ledgers, foreign and undecodable events, re-served and empty pages, a retention window that moves, fairness | `TypeOK`, `TrueLineage`, `ConsistentIsComplete`, `VerdictFollowsLedger`, `AuditEnds` |
| `attest` | two shells, two keys, two file names, two artifacts, four runs, altered and lost files | `TypeOK`, `PassMeansSigned`, `PassCoversRecord`, `RoundTrips`, `KeygenPairs` |
| `scanners` | `Strip`: texts of every length over the eight classes, comments nested up to three deep | `SeesTheCode` |
| | `SourceScan`: every function of two lines over every pair of words; every file of two items: functions with and without blocks, wrapped and on one line, test modules, test functions and declarations, macros, impls | `TypeOK`, `BlocksInOrder`, `ExactFindings` |
| | `WasmScan`: modules of up to two bodies in two layouts, one of them with custom sections and padded sizes, all truncations of the largest, a body of every size, all short byte strings, in a checking and a wrapping build, fairness | `WasmCorrect`, `WasmEnds` |
| `trees` | `Scaffold`: every project of up to seven directories, some forty workspace tables with literal, `*`, `**` and overlapping glob members | `ScaffoldCorrect`, `LoadedIsUsable` |
| | `AnalyzeTree`: two artifacts, every set of their sources, a missing root, a directory that cannot be listed, a source that cannot be read, every listing order, every combination of the options | `AnalysisCorrect`, `SealsAllOrNothing`, `NothingPassedOver` |
| | `TreeDigest`: every tree over five paths (two sources, a skipped file, a skipped directory below a source directory, a generated file under another name), every listing order, one edit and one written output at any moment | `DigestCorrect`, `OneChangeSeen` |
| `formats` | `Simulate`: every record of up to four artifacts over three wasms, the last one's id also given to an earlier one, every option | `SimulationCorrect` |
| | `Onchain`: entries and events as `sim.rs` encodes them, cut anywhere, shifted, extended or with one token altered; records of up to two artifacts; every spelling of the contract id | `DecodersCorrect` |
| | `Clock`: four hundred years from 1970, one reading each day at another second of it | `FollowsCalendar` (refinement of `Calendar`) |

`scanners`, `trees` and `formats` each check three modules that share no state and never wait for one another.
A behaviour of them is a behaviour of one of the three, chosen at the start, while the variables of the other
two keep one value: the states are the union of those of the three, not their product, and nothing is lost.

Several invariants are conjunctions of parts that have a name and a comment of their own in the module:

| Invariant | Its parts |
|---|---|
| `TrueLineage` (`Audit`) | `CalmLineage`, `LineageInOrder` |
| `WasmCorrect` | `WasmTypeOK`, `ExactCounts`, `TrapsPerBody`, `FindingsFollowModule` |
| `ScaffoldCorrect` | `ScaffoldTypeOK`, `FindsEveryContract` |
| `AnalysisCorrect` | `TypeOK`, `SealsTheTree`, `WorstArtifactDecides` |
| `DigestCorrect` | `DigestTypeOK`, `DigestOfSources`, `UntouchedRead`, `FilesOnce` |
| `SimulationCorrect` | `SimTypeOK`, `SealedLedgerPasses`, `UnsealedLedgerFails` |
| `DecodersCorrect` (`Onchain`) | `TypeOK`, `EntryHashIsEncoded`, `EventIsEncoded`, `SimulatedIsRead`, `PassMeansChosen` |

`LexTypeOK` and `InStep` of `Strip`, `PanicsOutOfWord` of `WasmScan` and `ClockTypeOK` are in
no run: the first three are proved (or are steps of a proof), the last follows from `FollowsCalendar`; TLC confirms each when it is
added to the configuration.

`VerifySound`, `RecordSound` and `NoDirtySeal` are properties of `Seal` that `gate` checks under the hook, whose
commits are steps `Seal` does not have; they are proved for both specifications.

Two configurations are kept for occasional use beside these: `MCSealRoots.cfg` (an artifact rooted at ".",
two project names, `--allow-dirty` both ways, for `VerifySound` and `RecordSound`, which are proved for
all constants) and `MCWatchPair.cfg` (a daemon and a cron check over one state file, for `PassPins`).

### Bounds and why they suffice

* **Artifacts** two at most: the hazards between artifacts (one passes while the other fails, one's digest
  covers the other's sources) need two and no third.
* **Sources, commands, wasms** two each, plus the missing source root: every comparison in the code is an
  equality, so a third value adds only states that differ from two others at once. `gate` has three
  sources, so that the staged, the sealed and the present one can all differ.
* **Commits** two or three: a sealed commit, its successor, and one that is not a descendant.
* **Developer steps** (`MaxEdits`) two, four in some of the claims: one between each pair of the steps of interest, plus the
  stage-commit-reset sequences that move HEAD. **Runs** (`MaxStarts`) two or three: record, then verify,
  with one that interferes.
* **Ledgers** three with up to two events each and pages of one or two: enough for an event before, at
  and after each end of the window, for two pages with one event re-served, two upgrades in one ledger, and
  an upgrade between the scan and the read. Three wasms: a history of three versions without a return. **Pages**: small `MaxPages` reaches the cap of `audit.rs:267`.
* **Trees**: the loops of `TreeDigest` and `AnalyzeTree` treat every entry alike, so one of each kind, in one
  directory below another, meets every branch. One edit and one output suffice for each moment of the walk;
  a second one of the same kind is to the walk a change between two other reads.
* **Characters**: both lexers look at most three characters ahead, so the window makes `Strip` cover texts of
  every length; only the nesting of comments is bounded, and `ScannerProofs` removes that bound.
* **Lines**: the counters of `SourceScan` reset between blocks, so two items cover what one does to the next.
  The rules over a function ask for at most three words on its lines, the rules over a line for no other line.
* **Words**: with groups of two bits and words of six, `WasmScan` has numbers of one, two and three groups, sizes
  that leave the section, the file and the word, and sums that wrap.
* **Calendar**: 146097 days are a whole period of the Gregorian calendar, so all later dates repeat it.
* **Glob parts** up to three, against names short enough for a prefix and a suffix to overlap in them.

Bounds are in the guards (`edits < MaxEdits`, `starts < MaxStarts`, `latest < MaxLedger`,
`run.pages < MaxPages`) and are constants. `MaxPages` is the code's own `MAX_PAGES`; the others are ours.
The theorems below hold for every value of them.

### Fairness

`FairSpec` in `Watch` and `Audit` and `FairGateSpec` ask one thing: a process that can take its next step
eventually does (`WF` of its `Advance`, and of the steps of a commit). `WasmScan` runs in one process without
waiting for anyone; weak fairness of its step says that the process is scheduled. The operating system schedules processes; a build is
assumed to end; every RPC request ends with an answer or its timeout (`onchain.rs`, `rpc_agent`), which is
why the fair action there is `RequestFails \/ Advance`; each webhook post is capped by `webhook_agent`;
the daemon's sleep is finite. Nothing obliges the developer, an edit, a crash or an endpoint to do anything.

## 4. What the code does not keep

Four runs expect a violation. Each checks a single property that states a line of the repository's own
documentation or comments, and TLC refutes it. They are listed with the quotation under `findings`.

| Run | Property | Statement | What happens |
|---|---|---|---|
| `analysis_claim` | `VerifyChecksAnalysis` | verify cross-checks the analysis digest (ARCHITECTURE.md:154) | verify never reads the analysis entries |
| `watch_drift_claim` | `OnceDetectsDrift` | detects drift on subsequent runs (PRD.md:129) | a torn state file counts as a first run |
| `audit_exit_claim` | `InconsistentExitsOne` | exit 1 when the lineage is inconsistent (ARCHITECTURE.md:100) | the exit code looks at the deployed wasm only |
| `source_whole_claim` | `WholeFunctions` | the range covers one function (analyze.rs:563) | a wrapped signature is taken for the whole |

The last sections of the modules state more of them. TLC refutes each one, with the configuration given here
(for example `tlc -config MCSealCleanClaim.cfg MCSeal`) or, for the three runs named at the end, when the
property takes the place of those in the run's configuration.

| Configuration | Property | Statement | What happens |
|---|---|---|---|
| `MCSealCleanClaim` | `CleanSealDescribesCommit` | a sealed record describes the exact committed source (runner.rs:78) | cleanliness is read once, before the builds; an edit during a build is sealed as clean |
| `MCSealCorruptClaim` | `CorruptSealExitsOne` | corrupted provenance fails verify with exit 1 (PRD.md:114) | exit 2 |
| `MCCommitGateCommitClaim` | `GateCatches` | drift is caught when a developer tries to commit (hook.rs:4) | the hook checks the working tree, git commits the index |
| `MCCommitGateRecordClaim` | `RerecordHelps` | re-run `sorseal record` (hook.rs:33) | after a refused commit the tree is dirty, and record refuses that |
| `MCCommitGateStatusClaim` | `StatusTells` | shows whether the hook is installed (main.rs:240) | "not installed" contains "installed": exit 0 either way |
| `MCCommitGateChmodClaim` | `InstalledMeansRun` | whether a hook is currently installed (hook.rs:62) | a kill before the chmod leaves one that git passes over |
| `MCWatchStoredClaim` | `ComparesWithStored` | compare with the stored baselines (ARCHITECTURE.md:113) | a run compares with the copy it loaded at its start |
| `MCWatchLoopClaim` | `UntilInterrupted` | check periodically until interrupted (watch.rs:400) | one unreadable path ends the daemon |
| `MCAuditScanClaim` | `ScanExact` | exactly the upgrade history in the window (audit.rs:253) | the first empty page ends the scan even if a cursor came with it |
| `MCAttestTamperClaim` | `TamperedRecordFails` | tampered provenance fails verification (PRD.md:121) | only the wasm digests of the record's own artifacts are compared |
| `MCAttestKeyClaim` | `KeygenKeepsKey` | keygen generates a keypair (main.rs:71) | one name for both files loses the private key, with exit 0 |
| `MCScannersRun` | `CommentsDropped` | comments are stripped (analyze.rs:223) | only the first line of a block comment is |
| | `TestRegionsExcluded` | test regions are excluded (analyze.rs:429) | not in a file without functions |
| | `OnlyTestsSkipped` | the ranges cover `#[cfg(test)]` blocks (analyze.rs:525) | after a declaration without braces they cover the next deployed function |
| | `CallAfterApprove` | approves and then calls out (analyze.rs:869) | the order is not looked at |
| | `OnlyExportedCounted` | counts exported functions (wasm_scan.rs:60) | every body is counted |
| | `CountedBodiesTrap` | with an `unreachable` trap (wasm_scan.rs:137) | locals and operands count as opcodes: an empty function has the pair |
| `MCTreesRun` | `InitScaffoldsWorkingManifest` | `sorseal init` scaffolds a working manifest (PRD.md:119) | in a workspace it writes absolute source roots that no command loads |
| | `BuildOutputSkipped` | skips `target/` (ARCHITECTURE.md:126) | only if `--ignore` names it |
| | `NoSourceIsAnError` | a scan that walked no source is an error (main.rs:723) | not with an `--artifact` the manifest has not |
| | `FirstArtifactByDefault` | without `--artifact`, the first artifact is used (ARCHITECTURE.md:125) | every artifact of the manifest is judged and sealed (main.rs:640-645) |
| | `SortedByRule` | findings are sorted by rule, file, line (ARCHITECTURE.md:145) | by file, line, rule (analyze.rs:326-344) |
| | `EverySourceCounts` | a changed source changes the analysis digest (PRD.md:139) | the digest is that of the findings; a source without any has no part in it |
| | `CleanWasWalked` | surfaced rather than reported clean (analyze.rs:321) | it is sealed with no findings |
| | `OwnOutputsIgnored` | a seal never depends on its own outputs (digest.rs:36) | watch files are hashed as sources |
| | `OtherTreeOtherDigest` | keyed on relative path and file bytes (digest.rs:49) | paths and bytes are joined by newlines, without lengths |
| `MCFormatsRun` | `SealedMatches` | PASSED when sealed (ARCHITECTURE.md:170) | with fewer `--upgrades` the deployed wasm is sealed and the check says FAILED |

## 5. What is proved

The theorems hold for every value of the constants that satisfies the named assumptions of each module
(`ConstantsAssumption`: the constants have their kinds; `SentinelsAssumption`: the values that stand for
"none", "torn" and the like are not data; `GateAssumption`: the hook's process is one of the shells and the
history has room for the commit it starts with; `AnalyzeAssumption`: the entries below the roots are paths, each in
one directory and none below itself, and the findings of a file are of given rules, one of each to a line). TLC checked each formula, and each strengthening as an
invariant, before it was proved.

**`SealProofs`: `TypeCorrect` (`Spec => []TypeOK`).** `TypeOK` is not inductive: a save writes the seal
a process holds, and `git_state` compares commits with ancestor sets. `TypeInv` adds `ShapeOK` (what a
process holds at each of its steps) and `AncestorsOK` (the ancestors of a commit are among the commits).
One lemma per action, `DeveloperType` for the environment.

**`SealProofs`: `VerifyIsSound` (`[]VerifySound`).** `VerifyInv` says what an undisturbed verify has
established at each step: the artifacts already handled, those that are neither to do nor in hand, agree
with the seal in command, source and wasm as long as `ok` holds. The work is in showing that a step of
somebody else either clears `calm` or leaves what was compared as it was (`ElsewhereUndisturbed`); then
one lemma per action of the verify itself.

**`SealProofs`: `RecordIsSound` (`[]RecordSound`).** `RecordInv` is the same argument for the entries a
record has built so far and the commit it read.

**`SealProofs`: `NeverDirty` (`[]NoDirtySeal`).** `CleanInv` covers every place a seal can be: the working
tree, the index, every commit, and the memory of every process past its cleanliness check. Each action
moves seals between these places; only `RecordStatus` makes a git state.

**`SealProofs`: `VerifyIsComplete` (`[]VerifyComplete`).** The converse of `VerifyIsSound`: a project is
`Faithful` while it conforms to its seal and its builds can only reproduce the sealed wasm, and
`VerifyAccepts` says that an undisturbed verify of a faithful project has found nothing wrong at any step.
Between the build of an artifact and its hash it also says that what is in `target/` is the sealed wasm:
nothing else fixes that, since builds of other shells write there too.

**`SealProofs`: `AnalyzeOnlyAppends` (`[]AnalyzeAppends`).** `AnalyzeInv` says that an undisturbed analysis
holds the record on disk with entries added behind it (`Extends`), from the load to the truncation that
starts the save.

**`SealProofs`: `NeverPartial` (`NoPartialSeal`).** An action property: `WriteInv` says that a process
between truncation and write has nothing left to do, and `StepCompletes` goes through the actions: but for
the developer's own, only the write puts a seal on disk.

**`CommitGate` (in `SealProofs`).** Every step of `CommitGate` is a step of `Seal`, a developer's step that touches the hook
alone, or `git commit` making the commit it has waited with (`GateStepOf`). The last two only end the calm
of subcommands, so `VerifyInv`, `RecordInv` and `CleanInv` carry over: **`GateVerifyIsSound`,
`GateRecordIsSound`, `GateNeverDirty`**. **`GateTypeCorrect` (`[]GateTypeOK`)** adds that the hook's verify runs
only while a commit waits for it, and **`GateIsSound` (`[]GateSound`)** rests on `GateInv`: while the commit is
undisturbed the hook's verify is too (`GateCalm`), and after it has passed the tree still conforms to the
seal it was checked against. This is where the hook needs `VerifyIsSound`'s invariant rather than its
conclusion: the verdict must still be true when git goes on.

**`WatchProofs`: `WatchTypeCorrect` (`[]TypeOK`)**, and **`WatchIsMonitor`**: with one shell at a time,
`Spec => Monitored`, that is, `Watch` implements `DriftMonitor` under the mapping *pins = what the running
shell holds, or else what the state file gives when loaded; alarms = the paths it has found failing*. The
mapping needs `Extends`: what a running shell holds extends what the state file would give, so that a kill
forgets pins and never swaps one. `NextRefines` maps every step to a step of the monitor or a stutter.
**`PassPinsWhatItSaw` (`PassPins`)** holds for any number of shells: by `PinsInv` an undisturbed run without a
failure holds the present content of every path it is done with, and the file it writes over is torn by
its own truncation only.

**`AttestProofs`: `AttestTypeCorrect` (`[]TypeOK`)** and **`PassesOnlySigned` (`[]PassMeansSigned`)**: a
verify-attestation that is about to pass holds a statement that some sign run made with the key it was
given, for any number of shells, keys, files and edits. `AttestInv` adds two things to `TypeOK`: what each
command holds at its step (`RunOK`: a key from the moment it is drawn or read, a statement among the signed
ones when `sign` has made its signature and when `verify-attestation` has checked one), and `AttSigned`: the
signature in the attestation on disk was made by a sign run. The second is needed because the environment
may exchange the payload under a signature at any time; `EnvironmentInv` shows that the signature under it
stays genuine, so that `VerifyEnvelope` accepts the payload only if it is the one that was signed.
**`PassIsCovered` (`[]PassCoversRecord`)**, **`AttestRoundTrips` (`[]RoundTrips`)** and **`KeygenWritesPairs`
(`KeygenPairs`)** are about undisturbed runs. `CalmInv` says that what such a run has read is still on disk
(`VerdictAgrees`) and that a keygen's private half is in its own file (`KeygenAgrees`); that its key has
signed nothing needs that no key is in a file, in hand or under a signature before it is drawn.

**`ScannerProofs`: `StripSound` (`[]SeesTheCode`)**, for comments nested to any
depth. `SeesTheCode` speaks of one character and is not inductive: `InStep` says how the two lexers' modes correspond
while a line is plain, which is what a step needs of the one before, and `RustInv` what Rust's own flags imply
of each other. `StepsTogether` takes the cases of both lexers side by side.

**`ScannerProofs`: `ScanTypeCorrect` (`[]TypeOK`) and `ScanBlocksApart` (`[]BlocksInOrder`)**, for files of any length and braces in any disorder. `BlocksInOrder` is not inductive: a block
is appended while a counter runs, so `ScanInv` adds that what was found so far ends before the block that is open.

**`ScannerProofs`: `ScanIsExact` (`[]ExactFindings`)**, for tidy files of any length. A file is `Tidy` if it is laid out as the
counters expect: the signature of a function is on one line, its braces close on its last line and not before, nothing else looks
like a signature, `#[cfg(test)]` stands on an item with braces of its own, and a function is deployed or not as a
whole. `Level` is how deep a line stands in braces, counted from the top of the file, while the code counts from
each item anew; `LevelIs` gives the recursion its equation, and the loops' counters are differences of levels.
`TidyInv` says what each loop has found in a tidy file: the open block is the part read of an item (`OpenItem`) or of a function
(`OpenFunction`), every item of tests read is in a block and every block holds nothing but tests (`Covered`, `OnlyTests`), the
spans found are the functions of Rust, each once and whole (`OnlyFunctions`, `Gathered`), and the findings so far
are those of the deployed among them. `ItemWithin` is the step from the items to the functions: an item that holds the first
line of a function holds all of it. TLC has checked `TidyInv` on the files of `scanners`.
Nothing is said of files that are not tidy: `source_whole_claim` and `OnlyTestsSkipped` of section 4 are about such files.

**`ScannerProofs`: `WasmIsCorrect` (`[]WasmCorrect`)**, for artifacts of any length below the machine word, any base of the number
encoding, any number of sections and bodies and any values of the section ids that differ. The format is stated the way
it is written: `Encodes` divides a number into groups from the lowest up, with zeros above if the encoder pads, while `Uleb` adds the
groups it finds. `NumberRead` shows that it finds the number back and stops behind it: what it has added from the last
group down to one is what the encoder had left to write there. A section's size is then where its content ends (`PieceRead`,
`SectionKnown`, `BodyKnown`), and neither sum leaves the word, since the artifact does not. The invariant is `WasmInv`:
whatever the bytes, all positions are in the artifact and in order (`WasmFits`); of a whole module the reader is
at the start of a section or a body, the counts are those of the sections before it, and the traps those of the bodies before
it (`Located`). That a trap is two bytes of one body comes from the slice being that body (`BodyKnown`). TLC has checked
`WasmInv` on the artifacts of `scanners`.
**`ScanPanicsOutOfWord` (`[]PanicsOutOfWord`)** is the safety half of `WasmEnds`: a slice is out of bounds only if the sum before it left
the word (`BadExtentLeaves`).

**`LineageProofs`** is about what `build_audit` computes, for any number of events. The prover cannot use the
library's induction theorems, which take an operator, so `NatSetInduction` states induction for a set (derived
from the well-foundedness of strict inclusion on finite sets), and `MergingDef` derives from it that the
recursive function `Merging` satisfies its equation. `RecursionSolved` does the
same for any recursion over a range of numbers, for `WalkPattern`, `Level` and the number of `Uleb` below and above. On these rest `PositionsHaveMax` and `AscendingProperties` (every set of
positions has a maximum and is enumerated in order, each once), **`CollapseCondenses`** (`collapse_noops` keeps the
wasms in order, makes up none, and keeps the current row; by induction on the rows), **`CurrentIsDeployed`**
(the verdict on a lineage is whether the deployed wasm is sealed, with and without gaps) and
**`ConsistentLineage`** (a consistent chain of events is reported as one version per event that changed the
wasm, with the dates of these events).

**`AuditProofs`: `AuditTypeCorrect` (`[]TypeOK`), `VerdictIsSound` (`[]VerdictFollowsLedger`), `LineageIsTrue`
(`[]TrueLineage`), `ConsistencyIsCompleteness`
(`[]ConsistentIsComplete`)**, for chains, pages and scans of any length. None of these is
inductive; `AuditInv` is (`AuditInvariant`; TLC checked it on the run `audit` first). Its parts: `ChainInv`, what the ledger guarantees (ledgers ascend
along the chain, an upgrade starts from the wasm the one before left: `ReplacedIsDeployed`, `CloseKeepsChain`);
`ScanInv`, that the positions collected ascend and stay behind the cursor, so that the sort by ledger changes nothing
(`SortKeeps`) and a page served twice adds nothing (`CollectedFacts`); `CalmInv`, that an undisturbed scan has
collected every upgrade of the window up to its cursor (`NothingMissed`); and `ReportInv`, that the deployed
wasm is the one of the moment `top` it was read, after all that was collected. `PageKeepsInv` is the core of it.
From `AuditInv`, `LineageIsTrue` follows in two halves: `RowMoments` names a moment for each row at
which its wasm was deployed, in order, and `CollapseCondenses` carries that through the merge, whatever was
missed; and an undisturbed report is consistent (`CalmIsConsistent`), so that `ConsistentReport` and
`HistoryIsLived` bring both sides of `CalmLineage` into one form, `Lived`. `ConsistencyIsCompleteness`
assumes nothing of what moved: if no wasm came back, different changes led to different wasms (`NoReturnMeans`, by
counting), so that two moments with the same wasm deployed have no change between them (`NoChangeBetween`,
which rests on `ChangesDecide`, an induction along the chain); each link a consistent report checks is such a pair, so that
nothing was missed since its first event (`NoneMissed`), and `LivedSuffix` compares the rows.

**`FormatProofs`** is about the conversions to the outside.
**`ClockFollowsCalendar` (`ClockSpec => FollowsCalendar`)**: the refinement of `Calendar`, on every day there
will be. `Falls` names the era, year, month and day of a day number; every day number has them (`EveryDayFalls`),
the divisions of `utc_rfc3339` find them (`YearUnique`, `MonthUnique`, `DateFalls`), the next day's are the
next ones (`NextFalls`), and its months are the calendar's (`MonthsAgree`); `TimeGoesOn` does the same for the
columns of the time of day and their carries.
**`DecodersAgree` (`[]DecodersCorrect` of `Onchain`)**, for hashes of any length, any bytes and any record: what is
read from an entry or a topic is what it encodes (`EntryRead`, `WasmRead`, `UpdateRead`), what `sim.rs` encodes is
read (`EntryWritten`, `EventWritten`), and `OnchainInv` carries what was read through the steps of the command.
**`SimulationIsCorrect` (`[]SimulationCorrect` of `Simulate`)**, for records of any length up to `MaxLen`, itself
any number: the events made up link (`SimUpgrades`), so that `ConsistentLineage` gives the rows and `FirstsOfRuns`
makes them the artifacts without repetitions (`ShownIsDistinct`); a wasm no artifact seals is never merged into
the rows before it (`UnseenIsLast`).

**`TreeProofs`: `AnalysisIsCorrect` (`[]AnalysisCorrect` of `AnalyzeTree`) and `AnalysisIsSealedWhole`
(`SealsAllOrNothing`)**, for any manifest, finite set of entries, directories, rules and directives, and every order in
which the directories are read. What `AnalysisCorrect` says of a sealed entry holds because of what was visited
before it, so `TreeInv` adds the walk half way (`HalfWay`): the source files visited are those the
stack leads to no more, and what is found so far is what they say, each finding once. `Reach` is the least set closed under
going down; an entry that is visited is not reached again (`Apart`, which `RootApart` gives the root's entries
and `ApartOpened` keeps, since a path is in one directory), so that one visit takes one file from what
lies ahead (`ReachOpened`), and the stack keeps its directories apart (`SpreadWithout`, `SpreadDown`, `SpreadUp`).
`SourcesReached` shows that the declarative `Sources`, as many goes down as there are entries, is that reach. `KeptIs` says what
the loop over suppressions keeps, by induction on the findings of a file, and `SortedIs` that sorting permutes and, of
findings that are distinct, puts each before the next (`PlacesOnce`: counting what comes up to each position numbers the
positions). The other parts of `TreeInv` follow the queue: the entries are those of the artifacts gone
through (`EntriesFollow`), the exit code is theirs (`NoneSealedYet`, `VerdictRises`), and when the queue is empty these
are the chosen ones (`JudgedAreChosen`). TLC has checked `TreeInv` on the instance of `trees`, for part of the options.
**`NothingIsPassedOver` (`[]NothingPassedOver`)** needs an invariant of its own, `ReadInv`: of the artifacts gone through
nothing was passed over, and what an artifact's walk reached and could not read still lies ahead of it (`AheadOf`), where the walk
ends when it comes to it; with an empty stack nothing lies ahead (`ReadEnd`).

**`TreeProofs`: `DigestIsCorrect` (`[]DigestCorrect` of `TreeDigest`)**, for any paths of which none begins another (no file
turns into a directory), any names that are skipped and any number of edits and outputs. `DigestCorrect` is not inductive: it says nothing of a walk
that goes on. `DigestInv` adds what a walk has done and has left: what waits in the open directories is apart from
all else that waits and from what was found (`ApartInv`, which gives `FilesOnce`, without which sorting would not be
`InPathOrder`); nothing of a skipped directory waits and only sources were found (`SourcesInv`); a source nobody
edited was found or lies below something that waits (`FoundInv`); if nobody edited any, what waits and what was
found is there, so that nothing fails (`CalmInv`); and what was hashed is a prefix of what was found, in order, as
it still is unless it was edited (`HashInv`). There is one lemma for each action, and `DigestIsCorrectIn` draws the three
properties from the invariant when the walk ends. TLC has checked `DigestInv` on the instance of `trees`.

**`TreeProofs`: `OneChangeIsSeen` (`[]OneChangeSeen` of `TreeDigest`)**: an undisturbed digest is not that of the
tree with one source changed, added or removed, whatever the contents are sequences of. The bytes that are hashed are one
chunk after the other (`DigestRuns`, by induction on what is found); the chunks before and after that of the one source
are the same and cancel (`CancelLeft`, `CancelRight`), and within it only the content is left.

**`TreeProofs`: `ScaffoldIsCorrect` (`[]ScaffoldCorrect` of `Scaffold`) and `LoadedWorks` (`LoadedIsUsable`)**, for
any names, depth, workspace tables and directories. The two are about what the patterns of `scaffold.rs` compute,
and most of the work is there. `SegmentMatchesIs`: a segment with stars, whose parts are sought one after the other
from the left, matches exactly the names of which the declarative `GlobMatches` says so, which takes any places for the parts that are in
order. The search takes the leftmost place each time (`Leftmost`), so that whoever finds places for the parts up to one finds it
no earlier (`LeftmostNext`, `AfterPartsLeftmost`, by induction on the parts). `WalkPatternIs`: the walk of a member over
the directories finds exactly those on a path that `PathMatches` accepts. `Leads` is `PathMatches` cut at the directory the
walk has come to, and has an equation for each kind of segment (`LeadsEnd`, `LeadsStar`, `LeadsOne`); `WalkDown` goes
through the calls by induction on the segments and the levels that are left, which bound how deep they nest, and
`WalkPatternDef` gives the recursive function that stands for them its equation (`RecursionSolved`). The invariant,
`ScaffoldInv`, adds to `ScaffoldCorrect` that a manifest whose only contract is a root that no pattern finds again validates
(`RootLoads`), which rests on that root being picked once (`PickedIs`) and named by its own directory.

### Only model-checked

* Liveness (`GateEnds`, `AlertDelivered`, `AuditEnds`, `WasmEnds`): fairness and ENABLED are beyond the prover.

Every invariant that a run checks is proved. The
provers have one more limit that shaped the modules: the library's induction theorems and the folds of the
community modules take operators as parameters, which they cannot instantiate, so the modules use recursive functions.

## 6. Not modelled

* `report`, `explain`, and the rendering of text, JSON, Markdown, HTML and SARIF: layout of results that are
  modelled where they arise; argument parsing.
* The text of a source line: which of the words the rules look for it has is taken as given per line.
* SHA-256, Ed25519, base64, hexadecimal and StrKey: injective, symbolic, or decodes and does not.
* Spellings of a digest (`runner.rs:279` compares letter for letter, `onchain.rs` without case): noted
  under `hazards`.
* Hand-written manifests with an empty `build_command` or paths with `..`.
* Hook managers, git's own crash behaviour, network details below "a request fails".

## 7. Plan

Order of work, most important behaviour first. Done: 1-12; 13 and 14 are left.

1. `Seal` with its runs and proofs: the core of the tool.
2. `Watch`, with `DriftMonitor` as its abstract specification and the refinement proof.
3. `Audit` and `Lineage`: a remote state that moves between requests.
4. `CommitGate` on top of `Seal`, with `hook status`.
5. `Attest`.
6. `Simulate` on top of `Lineage`.
7. `Scaffold` and the validation of manifests.
8. `Strip`, `SourceScan` and `AnalyzeTree`, with proofs: the analyser from a character to a sealed entry.
9. `TreeDigest`: the walk, the exclusions and the bytes that are hashed.
10. `WasmScan`, `Onchain`, and `Clock` with `Calendar`: the hand-written readers.
11. The statements of section 4; the runs over families of modules.
12. Proofs of every safety property of `Seal`, `CommitGate`, `Watch`, `Attest` and `Audit`; of what `Lineage`
    computes; of `Clock`, `Onchain`, `Simulate`, `Scaffold`, `TreeDigest`, `AnalyzeTree`, `Strip`, `SourceScan` and `WasmScan`.
13. An abstract specification of the seal (sealed, drifted, conforming) that `Seal` refines for undisturbed runs.
14. `Release`: record, sign, publish, verify-attestation and onchain-verify composed over one record.
