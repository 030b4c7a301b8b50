----------------------------- MODULE AnalyzeTree -----------------------------
(***************************************************************************)
(* `sorseal analyze` (src/src/main.rs) and the walk of src/src/analyze.rs: *)
(* the artifacts of the manifest in turn, their source trees in whatever   *)
(* order read_dir gives, the suppressions of each file, the findings of    *)
(* the binary, the gate, the SARIF report and the sealing.  What the rules *)
(* find in a file is given (SourceScan), and so is what is found in a      *)
(* binary (WasmScan).                                                      *)
(***************************************************************************)
EXTENDS Integers, SequencesExt

CONSTANTS
  Manifest,   \* the ids of the artifacts, in order
  Root,       \* Root[a]: the source root of artifact a
  Entries,    \* of the directories below the roots
  Children,   \* Children[d]: what directory d may hold
  Trees,      \* which entries may be there together
  Kind,       \* Kind[e]: "dir", "closed" (a directory that cannot be listed), "rs",
              \* "unreadable" (.rs, but no text) or "other"
  Rank,       \* of a path, or a rule: its place among the others
  Raw,        \* Raw[e]: what the rules push for file e, in order: line and rule
  Directive,  \* Directive[e][l]: what line l of e tells to ignore
  Binary,     \* Binary[a]: what is found in the wasm, Unread if it is no wasm
  Grade,      \* Grade[r]: the severity of rule r, from 0 (Low) to 3 (Critical)
  Ignorable,  \* the entries an --ignore names
  Default, Unread

Artifacts == ToSet(Manifest)
Rules == DOMAIN Grade
Wasm == "artifact.wasm"
Files == {e \in Entries : Kind[e] = "rs"} \cup {Wasm}
Findings == [file : Files, line : Nat, rule : Rules]

\* The entries are paths: each but the root is in one directory, and none is below
\* itself.  A rule finds the same on one line once, since no line is in two functions
\* (SourceScan), and in a binary once (wasm_scan.rs:146-187).
ASSUME AnalyzeAssumption ==
  /\ Manifest \in Seq(STRING) /\ IsInjective(Manifest)
  /\ IsFiniteSet(Entries) /\ Wasm \notin Entries
  /\ Trees \subseteq SUBSET Entries
  /\ Children \in [Entries -> SUBSET Entries]
  /\ \A d, e \in Entries : Children[d] \cap Children[e] # {} => d = e
  /\ \A a \in Artifacts :
       /\ Root[a] \in Entries
       /\ \E S \in SUBSET (Entries \ {Root[a]}) :
            Children[Root[a]] \subseteq S /\ \A d \in S : Children[d] \subseteq S
  /\ Grade \in [Rules -> 0..3]
  /\ \A S \in {Files, Rules} : \A x, y \in S : Rank[x] \in Nat /\ (Rank[x] = Rank[y] => x = y)
  /\ \A e \in Entries : Raw[e] \in Seq([line : Nat, rule : Rules]) /\ IsInjective(Raw[e])
  /\ \A a \in Artifacts : Binary[a] # Unread =>
       Binary[a] \in Seq([file : {Wasm}, line : Nat, rule : Rules]) /\ IsInjective(Binary[a])

VARIABLES
  opts,      \* the options of the command
  present,   \* the entries there are
  pc,        \* what the command does next
  queue,     \* the artifacts it has still to analyse
  stack,     \* what walk has still to visit, innermost directory last
  walked,    \* walked_any
  findings,  \* of the current artifact: file, line, rule
  pending,   \* the entries to seal: id, findings, worst severity, digest
  sealed,    \* what the record has got of them
  exit       \* the exit code so far

vars == <<opts, present, pc, queue, stack, walked, findings, pending, sealed, exit>>

Options ==
  [artifact : Artifacts \cup {Default, "unknown"}, failOn : (0..3) \cup {Default},
   noIgnore : BOOLEAN, wasm : BOOLEAN, seal : BOOLEAN, sarif : BOOLEAN, ignore : BOOLEAN]

TypeOK ==
  /\ opts \in Options
  /\ present \in Trees
  /\ pc \in {"artifact", "walk", "done"}
  /\ queue \in Seq(Artifacts)
  /\ stack \in Seq(SUBSET Entries)
  /\ walked \in BOOLEAN
  /\ findings \in Seq(Findings)
  /\ pending \in Seq([id : Artifacts, digest : Seq(Findings), worst : -1..3])
  /\ sealed \in {<<>>, pending}
  /\ exit \in 0..2

\* Definitions whose names end in Fault are the definition after them with a
\* plausible bug in it; the model never uses them.

Init ==
  /\ opts \in Options /\ present \in Trees
  /\ pc = "artifact" /\ queue = Manifest
  /\ stack = <<>> /\ walked = FALSE /\ findings = <<>>
  /\ pending = <<>> /\ sealed = <<>> /\ exit = 0
-----------------------------------------------------------------------------
(***************************************************************************)
(* The walk                                                                *)
(***************************************************************************)
Listing(d) == Children[d] \cap present
Selected(a) == opts.artifact \in {Default, a}
Readable(a) == Root[a] \in present /\ Kind[Root[a]] = "dir"

\* apply_inline_suppressions looks at the findings of the file alone, the line
\* above each.
Ignored(e, f) ==
  /\ ~opts.noIgnore /\ f.line >= 2 /\ f.line - 1 \in DOMAIN Directive[e]
  /\ Directive[e][f.line - 1] \cap {"all", f.rule} # {}
Retain(e, s, f) == IF Ignored(e, f) THEN s ELSE Append(s, f)
Kept(e) ==
  LET retained[n \in 0..Len(Raw[e])] ==
        IF n = 0 THEN <<>> ELSE Retain(e, retained[n - 1], Raw[e][n])
  IN  retained[Len(Raw[e])]

In(e, s) == [n \in 1..Len(s) |-> [file |-> e, line |-> s[n].line, rule |-> s[n].rule]]
AnalyzeFileFault(e) == SelectSeq(findings \o In(e, Raw[e]), LAMBDA f : ~Ignored(e, f))
AnalyzeFile(e) == findings \o In(e, Kept(e))

FailFault == UNCHANGED <<pc, exit>>
Fail == pc' = "done" /\ exit' = 2

\* An artifact that --artifact does not name is passed over.
Artifact ==
  /\ pc = "artifact" /\ queue # <<>>
  /\ \/ /\ Selected(Head(queue)) /\ Readable(Head(queue))
        /\ stack' = <<Listing(Root[Head(queue)])>>
        /\ walked' = FALSE /\ findings' = <<>>
        /\ pc' = "walk"
        /\ UNCHANGED <<queue, exit>>
     \/ /\ Selected(Head(queue)) /\ ~Readable(Head(queue))
        /\ Fail
        /\ UNCHANGED <<queue, stack, walked, findings>>
     \/ /\ ~Selected(Head(queue)) /\ queue' = Tail(queue)
        /\ UNCHANGED <<stack, walked, findings, pc, exit>>
  /\ UNCHANGED <<opts, present, pending, sealed>>

\* One entry of the innermost directory, in the order read_dir gives.
Innermost == stack[Len(stack)]
Without(e) == [stack EXCEPT ![Len(stack)] = @ \ {e}]
Skipped(e) == opts.ignore /\ e \in Ignorable

Visit(e) ==
  /\ \/ /\ Skipped(e) \/ Kind[e] = "other"
        /\ stack' = Without(e)
        /\ UNCHANGED <<walked, findings, pc, exit>>
     \/ /\ ~Skipped(e) /\ Kind[e] = "dir"
        /\ stack' = Append(Without(e), Listing(e))
        /\ UNCHANGED <<walked, findings, pc, exit>>
     \/ /\ ~Skipped(e) /\ Kind[e] = "closed"
        /\ Fail
        /\ UNCHANGED <<stack, walked, findings>>
     \/ /\ ~Skipped(e) /\ Kind[e] = "rs"
        /\ walked' = TRUE /\ findings' = AnalyzeFile(e)
        /\ stack' = Without(e)
        /\ UNCHANGED <<pc, exit>>
     \/ /\ ~Skipped(e) /\ Kind[e] = "unreadable"
        /\ walked' = TRUE /\ stack' = Without(e)
        /\ Fail
        /\ UNCHANGED findings
  /\ UNCHANGED <<opts, present, queue, pending, sealed>>

Walk ==
  /\ pc = "walk" /\ stack # <<>>
  /\ \/ \E e \in Innermost : Visit(e)
     \/ /\ Innermost = {} /\ stack' = Front(stack)
        /\ UNCHANGED <<opts, present, pc, queue, walked, findings, pending, sealed, exit>>
-----------------------------------------------------------------------------
(***************************************************************************)
(* The verdict                                                             *)
(***************************************************************************)
Before(f, g) ==
  \/ Rank[f.file] < Rank[g.file]
  \/ f.file = g.file /\ f.line < g.line
  \/ f.file = g.file /\ f.line = g.line /\ Rank[f.rule] < Rank[g.rule]

\* A stable sort: the place of an element is the number of those not after it.
Sorted(s) ==
  LET upTo(i) == {j \in 1..Len(s) : Before(s[j], s[i]) \/ (j <= i /\ ~Before(s[i], s[j]))}
  IN  [k \in 1..Len(s) |-> s[CHOOSE i \in 1..Len(s) : Cardinality(upTo(i)) = k]]

\* The binary that cannot be read, or is none, adds a warning and no finding.
BinaryFindings(a) == IF opts.wasm /\ Binary[a] # Unread THEN Binary[a] ELSE <<>>

Worst(S) == Max({Grade[f.rule] : f \in S} \cup {-1})
Sealable(a, s) == [id |-> a, digest |-> s, worst |-> Worst(ToSet(s))]

\* has_findings_at_or_above.
Gate(S) == opts.failOn # Default /\ \E f \in S : Grade[f.rule] >= opts.failOn

\* max_code.
Raised(code) == Max({exit, code})

ArtifactDone ==
  /\ pc = "walk" /\ stack = <<>>
  /\ LET a == Head(queue)
         all == Sorted(Sorted(findings) \o BinaryFindings(a))
     IN  /\ findings' = all
         /\ pending' = IF opts.seal THEN Append(pending, Sealable(a, all)) ELSE pending
         /\ exit' = IF ~walked THEN Raised(2) ELSE IF Gate(ToSet(all)) THEN Raised(1) ELSE exit
  /\ queue' = Tail(queue) /\ pc' = "artifact"
  /\ UNCHANGED <<opts, present, stack, walked, sealed>>

\* The SARIF report is written, then the record is saved; either write may fail.
FinishFault ==
  /\ pc = "artifact" /\ sealed' = pending /\ pc' = "done"
  /\ UNCHANGED <<opts, present, queue, stack, walked, findings, pending, exit>>
Finish ==
  /\ pc = "artifact" /\ queue = <<>>
  /\ \/ sealed' = pending /\ pc' = "done" /\ UNCHANGED exit
     \/ (opts.sarif \/ opts.seal) /\ Fail /\ UNCHANGED sealed
  /\ UNCHANGED <<opts, present, queue, stack, walked, findings, pending>>

Next == Artifact \/ Walk \/ ArtifactDone \/ Finish

Spec == Init /\ [][Next]_vars
-----------------------------------------------------------------------------
(***************************************************************************)
(* Properties                                                              *)
(***************************************************************************)
Chosen ==
  IF opts.artifact = Default THEN Manifest
  ELSE IF opts.artifact \in Artifacts THEN <<opts.artifact>> ELSE <<>>

\* The entries of artifact a that no ignored directory hides, and its source files.
Deeper(S) == S \cup UNION {Listing(d) : d \in {e \in S : Kind[e] = "dir" /\ ~Skipped(e)}}
Reached(a) ==
  LET below[n \in 0..Cardinality(Entries)] ==
        IF n = 0 THEN Listing(Root[a]) ELSE Deeper(below[n - 1])
  IN  below[Cardinality(Entries)]
Sources(a) == {e \in Reached(a) : Kind[e] = "rs" /\ ~Skipped(e)}

\* What the analysis of artifact a is to say: the findings of each file that no
\* directive of that same file names, and those of the binary.
Expected(a) ==
  LET heeded(e) == {f \in ToSet(Raw[e]) : ~Ignored(e, f)}
      said(e) == {[file |-> e, line |-> f.line, rule |-> f.rule] : f \in heeded(e)}
  IN  ToSet(BinaryFindings(a)) \cup UNION {said(e) : e \in Sources(a)}

\* What is sealed of an artifact is what its sources and its binary say, in the
\* order of the code, by file, line and rule, whatever order the directories are
\* read in, and no directive of one file hides a finding of another
\* (analyze.rs:326-344, 424-426, 457-462).
SealsTheTree ==
  \A n \in 1..Len(pending) :
    /\ ToSet(pending[n].digest) = Expected(pending[n].id)
    /\ \A i, j \in 1..Len(pending[n].digest) : i < j => Before(pending[n].digest[i], pending[n].digest[j])
    /\ pending[n].worst = Worst(Expected(pending[n].id))

\* The exit code is that of the worst artifact of those the code takes, all of the
\* manifest where --artifact names none: 2 if any had no source, else 1 if any has
\* a finding the gate stops (main.rs:640-645, 723-742).
WorstArtifactDecides ==
  pc = "artifact" /\ queue = <<>> =>
    exit = IF \E a \in ToSet(Chosen) : Sources(a) = {} THEN 2
           ELSE IF \E a \in ToSet(Chosen) : Gate(Expected(a)) THEN 1
           ELSE 0

\* Entries and exit code are those of the tree and the options.
AnalysisCorrect == TypeOK /\ SealsTheTree /\ WorstArtifactDecides

\* An analysis is sealed as a whole or not at all: one entry per artifact the code
\* takes (main.rs:640-645), in the order of the manifest, and none of a run that
\* failed before the record was saved (main.rs:623-635, 769-774).
SealsAllOrNothing ==
  [][sealed' # sealed =>
       /\ [n \in 1..Len(sealed') |-> sealed'[n].id] = Chosen
       /\ pc' = "done" /\ exit' = exit]_vars

\* A command that ends without an error, or seals, has read all it reached: no
\* source root was missing, no directory could not be listed and no source not be
\* read, of any artifact it took, unless an --ignore names it; what was found till
\* then is not the result (analyze.rs:357-375, 394, main.rs:647).
Legible(a) ==
  Readable(a) /\ \A e \in Reached(a) : Kind[e] \in {"closed", "unreadable"} => Skipped(e)
NothingPassedOver ==
  pc = "done" /\ (exit # 2 \/ sealed # <<>>) => \A a \in ToSet(Chosen) : Legible(a)
-----------------------------------------------------------------------------
(***************************************************************************)
(* Statements of the source and documentation the code does not keep       *)
(***************************************************************************)

\* "Walk source_root for .rs files, skipping target/, .git/, builds"
\* (ARCHITECTURE.md:126): what a build leaves in target/ is not judged.
BuildOutputSkipped ==
  \A n \in 1..Len(findings) : findings[n].file \notin UNION {Children[d] : d \in Ignorable}

\* "A scan that walked no source is an error" (main.rs:723).
NoSourceIsAnError == pc = "done" /\ exit = 0 => \E a \in ToSet(Chosen) : Sources(a) # {}

\* "surface it rather than reporting a clean but meaningless ... no findings"
\* (analyze.rs:321-323): what is sealed as clean was looked at.
CleanWasWalked ==
  pc = "done" => \A n \in 1..Len(sealed) : sealed[n].worst = -1 => Sources(sealed[n].id) # {}

\* "select a single artifact (--artifact) or use the first" (ARCHITECTURE.md:125):
\* without the option only the first is judged and sealed.
FirstArtifactByDefault ==
  opts.artifact = Default => \A n \in 1..Len(pending) : pending[n].id = Manifest[1]

\* "Serialize findings deterministically (sorted by rule -> file -> line)"
\* (ARCHITECTURE.md:145).
SortedByRule ==
  \A n \in 1..Len(pending) : \A i, j \in 1..Len(pending[n].digest) :
    i < j => Rank[pending[n].digest[i].rule] <= Rank[pending[n].digest[j].rule]

\* "a changed source changes it" (PRD.md:139, criterion 14): every source of a sealed artifact
\* has a part in its digest.
EverySourceCounts ==
  \A n \in 1..Len(sealed) : \A e \in Sources(sealed[n].id) :
    \E i \in 1..Len(sealed[n].digest) : sealed[n].digest[i].file = e
=============================================================================
