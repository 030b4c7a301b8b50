----------------------------- MODULE SourceScan ------------------------------
(***************************************************************************)
(* analyze_file of src/src/analyze.rs: the stripped lines of one source    *)
(* file (Strip), the extents of its test blocks and of its functions, and  *)
(* the rules over each function and each line.  A line is what those loops *)
(* tell apart: its braces, whether it looks like a signature or carries    *)
(* #[cfg(test)], and the words the rules look for.  Two more fields say    *)
(* what the line is to Rust, for the properties only.                      *)
(***************************************************************************)
EXTENDS Integers, SequencesExt

CONSTANTS
  Files,  \* the files analysed, sequences of lines
  None    \* Option::None

\* What the rules look for on a line.  A set of words that is only ever looked for
\* as a whole has one name: "holds" is balance or allowance in any letter case,
\* "state_set" a set on persistent() or instance(), "withdraw" that word, burn or
\* mint.  A line may say several of them.
Facts == {"require_auth", "state_set", "set", "admin_key", "symbol", "storage", "instance", "get",
          "transfer", "transfer_call", "transfer_from", "withdraw", "burn", "approve", "rotate",
          "amount", "balance", "holds", "units", "try_into", "checked", "arith",
          "invoke", "call", "non_reentrant", "Address", "to", "oracle", "price", "fresh",
          "panic", "unwrap", "unsafe"}

Line == [opens : Nat, closes : Nat, fn : BOOLEAN, test : BOOLEAN, facts : SUBSET Facts,
         part : {"head", "body", "none"},  \* of a function: its first line, a later one
         deployed : BOOLEAN]               \* not compiled for tests only

ASSUME FilesAssumption == Files \subseteq Seq(Line) /\ None \notin Nat

VARIABLES
  file,      \* the lines
  pc,        \* the loop the analysis is in
  i,         \* its counter
  depth,     \* depth, start and saw_open of the two brace counters
  start,
  sawOpen,
  ranges,    \* test_ranges
  spans,     \* functions
  findings   \* what was pushed so far: line number and rule

vars == <<file, pc, i, depth, start, sawOpen, ranges, spans, findings>>
counter == <<depth, start, sawOpen>>

At(j) == file[j + 1]
Has(j, f) == f \in At(j).facts
Blocks == Nat \X Nat

Rules == {"MissingAuth", "Reentrancy", "UncheckedTransfer", "AdminKeyNeverRotated",
          "MissingTokenBalanceCheck", "UncheckedEnvCaller", "OraclePriceFeed",
          "FlashLoanApprove", "PanicOnInput", "UncheckedArithmetic",
          "MissingReentrancyGuard", "HardcodedStorageKey", "UnsafeRawPointer",
          "PanicOnStorageRead"}

TypeOK ==
  /\ file \in Seq(Line)
  /\ pc \in {"tests", "functions", "rules", "done"}
  /\ i \in Nat /\ i <= IF pc = "rules" THEN Len(spans) ELSE Len(file)
  /\ depth \in Nat
  /\ start \in Nat \cup {None}
  /\ sawOpen \in BOOLEAN
  /\ ranges \in Seq(Blocks) /\ spans \in Seq(Blocks)
  /\ findings \subseteq [line : Nat, rule : Rules]

Init ==
  /\ file \in Files
  /\ pc = "tests" /\ i = 0
  /\ depth = 0 /\ start = None /\ sawOpen = FALSE
  /\ ranges = <<>> /\ spans = <<>> /\ findings = {}

\* Definitions whose names end in Fault are the definition after them with a
\* plausible bug in it; the model never uses them.
-----------------------------------------------------------------------------
(***************************************************************************)
(* The blocks                                                              *)
(***************************************************************************)
Opened == (IF start = None THEN 0 ELSE depth) + At(i).opens
LeftFault == Opened - At(i).closes
Left == IF Opened < At(i).closes THEN 0 ELSE Opened - At(i).closes
BlockFault == <<IF start = None THEN i ELSE start, i>>
Block == <<IF start = None THEN i ELSE start, i + 1>>

Reset == start' = None /\ depth' = 0 /\ sawOpen' = FALSE
Go(loop) == pc' = loop /\ i' = 0

\* One line of test_block_ranges: the block ends once a brace was seen and all
\* are closed.
InTest == start # None \/ At(i).test
BraceSeen == (start # None /\ sawOpen) \/ At(i).opens > 0

EndsTestFault == Left = 0
EndsTest == BraceSeen /\ Left = 0

TestLine ==
  /\ pc = "tests" /\ i < Len(file)
  /\ \/ InTest /\ EndsTest /\ ranges' = Append(ranges, Block) /\ Reset
     \/ /\ InTest /\ ~EndsTest
        /\ start' = Block[1] /\ depth' = Left /\ sawOpen' = BraceSeen
        /\ UNCHANGED ranges
     \/ ~InTest /\ UNCHANGED <<counter, ranges>>
  /\ i' = i + 1
  /\ UNCHANGED <<file, pc, spans, findings>>

TestsDone ==
  /\ pc = "tests" /\ i = Len(file)
  /\ Go("functions") /\ Reset
  /\ UNCHANGED <<file, ranges, spans, findings>>

\* One line of split_functions: the block ends when all braces are closed, or
\* more of them than were opened.  What is open at the end of the file is no
\* function.
InFn == start # None \/ At(i).fn

FunctionLine ==
  /\ pc = "functions" /\ i < Len(file)
  /\ \/ InFn /\ Left = 0 /\ spans' = Append(spans, Block) /\ Reset
     \/ /\ InFn /\ Left > 0
        /\ start' = Block[1] /\ depth' = Left
        /\ UNCHANGED <<sawOpen, spans>>
     \/ ~InFn /\ UNCHANGED <<counter, spans>>
  /\ i' = i + 1
  /\ UNCHANGED <<file, pc, ranges, findings>>

FunctionsDone ==
  /\ pc = "functions" /\ i = Len(file)
  /\ Go("rules") /\ Reset
  /\ UNCHANGED <<file, ranges, spans, findings>>
-----------------------------------------------------------------------------
(***************************************************************************)
(* The rules                                                               *)
(***************************************************************************)
Mutates(j) ==
  \/ Has(j, "state_set") \/ Has(j, "transfer")
  \/ Has(j, "try_into") /\ (Has(j, "amount") \/ Has(j, "balance"))

\* No line of the function J asks for the authorization its changes need.
Unauthorized(J) == (\E j \in J : Mutates(j)) /\ ~(\E j \in J : Has(j, "require_auth"))

\* The rules of run_function_rules over the lines J of a function.
FunctionRules(J) ==
  LET some(f) == \E j \in J : Has(j, f)
      sends == some("transfer_call") \/ some("transfer_from")
      prices == \E j \in J : Has(j, "oracle") \/ (Has(j, "invoke") /\ Has(j, "price"))
  IN  {r \in Rules :
         \/ r = "MissingAuth" /\ Unauthorized(J)
         \/ r = "Reentrancy" /\ Unauthorized(J) /\ some("call")
         \/ r = "UncheckedTransfer" /\ sends /\ ~some("holds")
         \/ /\ r = "AdminKeyNeverRotated" /\ ~some("rotate")
            /\ \E j \in J : Has(j, "set") /\ Has(j, "admin_key")
         \/ /\ r = "MissingTokenBalanceCheck" /\ (some("burn") \/ sends)
            /\ ~some("holds") /\ ~some("checked")
         \/ /\ r = "UncheckedEnvCaller" /\ Unauthorized(J)
            /\ \E j \in J : Has(j, "Address") /\ (Has(j, "transfer_call") \/ Has(j, "to"))
         \/ r = "OraclePriceFeed" /\ Unauthorized(J) /\ prices /\ ~some("fresh")
         \/ r = "FlashLoanApprove" /\ some("approve") /\ some("call")}

\* Its rules over one line, which do not ask about the test blocks.
LoopRules(j) ==
  LET has(fs) == At(j).facts \cap fs # {}
  IN  {r \in {"PanicOnInput", "UncheckedArithmetic"} :
         \/ /\ r = "PanicOnInput" /\ ~Has(j, "require_auth")
            /\ \/ Has(j, "panic")
               \/ Has(j, "unwrap") /\ has({"amount", "balance", "transfer", "withdraw"})
         \/ /\ r = "UncheckedArithmetic" /\ ~Has(j, "checked")
            /\ has({"amount", "balance", "units"}) /\ Has(j, "arith")}

\* The rules of run_line_rules.
LineRules(j) ==
  {r \in Rules :
     \/ r = "MissingReentrancyGuard" /\ Has(j, "call") /\ ~Has(j, "non_reentrant")
     \/ r = "HardcodedStorageKey" /\ Has(j, "symbol") /\ (Has(j, "storage") \/ Has(j, "instance"))
     \/ r = "UnsafeRawPointer" /\ Has(j, "unsafe")
     \/ r = "PanicOnStorageRead" /\ Has(j, "get") /\ Has(j, "storage") /\ Has(j, "unwrap")}

Lines(b) == b[1]..(b[2] - 1)
In(j, blocks) == \E n \in 1..Len(blocks) : j \in Lines(blocks[n])

\* A finding names its line by its number, a finding of a function the first.
Number(j) == j + 1
Found(J, rules(_)) == UNION {[line : {Number(j)}, rule : rules(j)] : j \in J}

\* A function that starts in a test block is skipped, and its lines in one by
\* the rules of run_line_rules.
Skipped(b) == In(b[1], ranges)
LineFindings(b) == Found({j \in Lines(b) : ~In(j, ranges)}, LineRules)
FunctionFindings(b) ==
  [line : {Number(b[1])}, rule : FunctionRules(Lines(b))] \cup Found(Lines(b), LoopRules)

FunctionLoop ==
  /\ pc = "rules" /\ i < Len(spans)
  /\ LET b == spans[i + 1]
     IN  findings' = findings \cup (IF Skipped(b) THEN {} ELSE FunctionFindings(b) \cup LineFindings(b))
  /\ i' = i + 1
  /\ UNCHANGED <<file, pc, counter, ranges, spans>>

\* The loop is over.  A file without functions had only the rules over its
\* lines, which were given no test blocks.
Done ==
  /\ pc = "rules" /\ i = Len(spans)
  /\ findings' = IF spans = <<>> THEN Found(0..(Len(file) - 1), LineRules) ELSE findings
  /\ Go("done")
  /\ UNCHANGED <<file, counter, ranges, spans>>

Next == TestLine \/ TestsDone \/ FunctionLine \/ FunctionsDone \/ FunctionLoop \/ Done

Spec == Init /\ [][Next]_vars
-----------------------------------------------------------------------------
(***************************************************************************)
(* Properties                                                              *)
(***************************************************************************)
Last0 == Len(file) - 1
Starts == {j \in 0..Last0 : At(j).part = "head"}

\* The lines of the function of Rust that starts on line s.
Extent(s) == {j \in s..Last0 : \A k \in (s + 1)..j : At(k).part = "body"}

\* How many more braces were opened than closed before a line.
Level ==
  LET level[j \in 0..Len(file)] ==
        IF j = 0 THEN 0 ELSE level[j - 1] + At(j - 1).opens - At(j - 1).closes
  IN  level

\* The item that #[cfg(test)] on line a stands on, up to the line that closes it.
Closes(a, m) == (\E k \in a..m : At(k).opens > 0) /\ Level[m + 1] <= Level[a]
Item(a) == {m \in a..Last0 : \A k \in a..(m - 1) : ~Closes(a, k)}
Attributes == {j \in 0..Last0 : At(j).test}

\* A function laid out as the counters expect: its signature is on one line, its
\* braces close on its last line and not before, and #[cfg(test)] stands on all
\* of it or on none.
TidyFunction(s) ==
  /\ At(s).fn
  /\ \A j \in Extent(s) : /\ Level[j + 1] > Level[s] <=> j + 1 \in Extent(s)
                          /\ At(j).deployed = At(s).deployed
  /\ ~At(s).deployed => \E a \in Attributes : s \in Item(a)

\* #[cfg(test)] stands on an item with braces of its own.
TidyItem(a) ==
  /\ \E m \in Item(a) : Closes(a, m)
  /\ \A m \in Item(a) : ~At(m).deployed /\ (Closes(a, m) \/ Level[m + 1] >= Level[a])

\* Nothing but a function has an argument list after the word fn.
Tidy ==
  /\ \A s \in Starts : TidyFunction(s)
  /\ \A a \in Attributes : TidyItem(a)
  /\ \A j \in 0..Last0 : At(j).fn => \E s \in Starts : j \in Extent(s)

\* Blocks are non-empty, in the file, in order and apart, so that no line is
\* looked at twice and the slices &lines[start..end] are in bounds
\* (analyze.rs:433-455).
InOrder(blocks) ==
  \A n \in 1..Len(blocks) :
    /\ blocks[n][1] < blocks[n][2] /\ blocks[n][2] <= Len(file)
    /\ \A m \in 1..(n - 1) : blocks[m][2] <= blocks[n][1]
BlocksInOrder == InOrder(spans) /\ InOrder(ranges)

\* Of a tidy file with a function in it exactly the deployed code is judged,
\* function by function: every finding of the rules over the functions of Rust
\* is there with the number of its line, and none of a test (analyze.rs:388-465).
ExactFindings ==
  pc = "done" /\ Tidy /\ Starts # {} =>
    findings = UNION {[line : {s + 1}, rule : FunctionRules(Extent(s))]
                        \cup UNION {[line : {j + 1}, rule : LoopRules(j) \cup LineRules(j)] : j \in Extent(s)}
                      : s \in {t \in Starts : At(t).deployed}}
-----------------------------------------------------------------------------
(***************************************************************************)
(* Statements of the source and documentation the code does not keep       *)
(***************************************************************************)

\* "still run the line-local rules across the whole file, but exclude test
\* regions" (analyze.rs:429-430).
TestRegionsExcluded ==
  pc = "done" /\ spans = <<>> => \A f \in findings : At(f.line - 1).deployed

\* "Index ranges (half-open) covering #[cfg(test)] module blocks"
\* (analyze.rs:525): no deployed code is in one.
OnlyTestsSkipped == \A n \in 1..Len(ranges) : \A j \in Lines(ranges[n]) : ~At(j).deployed

\* "A (start, end) index range into lines covering one top-level fn"
\* (analyze.rs:563): the whole function, its body included.
WholeFunctions ==
  pc = "rules" => \A s \in Starts : \E n \in 1..Len(spans) : Extent(s) \subseteq Lines(spans[n])

\* "the function grants a token allowance ... and then performs an external call
\* in the same function" (analyze.rs:869-871).
CallAfterApprove ==
  \A f \in findings : f.rule = "FlashLoanApprove" =>
    \E j, k \in Extent(f.line - 1) : j <= k /\ Has(j, "approve") /\ Has(k, "call")
=============================================================================
