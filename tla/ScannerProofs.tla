--------------------------- MODULE ScannerProofs ----------------------------
(***************************************************************************)
(* Proofs about the three scanners of the analyser: Strip, for texts of    *)
(* every length and comments nested to every depth; SourceScan, for files  *)
(* of every length and braces in every number and order, and what it finds *)
(* in files that are laid out tidily; and WasmScan, for artifacts of every *)
(* length and every module that one may encode.                            *)
(***************************************************************************)
EXTENDS Strip, SourceScan, WasmScan, LineageProofs

-----------------------------------------------------------------------------
(***************************************************************************)
(* Strip: the stripped line is the code of the line as far as the line is  *)
(* plain.                                                                  *)
(***************************************************************************)

\* Rust's lexer counts the comments it is in, and skips only the quote that
\* opens a raw string.
RustInv ==
  /\ rmode = "block" <=> nesting # 0
  /\ rmode = "raw" /\ rskip => c = "quote"

LexInv == LexTypeOK /\ RustInv /\ InStep /\ SeesTheCode

-----------------------------------------------------------------------------
LEMMA InitLex == LexInit => LexInv
<1> SUFFICES ASSUME LexInit PROVE LexInv
  OBVIOUS
<1> USE DEF LexInit
<1>1. LexTypeOK
  BY DEF LexTypeOK, Modes
<1>2. RustInv
  BY DEF RustInv
<1>3. InStep
  BY DEF InStep
<1>4. SeesTheCode
  BY DEF SeesTheCode
<1>5. QED
  BY <1>1, <1>2, <1>3, <1>4 DEF LexInv

LEMMA Window == LexTypeOK /\ Read => win' \in Chars \X Chars \X Chars /\ c' = peek
<1> SUFFICES ASSUME LexTypeOK, Read PROVE win' \in Chars \X Chars \X Chars /\ c' = peek
  OBVIOUS
<1>1. PICK next \in Chars : win' = <<win[2], win[3], next>>
  BY DEF Read
<1>2. win[2] \in Chars /\ win[3] \in Chars
  BY DEF LexTypeOK
<1>3. QED
  BY <1>1, <1>2 DEF c, peek

LEMMA CodeType == LexTypeOK /\ Strip => mode' \in Modes /\ skip' \in BOOLEAN /\ kept' \in BOOLEAN
<1> SUFFICES ASSUME LexTypeOK, Strip PROVE mode' \in Modes /\ skip' \in BOOLEAN /\ kept' \in BOOLEAN
  OBVIOUS
<1> USE DEF LexTypeOK, Becomes, Modes
<1>1. CASE c = "newline" /\ NextLine
  BY <1>1 DEF NextLine
<1>2. CASE skip /\ SkipNext
  BY <1>2 DEF SkipNext
<1>3. CASE InCode
  BY <1>3 DEF InCode
<1>4. CASE Becomes("line", FALSE, FALSE)
  BY <1>4
<1>5. CASE InBlock
  BY <1>5 DEF InBlock
<1>6. CASE InLiteral("quote") \/ InLiteral("tick")
  BY <1>6 DEF InLiteral
<1>7. QED
  BY <1>1, <1>2, <1>3, <1>4, <1>5, <1>6 DEF Strip

LEMMA RustType ==
  LexTypeOK /\ RustInv /\ Rust /\ Read =>
    /\ rmode' \in Modes \cup {"raw"} /\ nesting' \in Nat /\ rskip' \in BOOLEAN
    /\ real' \in BOOLEAN /\ comment' \in BOOLEAN
    /\ RustInv'
<1> SUFFICES ASSUME LexTypeOK, RustInv, Rust, c' = peek
             PROVE  /\ rmode' \in Modes \cup {"raw"} /\ nesting' \in Nat /\ rskip' \in BOOLEAN
                    /\ real' \in BOOLEAN /\ comment' \in BOOLEAN
                    /\ RustInv'
  BY Window
<1> USE DEF LexTypeOK, RustInv, Lexes, Is, Modes
<1>1. CASE c = "newline" /\ RustLine
  BY <1>1 DEF RustLine
<1>2. CASE c # "newline" /\ rskip /\ Lexes(rmode, FALSE, nesting) /\ Is(FALSE, comment)
  BY <1>2
<1>3. CASE rmode = "code" /\ RustInCode
  <2>1. CASE Pair("r", "quote") /\ Lexes("raw", TRUE, 0) /\ Is(TRUE, FALSE)
    BY <2>1 DEF Pair
  <2>2. CASE Lexes("block", TRUE, 1) /\ Is(FALSE, TRUE)
    <3>1. rmode' = "block" /\ rskip' = TRUE /\ nesting' = 1 /\ real' = FALSE /\ comment' = TRUE
      BY <2>2
    <3>2. 1 \in Nat /\ 1 # 0
      OBVIOUS
    <3>3. RustInv'
      BY <3>1
    <3>4. QED
      BY <3>1, <3>2, <3>3
  <2>3. ASSUME NEW m \in {"code", "line", "string", "char"}, NEW isCode \in BOOLEAN,
               NEW isComment \in BOOLEAN, Lexes(m, FALSE, 0), Is(isCode, isComment)
        PROVE  /\ rmode' \in Modes \cup {"raw"} /\ nesting' \in Nat /\ rskip' \in BOOLEAN
               /\ real' \in BOOLEAN /\ comment' \in BOOLEAN
               /\ RustInv'
    BY <2>3
  <2>4. QED
    BY <1>3, <2>1, <2>2, <2>3 DEF RustInCode
<1>4. CASE rmode = "line" /\ Lexes("line", FALSE, 0) /\ Is(FALSE, TRUE)
  BY <1>4
<1>5. CASE rmode = "block" /\ RustInBlock
  <2>1. nesting \in Nat /\ nesting # 0 /\ real' = FALSE /\ comment' = TRUE
    BY <1>5 DEF RustInBlock
  <2>2. CASE Lexes("block", TRUE, nesting + 1)
    <3>1. nesting + 1 \in Nat /\ nesting + 1 # 0
      BY <2>1
    <3>2. rmode' = "block" /\ rskip' = TRUE /\ nesting' = nesting + 1
      BY <2>2
    <3>3. QED
      BY <2>1, <3>1, <3>2
  <2>3. CASE Lexes(IF nesting = 1 THEN "code" ELSE "block", TRUE, nesting - 1)
    <3>1. nesting - 1 \in Nat /\ (nesting - 1 # 0 <=> nesting # 1)
      BY <2>1
    <3>2. rmode' = (IF nesting = 1 THEN "code" ELSE "block") /\ rskip' = TRUE /\ nesting' = nesting - 1
      BY <2>3
    <3>3. rmode' \in {"code", "block"} /\ (rmode' = "block" <=> nesting' # 0)
      BY <3>1, <3>2
    <3>4. QED
      BY <2>1, <3>1, <3>2, <3>3
  <2>4. CASE Lexes("block", FALSE, nesting)
    BY <2>1, <2>4
  <2>5. QED
    BY <1>5, <2>2, <2>3, <2>4 DEF RustInBlock
<1>6. CASE rmode = "string" /\ RustInLiteral("quote", TRUE)
  BY <1>6 DEF RustInLiteral
<1>7. CASE rmode = "char" /\ RustInLiteral("tick", TRUE)
  BY <1>7 DEF RustInLiteral
<1>8. CASE rmode = "raw" /\ RustInLiteral("quote", FALSE)
  BY <1>8 DEF RustInLiteral
<1>9. QED
  BY <1>1, <1>2, <1>3, <1>4, <1>5, <1>6, <1>7, <1>8 DEF Rust

LEMMA PlainType == LexTypeOK /\ Watch => plain' \in BOOLEAN
  BY DEF LexTypeOK, Watch

\* On a plain line the two lexers take every character the same way.
LEMMA StepsTogether ==
  LexTypeOK /\ RustInv /\ InStep /\ Strip /\ Rust /\ Watch => InStep' /\ SeesTheCode'
<1> SUFFICES ASSUME LexTypeOK, RustInv, InStep, Strip, Rust, Watch, plain'
             PROVE  InStep' /\ SeesTheCode'
  BY DEF InStep, SeesTheCode
<1> USE DEF InStep, SeesTheCode, Becomes, Lexes, Is
<1>1. CASE c = "newline"
  <2>1. Becomes("code", FALSE, FALSE) /\ rskip' = FALSE /\ real' = FALSE /\ rmode' = "code"
    BY <1>1 DEF Strip, NextLine, Rust, RustLine, Watch
  <2>2. nesting' \in {0, 1}
    BY <1>1 DEF Rust, RustLine, Watch, RustInv
  <2>3. QED
    BY <2>1, <2>2
<1>2. ASSUME c # "newline" PROVE InStep' /\ SeesTheCode'
  <2>1. plain /\ ~Lifetime /\ ~Nested /\ ~RawEscape
    BY <1>2 DEF Watch
  <2>2. /\ rmode # "raw" => mode = rmode /\ (skip <=> rskip)
        /\ rmode = "raw" => mode = (IF rskip THEN "code" ELSE "string") /\ ~skip
    BY <2>1
  <2>3. CASE rskip /\ rmode # "raw"
    <3>1. mode' = rmode /\ skip' = FALSE /\ kept' = FALSE
      BY <1>2, <2>2, <2>3 DEF Strip, SkipNext
    <3>2. rmode' = rmode /\ rskip' = FALSE /\ real' = FALSE /\ nesting' = nesting
      BY <1>2, <2>3 DEF Rust
    <3>3. QED
      BY <3>1, <3>2, <2>1, <2>3
  <2>4. CASE rskip /\ rmode = "raw"
    <3>1. c = "quote" /\ mode = "code" /\ ~skip
      BY <2>2, <2>4 DEF RustInv
    <3>2. mode' = "string" /\ skip' = FALSE /\ kept' = FALSE
      BY <3>1 DEF Strip, InCode, Pair
    <3>3. rmode' = "raw" /\ rskip' = FALSE /\ real' = FALSE /\ nesting' = nesting
      BY <1>2, <2>4 DEF Rust
    <3>4. QED
      BY <2>1, <3>2, <3>3
  <2>5. CASE ~rskip /\ rmode = "code"
    <3>1. mode = "code" /\ ~skip
      BY <2>2, <2>5
    <3>2. InCode
      BY <1>2, <3>1 DEF Strip
    <3>3. RustInCode
      BY <1>2, <2>5 DEF Rust
    <3>4. c = "tick" => Literal
      BY <2>1, <2>5 DEF Lifetime
    <3>5. QED
      BY <3>2, <3>3, <3>4 DEF InCode, RustInCode, Pair
  <2>6. CASE ~rskip /\ rmode = "line"
    BY <1>2, <2>2, <2>6 DEF Strip, Rust
  <2>7. CASE ~rskip /\ rmode = "block"
    <3>1. mode = "block" /\ ~skip
      BY <2>2, <2>7
    <3>2. InBlock /\ RustInBlock /\ ~Pair("slash", "star")
      BY <1>2, <3>1, <2>7, <2>1 DEF Strip, Rust, Nested
    <3>3. CASE Pair("star", "slash")
      <4>1. mode' = "code" /\ skip' = TRUE /\ kept' = FALSE
        BY <3>2, <3>3 DEF InBlock
      <4>2. nesting = 1
        BY <2>1, <2>7 DEF RustInv
      <4>3. rmode' = "code" /\ rskip' = TRUE /\ real' = FALSE /\ nesting' = 0
        BY <3>2, <3>3, <4>2 DEF RustInBlock
      <4>4. QED
        BY <4>1, <4>3
    <3>4. CASE ~Pair("star", "slash")
      <4>1. mode' = "block" /\ skip' = FALSE /\ kept' = FALSE
        BY <3>2, <3>4 DEF InBlock
      <4>2. rmode' = "block" /\ rskip' = FALSE /\ real' = FALSE /\ nesting' = nesting
        BY <3>2, <3>4 DEF RustInBlock
      <4>3. QED
        BY <4>1, <4>2, <2>1
    <3>5. QED
      BY <3>3, <3>4
  <2>8. CASE ~rskip /\ rmode = "string"
    <3>1. InLiteral("quote") /\ mode = "string" /\ RustInLiteral("quote", TRUE)
      BY <1>2, <2>2, <2>8 DEF Strip, Rust
    <3>2. QED
      BY <3>1, <2>8 DEF InLiteral, RustInLiteral
  <2>9. CASE ~rskip /\ rmode = "char"
    <3>1. InLiteral("tick") /\ mode = "char" /\ RustInLiteral("tick", TRUE)
      BY <1>2, <2>2, <2>9 DEF Strip, Rust
    <3>2. QED
      BY <3>1, <2>9 DEF InLiteral, RustInLiteral
  <2>10. CASE ~rskip /\ rmode = "raw"
    <3>1. InLiteral("quote") /\ mode = "string" /\ RustInLiteral("quote", FALSE)
      BY <1>2, <2>2, <2>10 DEF Strip, Rust
    <3>2. c # "backslash"
      BY <2>1, <2>10 DEF RawEscape
    <3>3. QED
      BY <3>1, <3>2, <2>10 DEF InLiteral, RustInLiteral
  <2>11. QED
    BY <2>3, <2>4, <2>5, <2>6, <2>7, <2>8, <2>9, <2>10 DEF LexTypeOK, Modes
<1>3. QED
  BY <1>1, <1>2

LEMMA NextLex == LexInv /\ [LexNext]_lexVars => LexInv'
<1> SUFFICES ASSUME LexInv, [LexNext]_lexVars PROVE LexInv'
  OBVIOUS
<1>1. CASE LexNext
  <2>1. LexTypeOK'
    BY <1>1, Window, CodeType, RustType, PlainType DEF LexInv, LexNext, LexTypeOK
  <2>2. RustInv' /\ InStep' /\ SeesTheCode'
    BY <1>1, RustType, StepsTogether DEF LexInv, LexNext
  <2>3. QED
    BY <2>1, <2>2 DEF LexInv
<1>2. CASE UNCHANGED lexVars
  BY <1>2 DEF LexInv, LexTypeOK, RustInv, InStep, SeesTheCode, lexVars, code, rust, c
<1>3. QED
  BY <1>1, <1>2

\* The strengthened invariant holds in every reachable state.
THEOREM LexCorrect == LexSpec => []LexInv
<1>1. QED
  BY InitLex, NextLex, PTL DEF LexSpec

\* The rules see exactly the code of a line as far as the line is plain
\* (strip_comments_and_strings, analyze.rs:227-288), in texts of every length.
THEOREM StripSound == LexSpec => []SeesTheCode
<1>1. LexInv => SeesTheCode
  BY DEF LexInv
<1>2. QED
  BY <1>1, LexCorrect, PTL
-----------------------------------------------------------------------------
(***************************************************************************)
(* SourceScan: type correctness, and that the test blocks and the          *)
(* functions found are slices of the file, in order and apart.             *)
(***************************************************************************)

\* Everything found so far ends at or before line n.
EndBefore(blocks, n) == \A m \in 1..Len(blocks) : blocks[m][2] <= n

\* The first line of the block the loop is in, or the next line it looks at.
Position == IF start = None THEN i ELSE start

PositionOK ==
  /\ start # None => start < i
  /\ pc = "tests" => EndBefore(ranges, Position) /\ spans = <<>>
  /\ pc = "functions" => EndBefore(spans, Position)
  /\ pc \in {"rules", "done"} => start = None

ScanInv == TypeOK /\ BlocksInOrder /\ PositionOK

-----------------------------------------------------------------------------
\* A block after all the others keeps the blocks in order.
LEMMA AppendInOrder ==
  ASSUME NEW blocks \in Seq(Blocks), NEW from \in Nat, NEW to \in Nat,
         file \in Seq(Line), InOrder(blocks), EndBefore(blocks, from), from < to, to <= Len(file)
  PROVE  /\ Append(blocks, <<from, to>>) \in Seq(Blocks)
         /\ InOrder(Append(blocks, <<from, to>>))
         /\ EndBefore(Append(blocks, <<from, to>>), to)
<1> DEFINE b == <<from, to>>
           more == Append(blocks, b)
<1>1. b \in Blocks
  BY DEF Blocks
<1>2. more \in Seq(Blocks) /\ Len(more) = Len(blocks) + 1 /\ more[Len(blocks) + 1] = b
  BY <1>1
<1>3. \A m \in 1..Len(blocks) : more[m] = blocks[m] /\ blocks[m] \in Blocks
  BY <1>1
<1>4. \A m \in 1..Len(more) : m \in 1..Len(blocks) \/ m = Len(blocks) + 1
  BY <1>2
<1> HIDE DEF more
<1>5. ASSUME NEW n \in 1..Len(more)
      PROVE  /\ more[n][1] < more[n][2] /\ more[n][2] <= Len(file)
             /\ \A m \in 1..(n - 1) : more[m][2] <= more[n][1]
             /\ more[n][2] <= to
  <2>1. CASE n \in 1..Len(blocks)
    <3>1. \A m \in 1..(n - 1) : m \in 1..Len(blocks)
      BY <2>1
    <3>2. blocks[n][2] <= from /\ blocks[n][2] \in Nat
      BY <2>1, <1>3 DEF EndBefore, Blocks
    <3>3. more[n] = blocks[n]
      BY <2>1, <1>3
    <3>4. /\ blocks[n][1] < blocks[n][2] /\ blocks[n][2] <= Len(file)
          /\ \A m \in 1..(n - 1) : blocks[m][2] <= blocks[n][1]
      BY <2>1 DEF InOrder
    <3>5. \A m \in 1..(n - 1) : more[m] = blocks[m]
      BY <3>1, <1>3
    <3>6. more[n][2] <= to
      BY <3>2, <3>3
    <3>7. QED
      BY <3>3, <3>4, <3>5, <3>6
  <2>2. CASE n = Len(blocks) + 1
    <3>1. \A m \in 1..(n - 1) : m \in 1..Len(blocks)
      BY <2>2
    <3>2. more[n][1] = from /\ more[n][2] = to
      BY <2>2, <1>2
    <3>3. QED
      BY <3>1, <3>2, <1>3 DEF EndBefore
  <2>3. QED
    BY <1>4, <2>1, <2>2
<1>6. QED
  BY <1>2, <1>5 DEF InOrder, EndBefore, more

LEMMA InitScan == Init => ScanInv
<1> SUFFICES ASSUME Init PROVE ScanInv
  OBVIOUS
<1> USE DEF Init
<1>1. file \in Seq(Line) /\ None \notin Nat
  BY FilesAssumption
<1>2. TypeOK
  <2>1. Len(file) \in Nat /\ 0 <= Len(file)
    BY <1>1
  <2>2. <<>> \in Seq(Blocks)
    OBVIOUS
  <2>3. QED
    BY <1>1, <2>1, <2>2 DEF TypeOK
<1>3. BlocksInOrder /\ PositionOK
  BY DEF BlocksInOrder, InOrder, PositionOK, EndBefore
<1>4. QED
  BY <1>2, <1>3 DEF ScanInv

\* The brace counter stays a number, and a block it ends or goes on with
\* begins at its position.
LEMMA Counter ==
  ASSUME TypeOK, PositionOK, i < Len(file)
  PROVE  /\ Left \in Nat /\ BraceSeen \in BOOLEAN
         /\ Block = <<Position, i + 1>> /\ Block[1] = Position
         /\ Position \in Nat /\ Position < i + 1 /\ i + 1 \in Nat /\ i + 1 <= Len(file)
<1>1. i \in Nat /\ Len(file) \in Nat /\ i + 1 \in 1..Len(file)
  BY DEF TypeOK
<1>2. At(i) \in Line
  BY <1>1 DEF At, TypeOK
<1>3. At(i).opens \in Nat /\ At(i).closes \in Nat
  BY <1>2 DEF Line
<1>4. Opened \in Nat
  BY <1>3 DEF Opened, TypeOK
<1>5. Left \in Nat
  BY <1>3, <1>4 DEF Left
<1>6. Position \in Nat /\ Position < i + 1
  BY <1>1 DEF Position, PositionOK, TypeOK
<1>7. BraceSeen \in BOOLEAN
  BY DEF BraceSeen
<1>8. Block = <<Position, i + 1>>
  BY DEF Block, Position
<1>9. Block[1] = Position
  BY <1>8
<1>10. QED
  BY <1>1, <1>5, <1>6, <1>7, <1>8, <1>9

\* Whatever the rules find is a finding of a line.
LEMMA RulesType ==
  ASSUME TypeOK, NEW J \in SUBSET Nat
  PROVE  /\ Found(J, LineRules) \subseteq [line : Nat, rule : Rules]
         /\ Found(J, LoopRules) \subseteq [line : Nat, rule : Rules]
<1>1. \A j \in J : Number(j) \in Nat /\ LineRules(j) \subseteq Rules /\ LoopRules(j) \subseteq Rules
  BY DEF Number, LineRules, LoopRules, Rules
<1>2. \A j \in J : /\ [line : {Number(j)}, rule : LineRules(j)] \subseteq [line : Nat, rule : Rules]
                   /\ [line : {Number(j)}, rule : LoopRules(j)] \subseteq [line : Nat, rule : Rules]
  BY <1>1
<1>3. QED
  BY <1>2 DEF Found

LEMMA BlockRulesType ==
  ASSUME TypeOK, NEW b \in Blocks
  PROVE  FunctionFindings(b) \cup LineFindings(b) \subseteq [line : Nat, rule : Rules]
<1>1. b[1] \in Nat /\ b[2] \in Nat
  BY DEF Blocks
<1>2. Lines(b) \in SUBSET Nat /\ {j \in Lines(b) : ~In(j, ranges)} \in SUBSET Nat
  BY <1>1 DEF Lines
<1>3. Number(b[1]) \in Nat /\ FunctionRules(Lines(b)) \subseteq Rules
  BY <1>1 DEF Number, FunctionRules
<1>4. [line : {Number(b[1])}, rule : FunctionRules(Lines(b))] \subseteq [line : Nat, rule : Rules]
  BY <1>3
<1>5. QED
  BY <1>2, <1>4, RulesType DEF FunctionFindings, LineFindings

-----------------------------------------------------------------------------
LEMMA StepTestLine == ScanInv /\ TestLine => ScanInv'
<1> SUFFICES ASSUME ScanInv, TestLine PROVE ScanInv'
  OBVIOUS
<1> USE DEF ScanInv
<1>0. /\ Left \in Nat /\ BraceSeen \in BOOLEAN /\ Block = <<Position, i + 1>> /\ Block[1] = Position
      /\ Position \in Nat /\ Position < i + 1 /\ i + 1 \in Nat /\ i + 1 <= Len(file)
  BY Counter DEF TestLine
<1>1. /\ pc = "tests" /\ pc' = pc /\ file' = file /\ spans' = spans /\ findings' = findings
      /\ i' = i + 1 /\ i \in Nat
  BY DEF TestLine, TypeOK
<1>2. EndBefore(ranges, Position) /\ spans = <<>> /\ InOrder(ranges) /\ ranges \in Seq(Blocks)
  BY <1>1 DEF PositionOK, BlocksInOrder, TypeOK
<1>3. CASE ranges' = Append(ranges, Block) /\ Reset
  <2>1. ranges' \in Seq(Blocks) /\ InOrder(ranges') /\ EndBefore(ranges', i + 1)
    BY <1>0, <1>2, <1>3, AppendInOrder DEF TypeOK
  <2>2. start' = None /\ depth' = 0 /\ sawOpen' = FALSE
    BY <1>3 DEF Reset
  <2>3. TypeOK'
    BY <1>0, <1>1, <2>1, <2>2 DEF TypeOK
  <2>4. BlocksInOrder'
    BY <1>1, <2>1 DEF BlocksInOrder, InOrder
  <2>5. PositionOK'
    BY <1>1, <1>2, <2>1, <2>2 DEF PositionOK, Position, EndBefore
  <2>6. QED
    BY <2>3, <2>4, <2>5
<1>4. CASE start' = Block[1] /\ depth' = Left /\ sawOpen' = BraceSeen /\ UNCHANGED ranges
  <2>1. start' = Position /\ start' \in Nat /\ start' # None
    BY <1>0, <1>4, FilesAssumption
  <2>2. TypeOK'
    BY <1>0, <1>1, <1>4, <2>1 DEF TypeOK
  <2>3. BlocksInOrder'
    BY <1>1, <1>4 DEF BlocksInOrder, InOrder
  <2>4. PositionOK'
    BY <1>0, <1>1, <1>2, <1>4, <2>1 DEF PositionOK, Position, EndBefore
  <2>5. QED
    BY <2>2, <2>3, <2>4
<1>5. CASE ~InTest /\ UNCHANGED <<counter, ranges>>
  <2>1. start = None /\ UNCHANGED <<depth, start, sawOpen, ranges>> /\ Position = i
    BY <1>5 DEF InTest, counter, Position
  <2>2. TypeOK'
    BY <1>0, <1>1, <2>1 DEF TypeOK
  <2>3. BlocksInOrder'
    BY <1>1, <2>1 DEF BlocksInOrder, InOrder
  <2>4. EndBefore(ranges, i + 1)
    <3>1. \A m \in 1..Len(ranges) : ranges[m][2] \in Nat
      BY <1>2 DEF Blocks
    <3>2. QED
      BY <1>1, <1>2, <2>1, <3>1 DEF EndBefore
  <2>5. PositionOK'
    BY <1>1, <1>2, <2>1, <2>4 DEF PositionOK, Position, EndBefore
  <2>6. QED
    BY <2>2, <2>3, <2>5
<1>6. QED
  BY <1>3, <1>4, <1>5 DEF TestLine

LEMMA StepFunctionLine == ScanInv /\ FunctionLine => ScanInv'
<1> SUFFICES ASSUME ScanInv, FunctionLine PROVE ScanInv'
  OBVIOUS
<1> USE DEF ScanInv
<1>0. /\ Left \in Nat /\ Block = <<Position, i + 1>> /\ Block[1] = Position
      /\ Position \in Nat /\ Position < i + 1 /\ i + 1 \in Nat /\ i + 1 <= Len(file)
  BY Counter DEF FunctionLine
<1>1. /\ pc = "functions" /\ pc' = pc /\ file' = file /\ ranges' = ranges /\ findings' = findings
      /\ i' = i + 1 /\ i \in Nat
  BY DEF FunctionLine, TypeOK
<1>2. EndBefore(spans, Position) /\ InOrder(spans) /\ spans \in Seq(Blocks)
  BY <1>1 DEF PositionOK, BlocksInOrder, TypeOK
<1>3. CASE spans' = Append(spans, Block) /\ Reset
  <2>1. spans' \in Seq(Blocks) /\ InOrder(spans') /\ EndBefore(spans', i + 1)
    BY <1>0, <1>2, <1>3, AppendInOrder DEF TypeOK
  <2>2. start' = None /\ depth' = 0 /\ sawOpen' = FALSE
    BY <1>3 DEF Reset
  <2>3. TypeOK'
    BY <1>0, <1>1, <2>1, <2>2 DEF TypeOK
  <2>4. BlocksInOrder'
    BY <1>1, <2>1 DEF BlocksInOrder, InOrder
  <2>5. PositionOK'
    BY <1>1, <2>1, <2>2 DEF PositionOK, Position, EndBefore
  <2>6. QED
    BY <2>3, <2>4, <2>5
<1>4. CASE start' = Block[1] /\ depth' = Left /\ UNCHANGED <<sawOpen, spans>>
  <2>1. start' = Position /\ start' \in Nat /\ start' # None
    BY <1>0, <1>4, FilesAssumption
  <2>2. TypeOK'
    BY <1>0, <1>1, <1>4, <2>1 DEF TypeOK
  <2>3. BlocksInOrder'
    BY <1>1, <1>4 DEF BlocksInOrder, InOrder
  <2>4. PositionOK'
    BY <1>0, <1>1, <1>2, <1>4, <2>1 DEF PositionOK, Position, EndBefore
  <2>5. QED
    BY <2>2, <2>3, <2>4
<1>5. CASE ~InFn /\ UNCHANGED <<counter, spans>>
  <2>1. start = None /\ UNCHANGED <<depth, start, sawOpen, spans>> /\ Position = i
    BY <1>5 DEF InFn, counter, Position
  <2>2. TypeOK'
    BY <1>0, <1>1, <2>1 DEF TypeOK
  <2>3. BlocksInOrder'
    BY <1>1, <2>1 DEF BlocksInOrder, InOrder
  <2>4. EndBefore(spans, i + 1)
    <3>1. \A m \in 1..Len(spans) : spans[m][2] \in Nat
      BY <1>2 DEF Blocks
    <3>2. QED
      BY <1>1, <1>2, <2>1, <3>1 DEF EndBefore
  <2>5. PositionOK'
    BY <1>1, <2>1, <2>4 DEF PositionOK, Position, EndBefore
  <2>6. QED
    BY <2>2, <2>3, <2>5
<1>6. QED
  BY <1>3, <1>4, <1>5 DEF FunctionLine

\* Between the loops the counters start over.
LEMMA StepLoops == ScanInv /\ (TestsDone \/ FunctionsDone) => ScanInv'
<1> SUFFICES ASSUME ScanInv, TestsDone \/ FunctionsDone PROVE ScanInv'
  OBVIOUS
<1> USE DEF ScanInv
<1>1. /\ UNCHANGED <<file, ranges, spans, findings>> /\ i' = 0
      /\ start' = None /\ depth' = 0 /\ sawOpen' = FALSE /\ pc' \in {"functions", "rules"}
      /\ pc' = "functions" => spans = <<>>
  BY DEF TestsDone, FunctionsDone, Go, Reset, PositionOK
<1>2. TypeOK'
  <2>1. Len(file) \in Nat /\ 0 <= Len(file) /\ Len(spans) \in Nat /\ 0 <= Len(spans)
    BY DEF TypeOK
  <2>2. 0 <= IF pc' = "rules" THEN Len(spans) ELSE Len(file)
    BY <2>1
  <2>3. QED
    BY <1>1, <2>1, <2>2 DEF TypeOK
<1>3. BlocksInOrder'
  BY <1>1 DEF BlocksInOrder, InOrder
<1>4. PositionOK'
  BY <1>1 DEF PositionOK, Position, EndBefore
<1>5. QED
  BY <1>2, <1>3, <1>4

LEMMA StepRules == ScanInv /\ (FunctionLoop \/ Done) => ScanInv'
<1> SUFFICES ASSUME ScanInv, FunctionLoop \/ Done PROVE ScanInv'
  OBVIOUS
<1> USE DEF ScanInv
<1>1. /\ UNCHANGED <<file, depth, start, sawOpen, ranges, spans>>
      /\ pc' \in {"rules", "done"} /\ start = None
  BY DEF FunctionLoop, Done, Go, counter, PositionOK
<1>2. findings' \subseteq [line : Nat, rule : Rules]
  <2>1. CASE FunctionLoop
    <3>1. spans[i + 1] \in Blocks
      BY <2>1 DEF FunctionLoop, TypeOK
    <3>2. findings' \subseteq findings \cup FunctionFindings(spans[i + 1]) \cup LineFindings(spans[i + 1])
      BY <2>1 DEF FunctionLoop
    <3>3. QED
      BY <3>1, <3>2, BlockRulesType DEF TypeOK
  <2>2. CASE Done
    <3>1. 0..(Len(file) - 1) \in SUBSET Nat
      BY DEF TypeOK
    <3>2. QED
      BY <2>2, <3>1, RulesType DEF Done, TypeOK
  <2>3. QED
    BY <2>1, <2>2
<1>3. i' \in Nat /\ i' <= IF pc' = "rules" THEN Len(spans') ELSE Len(file')
  <2>1. CASE Done
    <3>1. Len(file) \in Nat /\ 0 <= Len(file) /\ i' = 0 /\ pc' = "done" /\ file' = file
      BY <2>1 DEF Done, Go, TypeOK
    <3>2. QED
      BY <3>1
  <2>2. CASE FunctionLoop
    <3>1. i \in Nat /\ Len(spans) \in Nat /\ i < Len(spans) /\ i' = i + 1 /\ pc' = "rules" /\ spans' = spans
      BY <2>2 DEF FunctionLoop, TypeOK
    <3>2. QED
      BY <3>1
  <2>3. QED
    BY <2>1, <2>2
<1>4. TypeOK'
  BY <1>1, <1>2, <1>3 DEF TypeOK
<1>5. BlocksInOrder'
  BY <1>1 DEF BlocksInOrder, InOrder
<1>6. PositionOK'
  BY <1>1 DEF PositionOK
<1>7. QED
  BY <1>4, <1>5, <1>6

LEMMA NextScan == ScanInv /\ [Next]_vars => ScanInv'
<1> SUFFICES ASSUME ScanInv, [Next]_vars PROVE ScanInv'
  OBVIOUS
<1>1. CASE Next
  BY <1>1, StepTestLine, StepFunctionLine, StepLoops, StepRules DEF Next
<1>2. CASE UNCHANGED vars
  BY <1>2 DEF vars, counter, ScanInv, TypeOK, BlocksInOrder, InOrder, PositionOK, Position, EndBefore
<1>3. QED
  BY <1>1, <1>2

-----------------------------------------------------------------------------
\* The strengthened invariant holds in every reachable state.
THEOREM ScanCorrect == Spec => []ScanInv
<1>1. QED
  BY InitScan, NextScan, PTL DEF Spec

\* Type correctness of the analysis of a file, whatever its lines.
THEOREM ScanTypeCorrect == Spec => []TypeOK
<1>1. ScanInv => TypeOK
  BY DEF ScanInv
<1>2. QED
  BY <1>1, ScanCorrect, PTL

\* The functions and the test blocks found are slices of the file, in order and
\* apart, however its braces are matched (analyze.rs:433-455).
THEOREM ScanBlocksApart == Spec => []BlocksInOrder
<1>1. ScanInv => BlocksInOrder
  BY DEF ScanInv
<1>2. QED
  BY <1>1, ScanCorrect, PTL

-----------------------------------------------------------------------------
(***************************************************************************)
(* SourceScan: of a tidy file exactly the deployed functions are judged.   *)
(***************************************************************************)

\* Lines have counts of braces, and the recursion of Level goes along them.
LEMMA LineIs ==
  ASSUME file \in Seq(Line)
  PROVE  /\ Len(file) \in Nat /\ Last0 = Len(file) - 1
         /\ \A j \in 0..Last0 : At(j) \in Line /\ At(j).opens \in Nat /\ At(j).closes \in Nat
<1>1. Len(file) \in Nat /\ Last0 = Len(file) - 1
  BY DEF Last0
<1>2. ASSUME NEW j \in 0..Last0 PROVE At(j) \in Line
  <2>1. j + 1 \in 1..Len(file)
    BY <1>1, <1>2
  <2> QED BY <2>1 DEF At
<1> QED BY <1>1, <1>2 DEF Line

LEMMA LevelIs ==
  ASSUME file \in Seq(Line)
  PROVE  /\ \A j \in 0..Len(file) : Level[j] \in Int
         /\ \A j \in 0..Last0 : Level[j + 1] = (Level[j] + At(j).opens) - At(j).closes
<1> DEFINE n == Len(file)
           After(q, y) == (y + At(q - 1).opens) - At(q - 1).closes
           Solves(f) == f = [q \in 0..n |-> IF q = 0 THEN 0 ELSE (f[q - 1] + At(q - 1).opens) - At(q - 1).closes]
           F == [q \in 1..n |-> [y \in Int |-> After(q, y)]]
<1>0. Level = CHOOSE f : Solves(f)
  BY DEF Level
<1>1. n \in Nat /\ Last0 = n - 1 /\ \A j \in 0..Last0 : At(j).opens \in Nat /\ At(j).closes \in Nat
  BY LineIs
<1> HIDE DEF n
<1>2. ASSUME NEW q \in 1..n, NEW y \in Int PROVE After(q, y) \in Int
  <2>1. q - 1 \in 0..Last0
    BY <1>1
  <2>2. At(q - 1).opens \in Nat /\ At(q - 1).closes \in Nat
    BY <1>1, <2>1
  <2> QED BY <2>2
<1>3. F \in [1..n -> [Int -> Int]] /\ \A q \in 1..n, y \in Int : F[q][y] = After(q, y)
  <2> HIDE DEF After
  <2> QED BY <1>2
<1>a. \A q, y : After(q, y) = (y + At(q - 1).opens) - At(q - 1).closes
  OBVIOUS
<1> HIDE DEF F, After
<1>4. PICK f \in [0..n -> Int] : f[0] = 0 /\ \A q \in 1..n : f[q] = F[q][f[q - 1]]
  <2> DEFINE x == 0
             a == 0
             b == 1
             X == Int
  <2>1. x \in X /\ a \in Nat /\ b = a + 1 /\ n \in Nat /\ a <= n /\ F \in [b..n -> [X -> X]]
    BY <1>1, <1>3
  <2> HIDE DEF x, a, b, X
  <2>2. \E f : Recurses(f, X, x, a, b, n, F)
    BY <2>1, RecursionSolved
  <2> QED BY <2>2 DEF Recurses, x, a, b, X
<1>5. \A q \in 1..n : f[q - 1] \in Int /\ f[q] = (f[q - 1] + At(q - 1).opens) - At(q - 1).closes
  <2> TAKE q \in 1..n
  <2>1. q - 1 \in 0..n
    BY <1>1
  <2> QED BY <1>3, <1>4, <1>a, <2>1
<1>6. Solves(f)
  <2>1. \A q \in 0..n : f[q] = IF q = 0 THEN 0 ELSE (f[q - 1] + At(q - 1).opens) - At(q - 1).closes
    <3> TAKE q \in 0..n
    <3>1. CASE q = 0
      BY <1>4, <3>1
    <3>2. CASE q # 0
      <4>1. q \in 1..n
        BY <1>1, <3>2
      <4> QED BY <1>5, <3>2, <4>1
    <3> QED BY <3>1, <3>2
  <2> QED BY <2>1
<1> DEFINE g == Level
<1>7. g = [q \in 0..n |-> IF q = 0 THEN 0 ELSE (g[q - 1] + At(q - 1).opens) - At(q - 1).closes]
  <2> HIDE DEF Solves
  <2>1. Solves(g)
    BY <1>0, <1>6
  <2> QED BY <2>1 DEF Solves
<1>8. g[0] = 0 /\ \A q \in 1..n : g[q] = (g[q - 1] + At(q - 1).opens) - At(q - 1).closes
  <2> HIDE DEF g
  <2>1. \A q \in 0..n : g[q] = IF q = 0 THEN 0 ELSE (g[q - 1] + At(q - 1).opens) - At(q - 1).closes
    BY <1>7
  <2> QED BY <1>1, <2>1
<1> HIDE DEF g
<1>9. \A j \in 0..Last0 : j + 1 \in 1..n /\ (j + 1) - 1 = j
  BY <1>1
<1>10. \A j \in 0..Last0 : g[j + 1] = (g[j] + At(j).opens) - At(j).closes
  <2> TAKE j \in 0..Last0
  <2>1. j + 1 \in 1..n /\ (j + 1) - 1 = j
    BY <1>9
  <2> QED BY <1>8, <2>1
<1> DEFINE H == {k \in Nat : k <= n => g[k] \in Int}
<1>11. 0 \in H
  BY <1>8
<1>12. \A k \in Nat : k \in H => k + 1 \in H
  <2> SUFFICES ASSUME NEW k \in Nat, k <= n => g[k] \in Int, k + 1 <= n PROVE g[k + 1] \in Int
    OBVIOUS
  <2>1. k \in 0..Last0 /\ k <= n
    BY <1>1
  <2>2. At(k).opens \in Nat /\ At(k).closes \in Nat /\ g[k] \in Int
    BY <1>1, <2>1
  <2>3. g[k + 1] = (g[k] + At(k).opens) - At(k).closes
    BY <1>10, <2>1
  <2> QED BY <2>2, <2>3
<1>13. Nat \subseteq H
  <2> HIDE DEF H
  <2> QED BY <1>11, <1>12, NatSetInduction
<1>14. \A j \in 0..n : g[j] \in Int
  BY <1>13, <1>1
<1> QED BY <1>10, <1>14 DEF g, n

\* Everything the properties say of the lines of a file stays with the file.
LEMMA FileStays ==
  ASSUME file' = file
  PROVE  /\ Last0' = Last0 /\ Starts' = Starts /\ Attributes' = Attributes /\ Level' = Level
         /\ \A j : At(j)' = At(j) /\ Extent(j)' = Extent(j) /\ Item(j)' = Item(j)
         /\ \A a, m : Closes(a, m)' <=> Closes(a, m)
         /\ Tidy' <=> Tidy
<1>1. Last0' = Last0 /\ \A j : At(j)' = At(j)
  BY DEF Last0, At
<1>2. Starts' = Starts /\ Attributes' = Attributes
  BY <1>1 DEF Starts, Attributes
<1>3. \A j : Extent(j)' = Extent(j)
  BY <1>1 DEF Extent
<1>4. Level' = Level
  BY DEF Level, At
<1>5. \A a, m : Closes(a, m)' <=> Closes(a, m)
  BY <1>1, <1>4 DEF Closes
<1>6. \A j : Item(j)' = Item(j)
  BY <1>1, <1>5 DEF Item
<1>7. \A s : TidyFunction(s)' <=> TidyFunction(s)
  BY <1>1, <1>2, <1>3, <1>4, <1>6 DEF TidyFunction
<1>8. \A a : TidyItem(a)' <=> TidyItem(a)
  BY <1>1, <1>4, <1>5, <1>6 DEF TidyItem
<1>9. Tidy' <=> Tidy
  BY <1>1, <1>2, <1>3, <1>7, <1>8 DEF Tidy
<1> QED BY <1>1, <1>2, <1>3, <1>4, <1>5, <1>6, <1>9

\* An attribute within a test item stands on a part of it.
LEMMA ItemWithin ==
  ASSUME file \in Seq(Line), Tidy, NEW a \in Attributes, NEW j \in Attributes, j \in Item(a)
  PROVE  Item(j) \subseteq Item(a)
<1>1. /\ Last0 \in Int /\ a \in 0..Last0 /\ j \in a..Last0 /\ j \in 0..Last0
      /\ \A k \in a..(j - 1) : ~Closes(a, k)
  BY LineIs DEF Attributes, Item
<1>2. TidyItem(a) /\ TidyItem(j)
  BY DEF Tidy
<1>3. \A k \in 0..(Last0 + 1) : Level[k] \in Int
  BY <1>1, LevelIs, LineIs
<1>4. ASSUME NEW m \in Item(j), NEW k \in a..(m - 1), Closes(a, k) PROVE FALSE
  <2>1. m \in j..Last0 /\ \A l \in j..(m - 1) : ~Closes(j, l)
    BY <1>4 DEF Item
  <2>2. k \in j..(m - 1) /\ a # j
    BY <1>1, <1>4, <2>1
  <2>3. k \in Item(j) /\ ~Closes(j, k)
    BY <1>1, <2>1, <2>2 DEF Item
  <2>4. Level[k + 1] >= Level[j]
    BY <1>2, <2>3 DEF TidyItem
  <2>5. j - 1 \in Item(a) /\ ~Closes(a, j - 1) /\ (j - 1) + 1 = j
    <3>1. j - 1 \in a..(j - 1) /\ j - 1 \in a..Last0 /\ \A l \in a..((j - 1) - 1) : l \in a..(j - 1)
      BY <1>1, <2>2
    <3> QED BY <1>1, <3>1 DEF Item
  <2>6. Level[j] >= Level[a]
    BY <1>2, <2>5 DEF TidyItem
  <2>7. Level[k + 1] <= Level[a] /\ \E l \in a..k : At(l).opens > 0
    BY <1>4 DEF Closes
  <2>8. Level[j] \in Int /\ Level[a] \in Int /\ Level[k + 1] \in Int
    BY <1>1, <1>3, <2>1, <2>2
  <2>9. Level[j] <= Level[a] /\ Level[k + 1] <= Level[j]
    BY <2>4, <2>6, <2>7, <2>8
  <2>10. ~(\E l \in a..(j - 1) : At(l).opens > 0) /\ ~(\E l \in j..k : At(l).opens > 0)
    BY <2>3, <2>5, <2>9 DEF Closes
  <2>11. \A l \in a..k : l \in a..(j - 1) \/ l \in j..k
    BY <1>1, <2>1, <2>2
  <2> QED BY <2>7, <2>10, <2>11
<1>5. ASSUME NEW m \in Item(j) PROVE m \in Item(a)
  <2>1. m \in a..Last0
    BY <1>1, <1>5 DEF Item
  <2> QED BY <1>4, <2>1 DEF Item
<1> QED BY <1>5

\* The lines of a function are one after the other, and only the first begins one.
LEMMA ExtentIs ==
  ASSUME file \in Seq(Line), NEW s \in Starts
  PROVE  /\ Last0 \in Int /\ s \in 0..Last0 /\ s \in Extent(s) /\ Extent(s) \subseteq s..Last0
         /\ \A j \in Extent(s) : s..j \subseteq Extent(s) /\ (j \in Starts => j = s)
<1>1. Last0 \in Int /\ s \in 0..Last0
  BY LineIs DEF Starts
<1>2. s \in Extent(s) /\ Extent(s) \subseteq s..Last0
  BY <1>1 DEF Extent
<1>3. ASSUME NEW j \in Extent(s) PROVE s..j \subseteq Extent(s) /\ (j \in Starts => j = s)
  <2>1. j \in s..Last0 /\ \A k \in (s + 1)..j : At(k).part = "body"
    BY DEF Extent
  <2>2. ASSUME NEW l \in s..j PROVE l \in Extent(s)
    BY <1>1, <2>1 DEF Extent
  <2>3. ASSUME j # s PROVE j \notin Starts
    <3>1. j \in (s + 1)..j
      BY <1>1, <2>1, <2>3
    <3> QED BY <2>1, <3>1 DEF Starts
  <2> QED BY <2>2, <2>3
<1> QED BY <1>1, <1>2, <1>3

-----------------------------------------------------------------------------
\* The test blocks: of what was read, the items of tests are covered by the blocks
\* found and the one that is open, and these cover nothing else.
OpenItem ==
  start # None =>
    /\ start \in Attributes /\ start < i /\ depth = Level[i] - Level[start]
    /\ sawOpen <=> \E k \in start..(i - 1) : At(k).opens > 0
    /\ \A k \in start..(i - 1) : ~Closes(start, k)
Covered ==
  \A a \in Attributes : a < i =>
    \A m \in Item(a) : In(m, ranges) \/ (start # None /\ m \in Item(start))
OnlyTests == \A n \in 1..Len(ranges) : \A m \in Lines(ranges[n]) : m \in 0..Last0 /\ ~At(m).deployed

TestsFit == OnlyTests /\ \A a \in Attributes : \A m \in Item(a) : In(m, ranges)

\* What the open item has at the line that is read next.
LEMMA OpenLine ==
  ASSUME file \in Seq(Line), Tidy, TypeOK, OpenItem, i < Len(file), InTest
  PROVE  LET s == IF start = None THEN i ELSE start
         IN  /\ s \in Attributes /\ s \in 0..i /\ i \in Item(s) /\ i \in 0..Last0
             /\ \A k \in s..(i - 1) : ~Closes(s, k)
             /\ BraceSeen <=> \E k \in s..i : At(k).opens > 0
             /\ EndsTest <=> Closes(s, i)
             /\ ~EndsTest => Left = Level[i + 1] - Level[s]
<1> DEFINE s == IF start = None THEN i ELSE start
<1>1. i \in 0..Last0 /\ Last0 \in Int /\ i \in Nat /\ i + 1 \in 0..Len(file)
  BY LineIs DEF TypeOK
<1>2. s \in Attributes /\ s \in 0..i /\ \A k \in s..(i - 1) : ~Closes(s, k)
  <2>1. CASE start = None
    BY <1>1, <2>1 DEF InTest, Attributes
  <2>2. CASE start # None
    BY <1>1, <2>2 DEF OpenItem, Attributes
  <2> QED BY <2>1, <2>2
<1>3. s = i => start = None
  BY <1>1 DEF OpenItem
<1>4. /\ start = None => s = i
      /\ start # None => s = start /\ s < i /\ depth = Level[i] - Level[s]
           /\ (sawOpen <=> \E k \in s..(i - 1) : At(k).opens > 0)
  BY DEF OpenItem
<1> HIDE DEF s
<1>5. i \in Item(s)
  BY <1>1, <1>2 DEF Item
<1>6. /\ At(i).opens \in Nat /\ At(i).closes \in Nat /\ Level[i] \in Int /\ Level[s] \in Int
      /\ Level[i + 1] \in Int /\ Level[i + 1] = (Level[i] + At(i).opens) - At(i).closes
  <2>1. s \in 0..Len(file) /\ i \in 0..Len(file)
    BY <1>1, <1>2
  <2> QED BY <1>1, <2>1, LineIs, LevelIs
<1>7. Opened = (Level[i] + At(i).opens) - Level[s]
  BY <1>4, <1>6 DEF Opened
<1>8. BraceSeen <=> \E k \in s..i : At(k).opens > 0
  <2>1. CASE start = None
    BY <1>1, <1>4, <1>6, <2>1 DEF BraceSeen
  <2>2. CASE start # None
    <3>1. \A k : k \in s..i <=> k \in s..(i - 1) \/ k = i
      BY <1>1, <1>2
    <3> QED BY <1>4, <2>2, <3>1 DEF BraceSeen
  <2> QED BY <2>1, <2>2
<1>9. Left = IF Level[i + 1] - Level[s] < 0 THEN 0 ELSE Level[i + 1] - Level[s]
  BY <1>6, <1>7 DEF Left
<1>10. Left = 0 <=> Level[i + 1] <= Level[s]
  BY <1>6, <1>9
<1>11. EndsTest <=> Closes(s, i)
  BY <1>8, <1>10 DEF EndsTest, Closes
<1>12. ~EndsTest => Left = Level[i + 1] - Level[s]
  <2>1. TidyItem(s)
    BY <1>2 DEF Tidy
  <2>2. Closes(s, i) \/ Level[i + 1] >= Level[s]
    BY <1>5, <2>1 DEF TidyItem
  <2> QED BY <1>6, <1>9, <1>11, <2>2
<1> QED BY <1>1, <1>2, <1>5, <1>8, <1>11, <1>12 DEF s

\* A block that is found covers the item that was open and nothing else.
LEMMA ItemEnds ==
  ASSUME file \in Seq(Line), Tidy, NEW s \in Attributes, NEW e \in 0..Last0, e \in Item(s), Closes(s, e)
  PROVE  Lines(<<s, e + 1>>) = Item(s) /\ \A m \in Item(s) : m \in 0..Last0 /\ ~At(m).deployed
<1>1. Last0 \in Int /\ s \in 0..Last0
  BY LineIs DEF Attributes
<1>2. Lines(<<s, e + 1>>) = s..e
  BY <1>1 DEF Lines
<1>3. ASSUME NEW m \in Item(s) PROVE m \in s..e
  <2>1. m \in s..Last0 /\ \A k \in s..(m - 1) : ~Closes(s, k)
    BY DEF Item
  <2>2. e \in s..Last0
    BY DEF Item
  <2>3. ~(e \in s..(m - 1))
    BY <2>1
  <2> QED BY <1>1, <2>1, <2>2, <2>3
<1>4. ASSUME NEW m \in s..e PROVE m \in Item(s)
  <2>1. e \in s..Last0 /\ \A k \in s..(e - 1) : ~Closes(s, k)
    BY DEF Item
  <2>2. m \in s..Last0 /\ \A k \in s..(m - 1) : k \in s..(e - 1)
    BY <1>1, <2>1
  <2> QED BY <2>1, <2>2 DEF Item
<1>5. \A m \in Item(s) : m \in 0..Last0 /\ ~At(m).deployed
  <2>1. TidyItem(s)
    BY DEF Tidy
  <2> QED BY <1>1, <2>1 DEF TidyItem, Item
<1> QED BY <1>2, <1>3, <1>4, <1>5

\* A block more covers its lines, and those that were covered.
LEMMA AppendCovers ==
  ASSUME NEW blocks \in Seq(Blocks), NEW b \in Blocks
  PROVE  /\ Len(Append(blocks, b)) = Len(blocks) + 1 /\ Append(blocks, b)[Len(blocks) + 1] = b
         /\ \A n \in 1..Len(blocks) : Append(blocks, b)[n] = blocks[n]
         /\ \A n \in 1..Len(Append(blocks, b)) : n \in 1..Len(blocks) \/ n = Len(blocks) + 1
         /\ \A m : In(m, Append(blocks, b)) <=> In(m, blocks) \/ m \in Lines(b)
<1> DEFINE more == Append(blocks, b)
           z == Len(blocks)
<1>1. /\ Len(more) = z + 1 /\ more[z + 1] = b /\ z \in Nat
      /\ \A n \in 1..z : more[n] = blocks[n]
  OBVIOUS
<1> HIDE DEF more, z
<1>2. \A n : n \in 1..Len(more) <=> n \in 1..z \/ n = z + 1
  BY <1>1
<1>3. \A m : In(m, more) <=> In(m, blocks) \/ m \in Lines(b)
  BY <1>1, <1>2 DEF In, z
<1> QED BY <1>1, <1>2, <1>3 DEF more, z

LEMMA StepCovers ==
  ASSUME Tidy, TypeOK, OpenItem, Covered, OnlyTests, TestLine
  PROVE  OpenItem' /\ Covered' /\ OnlyTests'
<1>0. /\ file \in Seq(Line) /\ file' = file /\ i' = i + 1 /\ i < Len(file) /\ i \in Nat /\ None \notin Nat
      /\ ranges \in Seq(Blocks) /\ Last0 \in Int /\ i \in 0..Last0
  BY FilesAssumption, LineIs DEF TestLine, TypeOK
<1>1. /\ Last0' = Last0 /\ Attributes' = Attributes /\ Level' = Level
      /\ \A j : At(j)' = At(j) /\ Item(j)' = Item(j)
      /\ \A a, m : Closes(a, m)' <=> Closes(a, m)
  BY <1>0, FileStays
<1> DEFINE s == IF start = None THEN i ELSE start
<1>2. ASSUME InTest
      PROVE  /\ s \in Attributes /\ s \in 0..i /\ i \in Item(s)
             /\ \A k \in s..(i - 1) : ~Closes(s, k)
             /\ BraceSeen <=> \E k \in s..i : At(k).opens > 0
             /\ EndsTest <=> Closes(s, i)
             /\ ~EndsTest => Left = Level[i + 1] - Level[s]
  BY <1>0, <1>2, OpenLine
<1>3. Block = <<s, i + 1>> /\ Block[1] = s
  BY DEF Block
<1>4. start # None => s = start
  OBVIOUS
<1>5. ASSUME InTest, NEW a \in Attributes, a < i + 1, NEW m \in Item(a)
      PROVE  In(m, ranges) \/ m \in Item(s)
  <2>1. CASE a < i
    BY <1>4, <1>5, <2>1 DEF Covered
  <2>2. CASE a = i
    BY <1>0, <1>2, <1>5, <2>2, ItemWithin
  <2> QED BY <1>0, <1>5, <2>1, <2>2 DEF Attributes
<1> HIDE DEF s
<1>6. CASE InTest /\ EndsTest /\ ranges' = Append(ranges, Block) /\ Reset
  <2>1. start' = None
    BY <1>6 DEF Reset
  <2>2. Lines(Block) = Item(s) /\ \A m \in Item(s) : m \in 0..Last0 /\ ~At(m).deployed
    BY <1>0, <1>2, <1>3, <1>6, ItemEnds
  <2>3. Block \in Blocks
    BY <1>0, <1>2, <1>3, <1>6 DEF Blocks
  <2>4. /\ Len(ranges') = Len(ranges) + 1 /\ ranges'[Len(ranges) + 1] = Block
        /\ \A n \in 1..Len(ranges) : ranges'[n] = ranges[n]
        /\ \A n \in 1..Len(ranges') : n \in 1..Len(ranges) \/ n = Len(ranges) + 1
        /\ \A m : In(m, ranges') <=> In(m, ranges) \/ m \in Lines(Block)
    BY <1>0, <1>6, <2>3, AppendCovers
  <2>5. OpenItem'
    BY <2>1 DEF OpenItem
  <2>6. Covered'
    BY <1>0, <1>1, <1>5, <1>6, <2>2, <2>4 DEF Covered
  <2>7. ASSUME NEW n \in 1..Len(ranges'), NEW m \in Lines(ranges'[n])
        PROVE  m \in 0..Last0 /\ ~At(m).deployed
    <3>1. CASE n \in 1..Len(ranges)
      BY <2>4, <2>7, <3>1 DEF OnlyTests
    <3>2. CASE n = Len(ranges) + 1
      BY <2>2, <2>4, <2>7, <3>2
    <3> QED BY <2>4, <3>1, <3>2
  <2>8. OnlyTests'
    BY <1>1, <2>7 DEF OnlyTests
  <2> QED BY <2>5, <2>6, <2>8
<1>7. CASE InTest /\ ~EndsTest /\ start' = Block[1] /\ depth' = Left /\ sawOpen' = BraceSeen /\ UNCHANGED ranges
  <2>1. start' = s /\ s \in Nat /\ s <= i /\ s # None
    BY <1>0, <1>2, <1>3, <1>7
  <2>2. \A k : k \in s..((i + 1) - 1) <=> k \in s..i
    BY <1>0
  <2>3. \A k \in s..i : k \in s..(i - 1) \/ k = i
    BY <1>0, <2>1
  <2>4. OpenItem'
    BY <1>0, <1>1, <1>2, <1>7, <2>1, <2>2, <2>3 DEF OpenItem
  <2>5. Covered'
    BY <1>0, <1>1, <1>5, <1>7, <2>1 DEF Covered
  <2>6. OnlyTests'
    BY <1>1, <1>7 DEF OnlyTests
  <2> QED BY <2>4, <2>5, <2>6
<1>8. CASE ~InTest /\ UNCHANGED <<counter, ranges>>
  <2>1. start = None /\ start' = start /\ ranges' = ranges /\ ~At(i).test
    BY <1>8 DEF InTest, counter
  <2>2. OpenItem'
    BY <2>1 DEF OpenItem
  <2>3. \A a \in Attributes : a < i + 1 => a < i
    BY <1>0, <2>1 DEF Attributes
  <2>4. Covered'
    BY <1>0, <1>1, <2>1, <2>3 DEF Covered
  <2>5. OnlyTests'
    BY <1>1, <2>1 DEF OnlyTests
  <2> QED BY <2>2, <2>4, <2>5
<1> QED BY <1>6, <1>7, <1>8 DEF TestLine

\* After the last line no item is open, since each has its end in the file.
LEMMA TestsCovered ==
  ASSUME Tidy, TypeOK, OpenItem, Covered, OnlyTests, i = Len(file)
  PROVE  TestsFit
<1>1. file \in Seq(Line) /\ Last0 \in Int /\ i = Last0 + 1
  BY LineIs DEF TypeOK
<1>2. start = None
  <2> SUFFICES ASSUME start # None PROVE FALSE
    OBVIOUS
  <2>1. start \in Attributes /\ start < i /\ \A k \in start..(i - 1) : ~Closes(start, k)
    BY DEF OpenItem
  <2>2. PICK m \in Item(start) : Closes(start, m)
    BY <2>1 DEF Tidy, TidyItem
  <2>3. m \in start..Last0
    BY <2>2 DEF Item
  <2> QED BY <1>1, <2>1, <2>2, <2>3
<1>3. \A a \in Attributes : a < i
  BY <1>1 DEF Attributes
<1> QED BY <1>2, <1>3 DEF TestsFit, Covered

-----------------------------------------------------------------------------
\* The functions: of what was read, those that ended were found, and nothing else.
OpenFunction ==
  start # None =>
    start \in Starts /\ start < i /\ i \in Extent(start) /\ depth = Level[i] - Level[start]
OnlyFunctions ==
  \A n \in 1..Len(spans) : spans[n][1] \in Starts /\ Lines(spans[n]) = Extent(spans[n][1])
Gathered ==
  \A s \in Starts : s < i =>
    s = start \/ (Extent(s) \subseteq 0..(i - 1) /\ \E n \in 1..Len(spans) : spans[n][1] = s)

FunctionsFit == OnlyFunctions /\ \A s \in Starts : \E n \in 1..Len(spans) : spans[n][1] = s

\* What the open function has at the line that is read next.
LEMMA OpenFunctionLine ==
  ASSUME file \in Seq(Line), Tidy, TypeOK, OpenFunction, Gathered, i < Len(file), InFn
  PROVE  LET s == IF start = None THEN i ELSE start
         IN  /\ s \in Starts /\ s \in 0..i /\ i \in Extent(s) /\ i \in 0..Last0
             /\ Left > 0 <=> i + 1 \in Extent(s)
             /\ i + 1 \in Extent(s) => Left = Level[i + 1] - Level[s]
             /\ i \in Starts => i = s
             /\ Left \in Nat
<1> DEFINE s == IF start = None THEN i ELSE start
<1>1. i \in 0..Last0 /\ Last0 \in Int /\ i \in Nat /\ i + 1 \in 0..Len(file) /\ None \notin Nat
  BY LineIs, FilesAssumption DEF TypeOK
<1>2. s \in Starts /\ s \in 0..i /\ i \in Extent(s)
  <2>1. CASE start = None
    <3>1. PICK t \in Starts : i \in Extent(t)
      BY <1>1, <2>1 DEF InFn, Tidy
    <3>2. t \in 0..Last0 /\ t <= i
      BY <3>1, ExtentIs
    <3>3. ~(t < i)
      <4> SUFFICES ASSUME t < i PROVE FALSE
        OBVIOUS
      <4>1. t # start
        BY <1>1, <2>1, <3>2
      <4>2. Extent(t) \subseteq 0..(i - 1)
        BY <4>1 DEF Gathered
      <4> QED BY <1>1, <3>1, <4>2
    <3>4. t = i
      BY <1>1, <3>2, <3>3
    <3> QED BY <1>1, <2>1, <3>1, <3>4
  <2>2. CASE start # None
    BY <1>1, <2>2 DEF OpenFunction, Starts
  <2> QED BY <2>1, <2>2
<1>4. /\ start = None => s = i
      /\ start # None => s = start /\ depth = Level[i] - Level[s]
  BY DEF OpenFunction
<1> HIDE DEF s
<1>6. /\ At(i).opens \in Nat /\ At(i).closes \in Nat /\ Level[i] \in Int /\ Level[s] \in Int
      /\ Level[i + 1] \in Int /\ Level[i + 1] = (Level[i] + At(i).opens) - At(i).closes
  <2>1. s \in 0..Len(file) /\ i \in 0..Len(file)
    BY <1>1, <1>2
  <2> QED BY <1>1, <2>1, LineIs, LevelIs
<1>7. Opened = (Level[i] + At(i).opens) - Level[s]
  BY <1>4, <1>6 DEF Opened
<1>8. Left = IF Level[i + 1] - Level[s] < 0 THEN 0 ELSE Level[i + 1] - Level[s]
  BY <1>6, <1>7 DEF Left
<1>9. Left \in Nat /\ (Left > 0 <=> Level[i + 1] > Level[s])
      /\ (Level[i + 1] > Level[s] => Left = Level[i + 1] - Level[s])
  BY <1>6, <1>8
<1>10. Level[i + 1] > Level[s] <=> i + 1 \in Extent(s)
  BY <1>2 DEF Tidy, TidyFunction
<1>11. i \in Starts => i = s
  BY <1>1, <1>2, ExtentIs
<1> QED BY <1>1, <1>2, <1>9, <1>10, <1>11 DEF s

LEMMA FunctionEnds ==
  ASSUME file \in Seq(Line), NEW s \in Starts, NEW e \in Extent(s), e + 1 \notin Extent(s)
  PROVE  Lines(<<s, e + 1>>) = Extent(s) /\ Extent(s) \subseteq 0..e
<1>1. Last0 \in Int /\ s \in 0..Last0 /\ e \in s..Last0 /\ s..e \subseteq Extent(s)
  BY ExtentIs
<1>2. Lines(<<s, e + 1>>) = s..e
  BY <1>1 DEF Lines
<1>3. ASSUME NEW m \in Extent(s) PROVE m \in s..e
  <2>1. m \in s..Last0 /\ s..m \subseteq Extent(s)
    BY ExtentIs
  <2>2. m > e => e + 1 \in s..m
    BY <1>1, <2>1
  <2> QED BY <1>1, <2>1, <2>2
<1>4. s..e \subseteq 0..e
  BY <1>1
<1> QED BY <1>1, <1>2, <1>3, <1>4

LEMMA StepGathers ==
  ASSUME Tidy, TypeOK, OpenFunction, OnlyFunctions, Gathered, FunctionLine
  PROVE  OpenFunction' /\ OnlyFunctions' /\ Gathered'
<1>0. /\ file \in Seq(Line) /\ file' = file /\ i' = i + 1 /\ i < Len(file) /\ i \in Nat /\ None \notin Nat
      /\ spans \in Seq(Blocks) /\ Last0 \in Int /\ i \in 0..Last0 /\ (i + 1) - 1 = i
  BY FilesAssumption, LineIs DEF FunctionLine, TypeOK
<1>1. /\ Last0' = Last0 /\ Starts' = Starts /\ Level' = Level
      /\ \A j : At(j)' = At(j) /\ Extent(j)' = Extent(j)
  BY <1>0, FileStays
<1> DEFINE s == IF start = None THEN i ELSE start
<1>2. ASSUME InFn
      PROVE  /\ s \in Starts /\ s \in 0..i /\ i \in Extent(s)
             /\ Left > 0 <=> i + 1 \in Extent(s)
             /\ i + 1 \in Extent(s) => Left = Level[i + 1] - Level[s]
             /\ i \in Starts => i = s
             /\ Left \in Nat
  BY <1>0, <1>2, OpenFunctionLine
<1>3. Block = <<s, i + 1>> /\ Block[1] = s
  BY DEF Block
<1>4. start # None => s = start
  OBVIOUS
<1>5. ASSUME NEW t \in Starts, t < i + 1, InFn
      PROVE  t = s \/ (Extent(t) \subseteq 0..i /\ \E n \in 1..Len(spans) : spans[n][1] = t)
  <2>1. CASE t < i
    <3>1. t \in Nat
      BY DEF Starts
    <3>2. t = start => t = s
      BY <1>0, <1>4, <3>1
    <3>3. 0..(i - 1) \subseteq 0..i
      BY <1>0
    <3> QED BY <2>1, <3>2, <3>3 DEF Gathered
  <2>2. CASE t = i
    BY <1>2, <1>5, <2>2
  <2> QED BY <1>0, <1>5, <2>1, <2>2 DEF Starts
<1> HIDE DEF s
<1>6. CASE InFn /\ Left = 0 /\ spans' = Append(spans, Block) /\ Reset
  <2>1. start' = None
    BY <1>6 DEF Reset
  <2>2. i + 1 \notin Extent(s)
    BY <1>2, <1>6
  <2>3. Lines(Block) = Extent(s) /\ Extent(s) \subseteq 0..i
    BY <1>0, <1>2, <1>3, <1>6, <2>2, FunctionEnds
  <2>4. Block \in Blocks
    BY <1>0, <1>2, <1>3, <1>6 DEF Blocks
  <2>5. /\ Len(spans') = Len(spans) + 1 /\ spans'[Len(spans) + 1] = Block
        /\ \A n \in 1..Len(spans) : spans'[n] = spans[n]
        /\ \A n \in 1..Len(spans') : n \in 1..Len(spans) \/ n = Len(spans) + 1
    BY <1>0, <1>6, <2>4, AppendCovers
  <2>6. Len(spans) \in Nat /\ Len(spans) + 1 \in 1..Len(spans') /\ 1..Len(spans) \subseteq 1..Len(spans')
    BY <1>0, <2>5
  <2>7. OpenFunction'
    BY <2>1 DEF OpenFunction
  <2>8. ASSUME NEW n \in 1..Len(spans')
        PROVE  spans'[n][1] \in Starts /\ Lines(spans'[n]) = Extent(spans'[n][1])
    <3>1. CASE n \in 1..Len(spans)
      BY <2>5, <3>1 DEF OnlyFunctions
    <3>2. CASE n = Len(spans) + 1
      BY <1>2, <1>3, <1>6, <2>3, <2>5, <3>2
    <3> QED BY <2>5, <3>1, <3>2
  <2>9. OnlyFunctions'
    BY <1>1, <2>8 DEF OnlyFunctions
  <2>10. ASSUME NEW t \in Starts, t < i + 1
         PROVE  Extent(t) \subseteq 0..i /\ \E n \in 1..Len(spans') : spans'[n][1] = t
    <3>1. CASE t = s
      BY <1>3, <2>3, <2>5, <2>6, <3>1
    <3>2. CASE Extent(t) \subseteq 0..i /\ \E n \in 1..Len(spans) : spans[n][1] = t
      BY <2>5, <2>6, <3>2
    <3> QED BY <1>5, <1>6, <2>10, <3>1, <3>2
  <2>11. Gathered'
    BY <1>0, <1>1, <2>10 DEF Gathered
  <2> QED BY <2>7, <2>9, <2>11
<1>7. CASE InFn /\ Left > 0 /\ start' = Block[1] /\ depth' = Left /\ UNCHANGED <<sawOpen, spans>>
  <2>1. start' = s /\ s \in Nat /\ s <= i /\ s # None /\ spans' = spans
    BY <1>0, <1>2, <1>3, <1>7
  <2>2. OpenFunction'
    BY <1>0, <1>1, <1>2, <1>7, <2>1 DEF OpenFunction
  <2>3. OnlyFunctions'
    BY <1>1, <2>1 DEF OnlyFunctions
  <2>4. Gathered'
    BY <1>0, <1>1, <1>5, <1>7, <2>1 DEF Gathered
  <2> QED BY <2>2, <2>3, <2>4
<1>8. CASE ~InFn /\ UNCHANGED <<counter, spans>>
  <2>1. start = None /\ start' = start /\ spans' = spans /\ ~At(i).fn
    BY <1>8 DEF InFn, counter
  <2>2. OpenFunction'
    BY <2>1 DEF OpenFunction
  <2>3. i \notin Starts
    BY <2>1 DEF Tidy, TidyFunction
  <2>4. \A t \in Starts : t < i + 1 => t < i
    BY <1>0, <2>3 DEF Starts
  <2>5. 0..(i - 1) \subseteq 0..i
    BY <1>0
  <2>6. Gathered'
    BY <1>0, <1>1, <2>1, <2>4, <2>5 DEF Gathered
  <2>7. OnlyFunctions'
    BY <1>1, <2>1 DEF OnlyFunctions
  <2> QED BY <2>2, <2>6, <2>7
<1> QED BY <1>6, <1>7, <1>8 DEF FunctionLine

LEMMA FunctionsGathered ==
  ASSUME Tidy, TypeOK, OpenFunction, OnlyFunctions, Gathered, i = Len(file)
  PROVE  FunctionsFit
<1>1. file \in Seq(Line) /\ Last0 \in Int /\ i = Last0 + 1
  BY LineIs DEF TypeOK
<1>2. start = None
  <2> SUFFICES ASSUME start # None PROVE FALSE
    OBVIOUS
  <2>1. i \in start..Last0
    BY DEF OpenFunction, Extent
  <2> QED BY <1>1, <2>1
<1>3. \A s \in Starts : s \in Nat /\ s < i
  BY <1>1 DEF Starts
<1> QED BY <1>2, <1>3, FilesAssumption DEF FunctionsFit, Gathered

-----------------------------------------------------------------------------
\* What the rules say of the function of Rust that starts on line s.
Judged(s) ==
  [line : {s + 1}, rule : FunctionRules(Extent(s))]
    \cup UNION {[line : {j + 1}, rule : LoopRules(j) \cup LineRules(j)] : j \in Extent(s)}

LEMMA JudgedStays ==
  ASSUME file' = file, NEW s
  PROVE  Judged(s)' = Judged(s)
<1>1. /\ \A j : Extent(j)' = Extent(j) /\ At(j)' = At(j)
  BY FileStays
<1>2. \A j, f : Has(j, f)' <=> Has(j, f)
  BY <1>1 DEF Has
<1>3. \A j : Mutates(j)' <=> Mutates(j)
  BY <1>2 DEF Mutates
<1>4. \A J : FunctionRules(J)' = FunctionRules(J)
  BY <1>2, <1>3 DEF FunctionRules, Unauthorized
<1>5. \A j : LoopRules(j)' = LoopRules(j)
  BY <1>1, <1>2 DEF LoopRules
<1>6. \A j : LineRules(j)' = LineRules(j)
  BY <1>2 DEF LineRules
<1> QED BY <1>1, <1>4, <1>5, <1>6 DEF Judged

\* A function is skipped exactly if it is not deployed, and none of its lines is
\* passed over if it is.
LEMMA SkippedIs ==
  ASSUME Tidy, TestsFit, NEW s \in Starts, file \in Seq(Line)
  PROVE  /\ In(s, ranges) <=> ~At(s).deployed
         /\ At(s).deployed => \A j \in Extent(s) : ~In(j, ranges)
<1>1. \A j : In(j, ranges) => ~At(j).deployed
  BY DEF TestsFit, OnlyTests, In
<1>2. TidyFunction(s)
  BY DEF Tidy
<1>3. ~At(s).deployed => In(s, ranges)
  BY <1>2 DEF TidyFunction, TestsFit
<1>4. \A j \in Extent(s) : At(j).deployed = At(s).deployed
  BY <1>2 DEF TidyFunction
<1> QED BY <1>1, <1>3, <1>4

LEMMA FunctionJudged ==
  ASSUME Tidy, TestsFit, file \in Seq(Line), NEW b, b[1] \in Starts, Lines(b) = Extent(b[1])
  PROVE  (IF Skipped(b) THEN {} ELSE FunctionFindings(b) \cup LineFindings(b))
           = IF At(b[1]).deployed THEN Judged(b[1]) ELSE {}
<1> DEFINE s == b[1]
           E == Extent(s)
<1>1. /\ Skipped(b) <=> ~At(s).deployed
      /\ At(s).deployed => \A j \in E : ~In(j, ranges)
  BY SkippedIs DEF Skipped
<1>2. ASSUME At(s).deployed PROVE FunctionFindings(b) \cup LineFindings(b) = Judged(s)
  <2>1. {j \in Lines(b) : ~In(j, ranges)} = E
    BY <1>1, <1>2
  <2>2. LineFindings(b) = UNION {[line : {j + 1}, rule : LineRules(j)] : j \in E}
    <3> HIDE DEF E
    <3> QED BY <2>1 DEF LineFindings, Found, Number
  <2>3. FunctionFindings(b) = [line : {s + 1}, rule : FunctionRules(E)]
          \cup UNION {[line : {j + 1}, rule : LoopRules(j)] : j \in E}
    BY DEF FunctionFindings, Found, Number
  <2>4. ASSUME NEW j PROVE [line : {j + 1}, rule : LoopRules(j) \cup LineRules(j)]
          = [line : {j + 1}, rule : LoopRules(j)] \cup [line : {j + 1}, rule : LineRules(j)]
    OBVIOUS
  <2>5. UNION {[line : {j + 1}, rule : LoopRules(j) \cup LineRules(j)] : j \in E}
          = (UNION {[line : {j + 1}, rule : LoopRules(j)] : j \in E})
              \cup (UNION {[line : {j + 1}, rule : LineRules(j)] : j \in E})
    <3> DEFINE A(j) == [line : {j + 1}, rule : LoopRules(j)]
               B(j) == [line : {j + 1}, rule : LineRules(j)]
               C(j) == [line : {j + 1}, rule : LoopRules(j) \cup LineRules(j)]
    <3>1. \A j : C(j) = A(j) \cup B(j)
      BY <2>4
    <3> HIDE DEF A, B, C, E
    <3>2. (UNION {C(j) : j \in E}) = (UNION {A(j) : j \in E}) \cup (UNION {B(j) : j \in E})
      BY <3>1
    <3> QED BY <3>2 DEF A, B, C
  <2>6. Judged(s) = [line : {s + 1}, rule : FunctionRules(E)]
          \cup UNION {[line : {j + 1}, rule : LoopRules(j) \cup LineRules(j)] : j \in E}
    BY DEF Judged
  <2> HIDE DEF E
  <2> QED BY <2>2, <2>3, <2>5, <2>6
<1> QED BY <1>1, <1>2

\* The functions gone through that are deployed.
Deployed(n) == {m \in 1..n : At(spans[m][1]).deployed}

\* The invariant: of a tidy file what each loop has found so far.
TidyInv ==
  /\ pc = "tests" => OpenItem /\ Covered /\ OnlyTests
  /\ pc # "tests" => TestsFit
  /\ pc = "functions" => OpenFunction /\ OnlyFunctions /\ Gathered
  /\ pc \in {"rules", "done"} => FunctionsFit
  /\ pc \in {"tests", "functions"} => findings = {}
  /\ pc = "rules" => findings = UNION {Judged(spans[n][1]) : n \in Deployed(i)}

ExactInv == ScanInv /\ (Tidy => TidyInv) /\ ExactFindings

LEMMA InitExact == Init => ExactInv
<1> SUFFICES ASSUME Init PROVE ExactInv
  OBVIOUS
<1>1. ScanInv
  BY InitScan
<1>2. pc = "tests" /\ start = None /\ i = 0 /\ ranges = <<>> /\ findings = {} /\ file \in Seq(Line)
  BY FilesAssumption DEF Init
<1>3. OpenItem /\ OnlyTests
  BY <1>2 DEF OpenItem, OnlyTests
<1>4. Covered
  BY <1>2 DEF Covered, Attributes
<1>5. TidyInv
  BY <1>2, <1>3, <1>4 DEF TidyInv
<1> QED BY <1>1, <1>2, <1>5 DEF ExactInv, ExactFindings

\* What fits goes on to fit while the file and what was found in it stay.
LEMMA FitStays ==
  ASSUME file' = file
  PROVE  /\ ranges' = ranges /\ TestsFit => TestsFit'
         /\ spans' = spans /\ FunctionsFit => FunctionsFit'
<1>1. /\ Last0' = Last0 /\ Attributes' = Attributes /\ Starts' = Starts
      /\ \A j : At(j)' = At(j) /\ Item(j)' = Item(j) /\ Extent(j)' = Extent(j)
  BY FileStays
<1>2. ASSUME ranges' = ranges, TestsFit PROVE TestsFit'
  BY <1>1, <1>2 DEF TestsFit, OnlyTests
<1>3. ASSUME spans' = spans, FunctionsFit PROVE FunctionsFit'
  BY <1>1, <1>3 DEF FunctionsFit, OnlyFunctions
<1> QED BY <1>2, <1>3

\* The rules over one function add what they say of it, if it is deployed.
LEMMA StepJudges ==
  ASSUME Tidy, TypeOK, TestsFit, FunctionsFit, FunctionLoop,
         findings = UNION {Judged(spans[n][1]) : n \in Deployed(i)}
  PROVE  (findings = UNION {Judged(spans[n][1]) : n \in Deployed(i)})'
<1>1. /\ file \in Seq(Line) /\ file' = file /\ spans' = spans /\ i' = i + 1 /\ i \in Nat
      /\ i < Len(spans) /\ Len(spans) \in Nat
  BY DEF FunctionLoop, TypeOK
<1> DEFINE b == spans[i + 1]
           new == IF At(b[1]).deployed THEN Judged(b[1]) ELSE {}
<1>2. i + 1 \in 1..Len(spans)
  BY <1>1
<1>3. b[1] \in Starts /\ Lines(b) = Extent(b[1])
  BY <1>2 DEF FunctionsFit, OnlyFunctions
<1>4. findings' = findings \cup new
  <2>1. (IF Skipped(b) THEN {} ELSE FunctionFindings(b) \cup LineFindings(b)) = new
    BY <1>1, <1>3, FunctionJudged
  <2> QED BY <2>1 DEF FunctionLoop
<1>5. \A s : Judged(s)' = Judged(s) /\ At(s)' = At(s)
  BY <1>1, FileStays, JudgedStays
<1>6. Deployed(i)' = Deployed(i + 1)
  BY <1>1, <1>5 DEF Deployed
<1>7. \A n : n \in Deployed(i + 1) <=> n \in Deployed(i) \/ (n = i + 1 /\ At(b[1]).deployed)
  <2>1. \A n : n \in 1..(i + 1) <=> n \in 1..i \/ n = i + 1
    BY <1>1
  <2> QED BY <2>1 DEF Deployed
<1>8. (UNION {Judged(spans[n][1]) : n \in Deployed(i + 1)})
        = (UNION {Judged(spans[n][1]) : n \in Deployed(i)}) \cup new
  <2> DEFINE J(n) == Judged(spans[n][1])
             D == Deployed(i)
             E == Deployed(i + 1)
  <2>1. new = IF At(b[1]).deployed THEN J(i + 1) ELSE {}
    OBVIOUS
  <2>2. \A n : n \in E <=> n \in D \/ (n = i + 1 /\ At(b[1]).deployed)
    BY <1>7
  <2> HIDE DEF J, D, E, new
  <2>3. (UNION {J(n) : n \in E}) = (UNION {J(n) : n \in D}) \cup new
    <3>1. CASE At(b[1]).deployed
      BY <2>1, <2>2, <3>1
    <3>2. CASE ~At(b[1]).deployed
      BY <2>1, <2>2, <3>2
    <3> QED BY <3>1, <3>2
  <2> QED BY <2>3 DEF J, D, E
<1>9. (UNION {Judged(spans[n][1]) : n \in Deployed(i)})' = UNION {Judged(spans[n][1]) : n \in Deployed(i + 1)}
  BY <1>1, <1>5, <1>6
<1> HIDE DEF new
<1> QED BY <1>4, <1>8, <1>9

\* When all functions are gone through, every deployed one was judged.
LEMMA AllJudged ==
  ASSUME Tidy, TypeOK, FunctionsFit, Starts # {}, i = Len(spans)
  PROVE  /\ spans # <<>>
         /\ (UNION {Judged(spans[n][1]) : n \in Deployed(i)})
              = UNION {Judged(s) : s \in {t \in Starts : At(t).deployed}}
<1>1. /\ \A n \in 1..Len(spans) : spans[n][1] \in Starts
      /\ \A s \in Starts : \E n \in 1..Len(spans) : spans[n][1] = s
  BY DEF FunctionsFit, OnlyFunctions
<1>2. spans # <<>>
  BY <1>1
<1>3. \A s : s \in {t \in Starts : At(t).deployed} <=> \E n \in Deployed(i) : spans[n][1] = s
  BY <1>1 DEF Deployed
<1>4. (UNION {Judged(spans[n][1]) : n \in Deployed(i)})
        = UNION {Judged(s) : s \in {t \in Starts : At(t).deployed}}
  <2> DEFINE T == {t \in Starts : At(t).deployed}
             D == Deployed(i)
  <2>1. \A s : s \in T <=> \E n \in D : spans[n][1] = s
    BY <1>3
  <2> HIDE DEF T, D
  <2>2. (UNION {Judged(spans[n][1]) : n \in D}) = UNION {Judged(s) : s \in T}
    BY <2>1
  <2> QED BY <2>2 DEF T, D
<1> QED BY <1>2, <1>4

LEMMA NextExact == ExactInv /\ [Next]_vars => ExactInv'
<1> SUFFICES ASSUME ExactInv, [Next]_vars PROVE ExactInv'
  OBVIOUS
<1>0. ScanInv /\ TypeOK /\ ScanInv' /\ file \in Seq(Line) /\ (Tidy => TidyInv)
  BY NextScan DEF ExactInv, ScanInv, TypeOK
<1>1. CASE UNCHANGED vars
  <2>1. file' = file /\ pc' = pc /\ i' = i /\ start' = start /\ depth' = depth /\ sawOpen' = sawOpen
        /\ ranges' = ranges /\ spans' = spans /\ findings' = findings
    BY <1>1 DEF vars
  <2>2. /\ Last0' = Last0 /\ Starts' = Starts /\ Attributes' = Attributes /\ Level' = Level
        /\ \A j : At(j)' = At(j) /\ Extent(j)' = Extent(j) /\ Item(j)' = Item(j)
        /\ \A a, m : Closes(a, m)' <=> Closes(a, m)
        /\ Tidy' <=> Tidy
    BY <2>1, FileStays
  <2>3. \A s : Judged(s)' = Judged(s)
    BY <2>1, JudgedStays
  <2>4. (OpenItem' <=> OpenItem) /\ (Covered' <=> Covered) /\ (OnlyTests' <=> OnlyTests)
    BY <2>1, <2>2 DEF OpenItem, Covered, OnlyTests
  <2>5. (OpenFunction' <=> OpenFunction) /\ (OnlyFunctions' <=> OnlyFunctions) /\ (Gathered' <=> Gathered)
    BY <2>1, <2>2 DEF OpenFunction, OnlyFunctions, Gathered
  <2>6. (TestsFit => TestsFit') /\ (FunctionsFit => FunctionsFit')
    BY <2>1, FitStays
  <2>7. Deployed(i)' = Deployed(i)
    BY <2>1, <2>2 DEF Deployed
  <2>8. (UNION {Judged(spans[n][1]) : n \in Deployed(i)})' = UNION {Judged(spans[n][1]) : n \in Deployed(i)}
    BY <2>1, <2>3, <2>7
  <2>9. TidyInv => TidyInv'
    BY <2>1, <2>4, <2>5, <2>6, <2>8 DEF TidyInv
  <2>10. (UNION {Judged(s) : s \in {t \in Starts : At(t).deployed}})'
           = UNION {Judged(s) : s \in {t \in Starts : At(t).deployed}}
    BY <2>2, <2>3
  <2>11. ExactFindings'
    BY <2>1, <2>2, <2>10 DEF ExactInv, ExactFindings, Judged
  <2> QED BY <1>0, <2>2, <2>9, <2>11 DEF ExactInv
<1>2. ASSUME Next, file' = file, pc' # "done", Tidy => TidyInv' PROVE ExactInv'
  <2>1. Tidy' <=> Tidy
    BY <1>2, FileStays
  <2> QED BY <1>0, <1>2, <2>1 DEF ExactInv, ExactFindings
<1>3. CASE TestLine
  <2>1. pc = "tests" /\ pc' = "tests" /\ file' = file /\ findings' = findings
    BY <1>3 DEF TestLine
  <2>2. ASSUME Tidy PROVE TidyInv'
    <3>1. OpenItem' /\ Covered' /\ OnlyTests'
      BY <1>0, <1>3, <2>1, <2>2, StepCovers DEF TidyInv
    <3> QED BY <1>0, <2>1, <2>2, <3>1 DEF TidyInv
  <2> QED BY <1>2, <1>3, <2>1, <2>2 DEF Next
<1>4. CASE TestsDone
  <2>1. /\ pc = "tests" /\ pc' = "functions" /\ file' = file /\ findings' = findings /\ i = Len(file)
        /\ ranges' = ranges /\ spans' = spans /\ start' = None /\ i' = 0
    BY <1>4 DEF TestsDone, Go, Reset
  <2>2. ASSUME Tidy PROVE TidyInv'
    <3>1. TestsFit'
      BY <1>0, <2>1, <2>2, TestsCovered, FitStays DEF TidyInv
    <3>2. spans' = <<>>
      BY <1>0, <2>1 DEF ScanInv, PositionOK
    <3>3. OpenFunction' /\ OnlyFunctions'
      BY <2>1, <3>2 DEF OpenFunction, OnlyFunctions
    <3>4. Gathered'
      <4>1. \A s \in Starts' : ~(s < i')
        BY <2>1 DEF Starts
      <4> QED BY <4>1 DEF Gathered
    <3> QED BY <1>0, <2>1, <2>2, <3>1, <3>3, <3>4 DEF TidyInv
  <2> QED BY <1>2, <1>4, <2>1, <2>2 DEF Next
<1>5. CASE FunctionLine
  <2>1. pc = "functions" /\ pc' = "functions" /\ file' = file /\ findings' = findings /\ ranges' = ranges
    BY <1>5 DEF FunctionLine
  <2>2. ASSUME Tidy PROVE TidyInv'
    <3>1. OpenFunction' /\ OnlyFunctions' /\ Gathered'
      BY <1>0, <1>5, <2>1, <2>2, StepGathers DEF TidyInv
    <3>2. TestsFit'
      BY <1>0, <2>1, <2>2, FitStays DEF TidyInv
    <3> QED BY <1>0, <2>1, <2>2, <3>1, <3>2 DEF TidyInv
  <2> QED BY <1>2, <1>5, <2>1, <2>2 DEF Next
<1>6. CASE FunctionsDone
  <2>1. /\ pc = "functions" /\ pc' = "rules" /\ file' = file /\ findings' = findings /\ i = Len(file)
        /\ ranges' = ranges /\ spans' = spans /\ i' = 0
    BY <1>6 DEF FunctionsDone, Go
  <2>2. ASSUME Tidy PROVE TidyInv'
    <3>1. TestsFit' /\ FunctionsFit'
      BY <1>0, <2>1, <2>2, FunctionsGathered, FitStays DEF TidyInv
    <3>2. Deployed(i)' = {}
      BY <2>1 DEF Deployed
    <3>3. (UNION {Judged(spans[n][1]) : n \in Deployed(i)})' = {}
      BY <3>2
    <3>4. findings' = {}
      BY <1>0, <2>1, <2>2 DEF TidyInv
    <3> QED BY <2>1, <3>1, <3>3, <3>4 DEF TidyInv
  <2> QED BY <1>2, <1>6, <2>1, <2>2 DEF Next
<1>7. CASE FunctionLoop
  <2>1. pc = "rules" /\ pc' = "rules" /\ file' = file /\ ranges' = ranges /\ spans' = spans
    BY <1>7 DEF FunctionLoop
  <2>2. ASSUME Tidy PROVE TidyInv'
    <3>1. TestsFit /\ FunctionsFit /\ findings = UNION {Judged(spans[n][1]) : n \in Deployed(i)}
      BY <1>0, <2>1, <2>2 DEF TidyInv
    <3>2. (findings = UNION {Judged(spans[n][1]) : n \in Deployed(i)})'
      BY <1>0, <1>7, <2>2, <3>1, StepJudges
    <3>3. TestsFit' /\ FunctionsFit'
      BY <2>1, <3>1, FitStays
    <3> QED BY <2>1, <3>2, <3>3 DEF TidyInv
  <2> QED BY <1>2, <1>7, <2>1, <2>2 DEF Next
<1>8. CASE Done
  <2>1. /\ pc = "rules" /\ pc' = "done" /\ file' = file /\ ranges' = ranges /\ spans' = spans
        /\ i = Len(spans)
        /\ findings' = IF spans = <<>> THEN Found(0..(Len(file) - 1), LineRules) ELSE findings
    BY <1>8 DEF Done, Go
  <2>2. /\ Starts' = Starts /\ (Tidy' <=> Tidy) /\ \A s : Judged(s)' = Judged(s) /\ At(s)' = At(s)
    BY <2>1, FileStays, JudgedStays
  <2>3. ASSUME Tidy PROVE TidyInv'
    <3>1. TestsFit' /\ FunctionsFit'
      BY <1>0, <2>1, <2>3, FitStays DEF TidyInv
    <3> QED BY <2>1, <3>1 DEF TidyInv
  <2>4. ASSUME Tidy, Starts # {}
        PROVE  findings' = (UNION {Judged(s) : s \in {t \in Starts : At(t).deployed}})'
    <3>1. FunctionsFit /\ findings = UNION {Judged(spans[n][1]) : n \in Deployed(i)}
      BY <1>0, <2>1, <2>4 DEF TidyInv
    <3>2. /\ spans # <<>>
          /\ (UNION {Judged(spans[n][1]) : n \in Deployed(i)})
               = UNION {Judged(s) : s \in {t \in Starts : At(t).deployed}}
      BY <1>0, <2>1, <2>4, <3>1, AllJudged
    <3>3. (UNION {Judged(s) : s \in {t \in Starts : At(t).deployed}})'
            = UNION {Judged(s) : s \in {t \in Starts : At(t).deployed}}
      BY <2>2
    <3> QED BY <2>1, <3>1, <3>2, <3>3
  <2>5. ExactFindings'
    BY <2>2, <2>4 DEF ExactFindings, Judged
  <2> QED BY <1>0, <2>2, <2>3, <2>5 DEF ExactInv
<1> QED BY <1>1, <1>3, <1>4, <1>5, <1>6, <1>7, <1>8 DEF Next

\* Of a tidy file exactly the deployed functions are judged, each as a whole and
\* every finding with the number of its line (analyze_file, test_block_ranges and
\* split_functions of analyze.rs), however many lines and functions it has.
THEOREM ScanIsExact == Spec => []ExactFindings
<1>1. ExactInv => ExactFindings
  BY DEF ExactInv
<1> QED BY <1>1, InitExact, NextExact, PTL DEF Spec
-----------------------------------------------------------------------------
(***************************************************************************)
(* WasmScan: the numbers are read back as they were encoded, and of a      *)
(* whole module the scan knows which section and which body it is at.      *)
(***************************************************************************)
LEMMA LeastIs ==
  ASSUME NEW S, S \subseteq Nat, NEW x \in S, \A y \in S : x <= y
  PROVE  Min(S) = x
<1>1. \E m \in S : \A y \in S : m <= y
  OBVIOUS
<1> DEFINE Least(m) == m \in S /\ \A y \in S : m <= y
<1>2. Min(S) = CHOOSE m : Least(m)
  BY DEF Min
<1>3. \A m : Least(m) => m = x
  OBVIOUS
<1>4. Least(x)
  OBVIOUS
<1> HIDE DEF Least
<1> QED BY <1>2, <1>3, <1>4

LEMMA WordsHaveMin ==
  ASSUME NEW n \in Nat, NEW S, S \subseteq 0 .. n - 1, S # {}
  PROVE  Min(S) \in S /\ \A y \in S : Min(S) <= y
<1> DEFINE T == {y + 1 : y \in S}
<1>1. T \subseteq 1 .. n /\ T # {}
  <2>1. \A y \in S : y + 1 \in 1 .. n
    OBVIOUS
  <2> QED BY <2>1
<1>2. PICK t \in T : \A y \in T : t <= y
  <2> HIDE DEF T
  <2> QED BY <1>1, PositionsHaveMin
<1>3. PICK x \in S : t = x + 1
  OBVIOUS
<1>4. \A y \in S : x <= y
  <2> TAKE y \in S
  <2>1. y + 1 \in T
    OBVIOUS
  <2>2. t <= y + 1
    BY <1>2, <2>1
  <2> HIDE DEF T
  <2> QED BY <1>3, <2>2
<1>5. Min(S) = x
  <2>1. S \subseteq Nat
    OBVIOUS
  <2> QED BY <1>4, <2>1, LeastIs
<1> QED BY <1>4, <1>5

LEMMA Remainder ==
  ASSUME NEW b \in Nat \ {0}, NEW x \in Nat
  PROVE  /\ x \div b \in Nat /\ x % b \in 0 .. b - 1
         /\ x = (x % b) + b * (x \div b)
OBVIOUS

LEMMA RemainderUnique ==
  ASSUME NEW b \in Nat \ {0}, NEW x \in 0 .. b - 1
  PROVE  x % b = x /\ (x + b) % b = x
OBVIOUS

-----------------------------------------------------------------------------
LEMMA WordsAre ==
  /\ Base \in Nat \ {0} /\ Word \in Nat \ {0} /\ MaxGroups \in Nat \ {0}
  /\ Header \in Seq(0 .. 2 * Base - 1)
BY InputsAssumption

\* What is known of the artifact.
InputIs(n) == n = Length /\ n \in 0 .. Word - 1 /\ \A p \in 0 .. n - 1 : Byte(p) \in 0 .. 2 * Base - 1

LEMMA InputFacts ==
  ASSUME input \in Inputs
  PROVE  InputIs(Length) /\ bytes \in Seq(0 .. 2 * Base - 1)
<1>1. bytes \in Seq(0 .. 2 * Base - 1) /\ Length \in 0 .. Word - 1
  BY InputsAssumption DEF bytes, Length
<1>2. \A p \in 0 .. Length - 1 : Byte(p) \in 0 .. 2 * Base - 1
  <2> TAKE p \in 0 .. Length - 1
  <2> DEFINE D == 0 .. 2 * Base - 1
  <2>1. p + 1 \in 1 .. Len(bytes)
    BY <1>1 DEF Length
  <2>2. bytes \in Seq(D)
    BY <1>1
  <2> HIDE DEF D
  <2>3. bytes[p + 1] \in D
    BY <2>1, <2>2, ElementOfSeq
  <2> QED BY <2>3 DEF Byte, D
<1> QED BY <1>1, <1>2 DEF InputIs

\* Horner's rule over a range of bytes.
Horner(f, p, n) ==
  /\ f \in [0 .. n - p -> Nat] /\ f[0] = 0
  /\ \A k \in 1 .. n - p : f[k] = (Byte(n - k) % Base) + Base * f[k - 1]

\* The function that gives the value of the groups from p up to n.
Written(p, n) ==
  CHOOSE f : f = [k \in 0 .. n - p |->
                    IF k = 0 THEN 0 ELSE (Byte(n - k) % Base) + Base * f[k - 1]]

LEMMA NumberIs ==
  ASSUME NEW l, InputIs(l), NEW p \in Nat, NEW n \in Nat, p < n, n <= l
  PROVE  Horner(Written(p, n), p, n)
<1> DEFINE m == n - p
           F == [k \in 1 .. m |-> [y \in Nat |-> (Byte(n - k) % Base) + Base * y]]
           Solves(f) == f = [k \in 0 .. m |->
                    IF k = 0 THEN 0 ELSE (Byte(n - k) % Base) + Base * f[k - 1]]
<1>1. m \in Nat /\ m >= 1
  OBVIOUS
<1>2. \A k \in 1 .. m : Byte(n - k) \in Nat /\ Byte(n - k) % Base \in Nat
  <2> TAKE k \in 1 .. m
  <2>1. n - k \in 0 .. l - 1
    BY DEF InputIs
  <2>2. Byte(n - k) \in Nat
    BY <2>1, WordsAre DEF InputIs
  <2> DEFINE w == Byte(n - k)
             b == Base
  <2>3. w \in Nat /\ b \in Nat \ {0}
    BY <2>2, WordsAre
  <2> HIDE DEF w, b
  <2>4. w % b \in 0 .. b - 1
    BY <2>3, Remainder
  <2>5. w % b \in Nat
    BY <2>3, <2>4
  <2> QED BY <2>2, <2>5 DEF w, b
<1>3. \A k \in 1 .. m, y \in Nat : (Byte(n - k) % Base) + Base * y \in Nat
  <2> TAKE k \in 1 .. m, y \in Nat
  <2> DEFINE b == Base
             r == Byte(n - k) % Base
  <2>1. b \in Nat /\ r \in Nat
    BY <1>2, WordsAre
  <2> HIDE DEF b, r
  <2>2. r + b * y \in Nat
    BY <2>1
  <2> QED BY <2>2 DEF b, r
<1>4. F \in [1 .. m -> [Nat -> Nat]]
  BY <1>3
<1>5. \A k \in 1 .. m, y \in Nat : F[k][y] = (Byte(n - k) % Base) + Base * y
  OBVIOUS
<1>s. \A f : Solves(f) <=> f = [k \in 0 .. m |->
                    IF k = 0 THEN 0 ELSE (Byte(n - k) % Base) + Base * f[k - 1]]
  OBVIOUS
<1>n. Written(p, n) = CHOOSE f : Solves(f)
  BY DEF Written
<1> HIDE DEF F, m, Solves
<1>6. PICK f \in [0 .. m -> Nat] : f[0] = 0 /\ \A k \in 1 .. m : f[k] = F[k][f[k - 1]]
  <2> DEFINE x == 0
             a == 0
             b == 1
             X == Nat
  <2>1. x \in X /\ a \in Nat /\ b = a + 1 /\ m \in Nat /\ a <= m
    BY <1>1
  <2>3. F \in [b .. m -> [X -> X]]
    BY <1>4
  <2> HIDE DEF x, a, b, X
  <2>2. \E f : Recurses(f, X, x, a, b, m, F)
    BY <2>1, <2>3, RecursionSolved
  <2> QED BY <2>2 DEF Recurses, x, a, b, X
<1>7. \A k \in 1 .. m : f[k] = (Byte(n - k) % Base) + Base * f[k - 1]
  <2> TAKE k \in 1 .. m
  <2>1. k - 1 \in 0 .. m
    BY <1>1
  <2> QED BY <1>5, <1>6, <2>1
<1>8. Solves(f)
  <2>1. \A k \in 0 .. m :
          f[k] = IF k = 0 THEN 0 ELSE (Byte(n - k) % Base) + Base * f[k - 1]
    <3> TAKE k \in 0 .. m
    <3>1. k = 0 \/ k \in 1 .. m
      BY <1>1
    <3> QED BY <1>6, <1>7, <3>1
  <2> QED BY <1>6, <1>s, <2>1
<1>9. Solves(Written(p, n))
  BY <1>8, <1>n
<1> DEFINE g == Written(p, n)
<1>10. /\ DOMAIN g = 0 .. m
       /\ \A k \in 0 .. m : g[k] = IF k = 0 THEN 0 ELSE (Byte(n - k) % Base) + Base * g[k - 1]
  BY <1>9, <1>s
<1> HIDE DEF g
<1>11. g[0] = 0 /\ \A k \in 1 .. m : g[k] = (Byte(n - k) % Base) + Base * g[k - 1]
  BY <1>1, <1>10
<1>12. \A k \in 0 .. m : g[k] \in Nat
  <2> DEFINE G == {k \in Nat : k <= m => g[k] \in Nat}
  <2>1. 0 \in G
    BY <1>11
  <2>2. \A k \in Nat : k \in G => k + 1 \in G
    <3> SUFFICES ASSUME NEW k \in Nat, k <= m => g[k] \in Nat, k + 1 <= m
                 PROVE  g[k + 1] \in Nat
      OBVIOUS
    <3>1. k + 1 \in 1 .. m /\ (k + 1) - 1 = k /\ g[k] \in Nat
      BY <1>1
    <3> QED BY <1>3, <1>11, <3>1
  <2> HIDE DEF G
  <2>3. Nat \subseteq G
    BY <2>1, <2>2, NatSetInduction
  <2> QED BY <1>1, <2>3 DEF G
<1>13. g \in [0 .. m -> Nat]
  <2>1. g = [k \in 0 .. m |-> g[k]]
    BY <1>9, <1>s DEF g
  <2> QED BY <1>12, <2>1
<1> QED BY <1>11, <1>13 DEF Horner, g, m

-----------------------------------------------------------------------------
\* The reader is somewhere in the artifact, whatever it reads.
UlebFits(u, p, lim) == u.value \in 0 .. Word - 1 /\ u.pos \in p .. lim

LEMMA UlebAs ==
  ASSUME NEW p, NEW lim
  PROVE  Uleb(p, lim) =
           LET groups == Smaller(MaxGroups, lim - p)
               lasts == {k \in 0 .. groups - 1 : ~More(p + k)}
               after == p + Min(lasts) + 1
           IN  IF lasts = {} THEN [value |-> 0, pos |-> p + groups]
               ELSE [value |-> Written(p, after)[after - p] % Word, pos |-> after]
BY DEF Uleb, Written

LEMMA UlebReads ==
  ASSUME NEW l, InputIs(l), NEW p \in Nat, NEW lim \in Nat, p <= lim, lim <= l
  PROVE  UlebFits(Uleb(p, lim), p, lim)
<1> DEFINE groups == Smaller(MaxGroups, lim - p)
           lasts == {k \in 0 .. groups - 1 : ~More(p + k)}
           after == p + Min(lasts) + 1
<1>1. groups \in Nat /\ groups <= lim - p
  BY WordsAre DEF Smaller
<1>2. lasts \subseteq 0 .. groups - 1
  OBVIOUS
<1>3. Uleb(p, lim) = IF lasts = {} THEN [value |-> 0, pos |-> p + groups]
                     ELSE [value |-> Written(p, after)[after - p] % Word, pos |-> after]
  BY UlebAs
<1> HIDE DEF groups, lasts, after
<1>4. CASE lasts = {}
  BY <1>1, <1>3, <1>4, WordsAre DEF UlebFits
<1>5. CASE lasts # {}
  <2>1. Min(lasts) \in lasts
    BY <1>1, <1>2, <1>5, WordsHaveMin
  <2>2. Min(lasts) \in 0 .. groups - 1
    BY <1>2, <2>1
  <2>3. after \in Nat /\ p < after /\ after <= lim /\ after <= l
    BY <1>1, <2>2 DEF after, InputIs
  <2>4. Horner(Written(p, after), p, after)
    BY <2>3, NumberIs
  <2> DEFINE number == Written(p, after)[after - p]
             w == Word
  <2>5. number \in Nat /\ w \in Nat \ {0}
    BY <2>3, <2>4, WordsAre DEF Horner
  <2> HIDE DEF number, w
  <2>6. number % w \in 0 .. w - 1
    BY <2>5, Remainder
  <2>7. Uleb(p, lim) = [value |-> number % w, pos |-> after]
    BY <1>3, <1>5 DEF number, w
  <2>8. Uleb(p, lim).value = number % w /\ Uleb(p, lim).pos = after
    BY <2>7
  <2> QED BY <2>3, <2>6, <2>8 DEF UlebFits, w
<1> QED BY <1>4, <1>5

\* The encoder's remainders.
Rests(f, n, v) ==
  /\ f \in [0 .. n -> Nat] /\ f[0] = v
  /\ \A k \in 1 .. n : f[k] = f[k - 1] \div Base

Remainders(n, v) ==
  CHOOSE f : f = [k \in 0 .. n |-> IF k = 0 THEN v ELSE f[k - 1] \div Base]

LEMMA RemaindersAre ==
  ASSUME NEW n \in Nat, NEW v \in Nat
  PROVE  Rests(Remainders(n, v), n, v)
<1> DEFINE F == [k \in 1 .. n |-> [y \in Nat |-> y \div Base]]
           Solves(f) == f = [k \in 0 .. n |-> IF k = 0 THEN v ELSE f[k - 1] \div Base]
<1>1. \A y \in Nat : y \div Base \in Nat
  <2> TAKE y \in Nat
  <2> DEFINE b == Base
  <2>1. b \in Nat \ {0}
    BY WordsAre
  <2> HIDE DEF b
  <2>2. y \div b \in Nat
    BY <2>1, Remainder
  <2> QED BY <2>2 DEF b
<1>4. F \in [1 .. n -> [Nat -> Nat]]
  BY <1>1
<1>5. \A k \in 1 .. n, y \in Nat : F[k][y] = y \div Base
  OBVIOUS
<1>s. \A f : Solves(f) <=> f = [k \in 0 .. n |-> IF k = 0 THEN v ELSE f[k - 1] \div Base]
  OBVIOUS
<1>n. Remainders(n, v) = CHOOSE f : Solves(f)
  BY DEF Remainders
<1> HIDE DEF F, Solves
<1>6. PICK f \in [0 .. n -> Nat] : f[0] = v /\ \A k \in 1 .. n : f[k] = F[k][f[k - 1]]
  <2> DEFINE x == v
             a == 0
             b == 1
             X == Nat
  <2>1. x \in X /\ a \in Nat /\ b = a + 1 /\ n \in Nat /\ a <= n
    OBVIOUS
  <2>3. F \in [b .. n -> [X -> X]]
    BY <1>4
  <2> HIDE DEF x, a, b, X
  <2>2. \E f : Recurses(f, X, x, a, b, n, F)
    BY <2>1, <2>3, RecursionSolved
  <2> QED BY <2>2 DEF Recurses, x, a, b, X
<1>7. \A k \in 1 .. n : f[k] = f[k - 1] \div Base
  <2> TAKE k \in 1 .. n
  <2>1. k - 1 \in 0 .. n
    OBVIOUS
  <2> QED BY <1>5, <1>6, <2>1
<1>8. Solves(f)
  <2>1. \A k \in 0 .. n : f[k] = IF k = 0 THEN v ELSE f[k - 1] \div Base
    <3> TAKE k \in 0 .. n
    <3>1. k = 0 \/ k \in 1 .. n
      OBVIOUS
    <3> QED BY <1>6, <1>7, <3>1
  <2> QED BY <1>6, <1>s, <2>1
<1>9. Solves(Remainders(n, v))
  BY <1>8, <1>n
<1> DEFINE g == Remainders(n, v)
<1>10. /\ DOMAIN g = 0 .. n
       /\ \A k \in 0 .. n : g[k] = IF k = 0 THEN v ELSE g[k - 1] \div Base
  BY <1>9, <1>s
<1> HIDE DEF g
<1>11. g[0] = v /\ \A k \in 1 .. n : g[k] = g[k - 1] \div Base
  BY <1>10
<1>12. \A k \in 0 .. n : g[k] \in Nat
  <2> DEFINE G == {k \in Nat : k <= n => g[k] \in Nat}
  <2>1. 0 \in G
    BY <1>11
  <2>2. \A k \in Nat : k \in G => k + 1 \in G
    <3> SUFFICES ASSUME NEW k \in Nat, k <= n => g[k] \in Nat, k + 1 <= n
                 PROVE  g[k + 1] \in Nat
      OBVIOUS
    <3>1. k + 1 \in 1 .. n /\ (k + 1) - 1 = k /\ g[k] \in Nat
      OBVIOUS
    <3> QED BY <1>1, <1>11, <3>1
  <2> HIDE DEF G
  <2>3. Nat \subseteq G
    BY <2>1, <2>2, NatSetInduction
  <2> QED BY <2>3 DEF G
<1>13. g \in [0 .. n -> Nat]
  <2>1. g = [k \in 0 .. n |-> g[k]]
    BY <1>9, <1>s DEF g
  <2> QED BY <1>12, <2>1
<1> QED BY <1>11, <1>13 DEF Rests, g

LEMMA EncodesAs ==
  ASSUME NEW p, NEW q, NEW v
  PROVE  Encodes(p, q, v) =
           /\ v \in 0 .. Word - 1 /\ q - p \in 1 .. MaxGroups /\ Remainders(q - p, v)[q - p] = 0
           /\ \A k \in 0 .. q - p - 1 :
                Byte(p + k) = (Remainders(q - p, v)[k] % Base) + (IF k < q - p - 1 THEN Base ELSE 0)
BY DEF Encodes, Remainders

\* A number is read back as it was encoded, and the reader stops behind it.
LEMMA NumberRead ==
  ASSUME NEW l, InputIs(l), NEW p \in Nat, NEW q \in Nat, NEW v, Encodes(p, q, v),
         NEW lim \in Nat, q <= lim, lim <= l
  PROVE  Uleb(p, lim) = [value |-> v, pos |-> q]
<1> DEFINE n == q - p
           rest == Remainders(n, v)
           b == Base
           W == Word
           M == MaxGroups
<1>1. /\ v \in 0 .. W - 1 /\ n \in 1 .. M /\ rest[n] = 0
      /\ \A k \in 0 .. n - 1 : Byte(p + k) = (rest[k] % b) + (IF k < n - 1 THEN b ELSE 0)
  BY EncodesAs
<1>2. b \in Nat \ {0} /\ W \in Nat \ {0} /\ M \in Nat \ {0}
  BY WordsAre
<1> HIDE DEF W, M
<1>3. v \in Nat /\ n \in Nat /\ n >= 1 /\ n <= M /\ q = p + n /\ p < q
  BY <1>1, <1>2
<1>4. Rests(rest, n, v)
  <2> HIDE DEF n
  <2> QED BY <1>3, RemaindersAre
<1> HIDE DEF n, rest
<1>5. \A k \in 0 .. n : rest[k] \in Nat
  BY <1>4 DEF Rests
<1>6. rest[0] = v /\ \A k \in 1 .. n : rest[k] = rest[k - 1] \div b
  BY <1>4 DEF Rests
<1> HIDE DEF b
\* Every group but the last says that one follows.
<1>7. \A k \in 0 .. n - 1 : (More(p + k) <=> k < n - 1) /\ Byte(p + k) % b = rest[k] % b
  <2> TAKE k \in 0 .. n - 1
  <2> DEFINE r == rest[k] % b
  <2>1. r \in 0 .. b - 1
    <3>1. rest[k] \in Nat
      BY <1>3, <1>5
    <3> QED BY <1>2, <3>1, Remainder
  <2>2. Byte(p + k) = r + (IF k < n - 1 THEN b ELSE 0)
    BY <1>1
  <2> HIDE DEF r
  <2>3. r % b = r /\ (r + b) % b = r
    BY <1>2, <2>1, RemainderUnique
  <2>4. Byte(p + k) = r \/ Byte(p + k) = r + b
    BY <1>2, <2>1, <2>2
  <2>5. Byte(p + k) % b = r
    BY <2>3, <2>4
  <2>6. More(p + k) <=> Byte(p + k) >= b
    BY DEF More, b
  <2>7. More(p + k) <=> k < n - 1
    BY <1>2, <2>1, <2>2, <2>6
  <2> QED BY <2>5, <2>7 DEF r
<1> DEFINE groups == Smaller(MaxGroups, lim - p)
           lasts == {k \in 0 .. groups - 1 : ~More(p + k)}
           after == p + Min(lasts) + 1
<1>8. groups \in Nat /\ n <= groups
  BY <1>2, <1>3 DEF Smaller, M
<1>9. Uleb(p, lim) = IF lasts = {} THEN [value |-> 0, pos |-> p + groups]
                     ELSE [value |-> Written(p, after)[after - p] % Word, pos |-> after]
  BY UlebAs
<1> HIDE DEF groups
<1>10. lasts \subseteq Nat /\ n - 1 \in lasts /\ \A y \in lasts : n - 1 <= y
  <2>1. n - 1 \in 0 .. groups - 1 /\ n - 1 \in 0 .. n - 1
    BY <1>3, <1>8
  <2>2. n - 1 \in lasts
    BY <1>3, <1>7, <2>1
  <2>3. \A y \in lasts : n - 1 <= y
    <3> TAKE y \in lasts
    <3>1. SUFFICES ASSUME y < n - 1 PROVE FALSE
      BY <1>3, <1>8
    <3>2. y \in 0 .. n - 1
      BY <1>3, <1>8, <3>1
    <3> QED BY <1>7, <3>1, <3>2
  <2> QED BY <1>8, <2>2, <2>3
<1> HIDE DEF lasts
<1>11. Min(lasts) = n - 1 /\ after = q
  <2>1. Min(lasts) = n - 1
    BY <1>10, LeastIs
  <2> QED BY <1>3, <2>1 DEF after
<1> HIDE DEF after
<1> DEFINE number == Written(p, q)
<1>12. Horner(number, p, q)
  BY <1>3, NumberIs DEF InputIs
<1> HIDE DEF number
<1>13. number[0] = 0 /\ \A k \in 1 .. n : number[k] = (Byte(q - k) % b) + b * number[k - 1]
  BY <1>12 DEF Horner, n, b
\* From the last group backwards the numbers are the remainders.
<1>14. \A k \in 0 .. n : number[k] = rest[n - k]
  <2> DEFINE G == {k \in Nat : k <= n => number[k] = rest[n - k]}
  <2>1. 0 \in G
    BY <1>1, <1>3, <1>13
  <2>2. \A k \in Nat : k \in G => k + 1 \in G
    <3> SUFFICES ASSUME NEW k \in Nat, k <= n => number[k] = rest[n - k], k + 1 <= n
                 PROVE  number[k + 1] = rest[n - (k + 1)]
      OBVIOUS
    <3> DEFINE e == n - (k + 1)
    <3>1. e \in 0 .. n - 1 /\ e + 1 \in 1 .. n /\ n - k = e + 1 /\ q - (k + 1) = p + e
          /\ k + 1 \in 1 .. n /\ (k + 1) - 1 = k /\ e \in 0 .. n /\ (e + 1) - 1 = e
      BY <1>3
    <3> HIDE DEF e
    <3>2. number[k + 1] = (Byte(q - (k + 1)) % b) + b * number[k]
      BY <1>13, <3>1
    <3>3. number[k] = rest[e + 1]
      BY <1>3, <3>1
    <3>4. rest[e + 1] = rest[e] \div b
      BY <1>6, <3>1
    <3>5. Byte(q - (k + 1)) % b = rest[e] % b
      BY <1>7, <3>1
    <3>6. number[k + 1] = (rest[e] % b) + b * (rest[e] \div b)
      BY <3>2, <3>3, <3>4, <3>5
    <3>7. rest[e] \in Nat
      BY <1>5, <3>1
    <3>8. rest[e] = (rest[e] % b) + b * (rest[e] \div b)
      BY <1>2, <3>7, Remainder
    <3> QED BY <3>6, <3>8 DEF e
  <2> HIDE DEF G
  <2>3. Nat \subseteq G
    BY <2>1, <2>2, NatSetInduction
  <2> QED BY <1>3, <2>3 DEF G
<1>15. number[n] = v
  BY <1>3, <1>6, <1>14
<1>16. v % W = v
  BY <1>1, <1>2, RemainderUnique
<1>17. Uleb(p, lim) = [value |-> number[q - p] % W, pos |-> q]
  BY <1>9, <1>10, <1>11 DEF number, W
<1>18. q - p = n
  BY DEF n
<1> QED BY <1>15, <1>16, <1>17, <1>18
-----------------------------------------------------------------------------
(***************************************************************************)
(* Every position and count is a number.                                   *)
(***************************************************************************)
WasmFits == input \in Inputs /\ WasmTypeOK /\ (step \in {"counts", "code", "bodies"} => IsPrefix(Header, bytes))

\* The extent of the section at pos.
SectionAt(s, f, l) ==
  /\ s.value \in 0 .. Word - 1 /\ s.pos \in pos + 1 .. l /\ f \in 0 .. l

LEMMA SectionRead ==
  ASSUME WasmFits, pos < Length
  PROVE  SectionAt(Payload, Finish, Length) /\ InputIs(Length)
<1> DEFINE l == Length
           s == Payload
<1>1. InputIs(l) /\ l \in Nat
  BY InputFacts DEF WasmFits, InputIs
<1>2. pos \in 0 .. l
  BY DEF WasmFits, WasmTypeOK
<1>3. l \in Nat /\ pos + 1 \in Nat /\ pos + 1 <= l
  BY <1>1, <1>2
<1>4. s = Uleb(pos + 1, l)
  BY DEF Payload
<1>5. Finish = Smaller(Plus(s.pos, s.value), l)
  BY DEF Finish, SectionEnd
<1> HIDE DEF l, s
<1>6. UlebFits(s, pos + 1, l)
  <2> DEFINE p == pos + 1
  <2>1. p \in Nat /\ p <= l
    BY <1>3
  <2> HIDE DEF p
  <2>2. UlebFits(Uleb(p, l), p, l)
    BY <1>1, <2>1, UlebReads
  <2> QED BY <1>4, <2>2 DEF p
<1>7. s.value \in 0 .. Word - 1 /\ s.pos \in pos + 1 .. l
  BY <1>6 DEF UlebFits
<1>8. Plus(s.pos, s.value) \in Nat
  <2> DEFINE w == Word
             x == s.pos + s.value
  <2>1. w \in Nat \ {0} /\ x \in Nat
    BY <1>2, <1>3, <1>7, WordsAre
  <2>2. Plus(s.pos, s.value) = x % w
    BY DEF Plus
  <2> HIDE DEF w, x
  <2>3. x % w \in Nat
    BY <2>1, Remainder
  <2> QED BY <2>2, <2>3
<1>9. Finish \in 0 .. l
  BY <1>1, <1>5, <1>8 DEF Smaller
<1> QED BY <1>1, <1>7, <1>9 DEF SectionAt, l, s

LEMMA InitFits == WasmInit => WasmFits
<1> SUFFICES ASSUME WasmInit PROVE WasmFits
  OBVIOUS
<1>1. input \in Inputs /\ InputIs(Length)
  BY InputFacts DEF WasmInit
<1>2. Length \in Nat /\ Word \in Nat \ {0}
  BY <1>1, WordsAre DEF InputIs
<1>3. 0 \in 0 .. Word - 1 /\ 0 \in 0 .. Length
  BY <1>2
<1>4. stats \in Stats
  BY <1>3 DEF WasmInit, Stats
<1>5. pos \in 0 .. Length /\ begin \in 0 .. Length /\ end \in begin .. Length
  BY <1>3 DEF WasmInit
<1>6. sub \in 0 .. end - begin /\ left \in 0 .. Word - 1
  BY <1>3 DEF WasmInit
<1>7. WasmTypeOK
  BY <1>4, <1>5, <1>6 DEF WasmInit, WasmTypeOK
<1> QED BY <1>1, <1>7 DEF WasmFits, WasmInit

\* What no step changes.
ArtifactStays == bytes' = bytes /\ Length' = Length /\ input' = input /\ checks' = checks

LEMMA FitsStays ==
  ASSUME WasmFits, [WasmNext]_wasmVars
  PROVE  WasmFits'
<1>1. ArtifactStays
  BY DEF ArtifactStays, WasmNext, wasmVars, ReadHeader, CountSection, Counted, CodeSection,
         ReadBody, BodiesDone, Scanned, bytes, Length
<1> DEFINE l == Length
           W == Word
           h == Len(Header)
           Steps == {"header", "counts", "code", "bodies", "done", "refused", "panicked"}
           CodeExtent(b, e, s) == b \in 0 .. l /\ e \in b .. l /\ s \in 0 .. e - b
           HeaderOK(s) == s \in {"counts", "code", "bodies"} => IsPrefix(Header, bytes)
<1>2. /\ input \in Inputs /\ checks \in BOOLEAN /\ wrapped \in BOOLEAN /\ step \in Steps
      /\ pos \in 0 .. l /\ CodeExtent(begin, end, sub) /\ left \in 0 .. W - 1 /\ stats \in Stats
      /\ HeaderOK(step)
  BY DEF WasmFits, WasmTypeOK
<1>3. InputIs(l) /\ l \in Nat /\ W \in Nat \ {0}
  BY <1>2, InputFacts, WordsAre DEF InputIs
<1>4. IsPrefix(Header, bytes) => h \in 0 .. l
  BY WordsAre, <1>3 DEF IsPrefix, Length
<1>5. wrapped' \in BOOLEAN
  BY <1>2 DEF WasmNext, wasmVars, ReadHeader, CountSection, Counted, CodeSection, ReadBody,
              BodiesDone, Scanned
<1>6. SUFFICES /\ step' \in Steps /\ pos' \in 0 .. l /\ CodeExtent(begin', end', sub')
               /\ left' \in 0 .. W - 1 /\ stats' \in Stats /\ HeaderOK(step')
  BY <1>1, <1>2, <1>5 DEF WasmFits, WasmTypeOK, ArtifactStays, Stats
<1> HIDE DEF l, W, h, CodeExtent
<1>7. CASE UNCHANGED wasmVars
  BY <1>2, <1>7 DEF wasmVars
<1>8. CASE ReadHeader
  BY <1>2, <1>4, <1>8 DEF ReadHeader, section, h
<1>9. CASE CountSection
  <2>1. pos < Length /\ step = "counts" /\ UNCHANGED section
    BY <1>9 DEF CountSection, Panic, section
  <2>2. SectionAt(Payload, Finish, l)
    BY <2>1, SectionRead DEF l
  <2>3. CASE Panic
    BY <1>2, <2>1, <2>3 DEF Panic, section
  <2>4. CASE ~BadExtent({Function, Memory, Export}) /\ ~Panic
    <3>1. /\ pos' = Finish /\ step' = step
          /\ stats' = IF Id \in {Function, Memory, Export}
                        THEN [stats EXCEPT ![Field] = Uleb(Payload.pos, Finish).value]
                        ELSE stats
      BY <1>9, <2>4 DEF CountSection
    <3>2. pos' \in 0 .. l
      BY <2>2, <3>1 DEF SectionAt
    <3>3. stats' \in Stats
      <4>1. CASE Id \in {Function, Memory, Export}
        <5>1. Payload.pos <= Finish
          BY <2>4, <4>1 DEF BadExtent
        <5> DEFINE a == Payload.pos
                   f == Finish
                   u == Uleb(a, f)
        <5>2. a \in Nat /\ f \in Nat /\ a <= f /\ f <= l
          BY <1>2, <1>3, <2>2, <5>1 DEF SectionAt
        <5> HIDE DEF a, f
        <5>3. UlebFits(u, a, f)
          BY <1>3, <5>2, UlebReads
        <5>4. u.value \in 0 .. Word - 1
          BY <5>3 DEF UlebFits
        <5>5. stats' = [stats EXCEPT ![Field] = u.value]
          BY <3>1, <4>1 DEF a, f
        <5> HIDE DEF u
        <5>6. Field \in {"functions", "memories", "exports"}
          BY <4>1 DEF Field
        <5> QED BY <1>2, <5>4, <5>5, <5>6 DEF Stats
      <4>2. CASE Id \notin {Function, Memory, Export}
        BY <1>2, <3>1, <4>2
      <4> QED BY <4>1, <4>2
    <3> QED BY <1>2, <2>1, <3>1, <3>2, <3>3 DEF section
  <2> QED BY <1>9, <2>3, <2>4 DEF CountSection
<1>10. CASE Counted
  BY <1>2, <1>4, <1>10 DEF Counted, section, h
<1>11. CASE CodeSection
  <2>1. pos < Length /\ step = "code"
    BY <1>11 DEF CodeSection
  <2>2. SectionAt(Payload, Finish, l)
    BY <2>1, SectionRead DEF l
  <2>3. CASE Panic
    BY <1>2, <2>1, <2>3 DEF Panic, section
  <2>4. CASE ~BadExtent({Code}) /\ Id = Code /\ ~Panic
    <3> DEFINE a == Payload.pos
               f == Finish
               u == Uleb(a, f)
    <3>1. /\ sub' = u.pos - a /\ left' = u.value /\ begin' = a /\ end' = f
          /\ step' = "bodies" /\ UNCHANGED <<pos, stats>>
      BY <1>11, <2>4 DEF CodeSection
    <3>2. a <= f
      BY <2>4 DEF BadExtent
    <3>3. a \in 0 .. l /\ f \in 0 .. l
      BY <1>2, <1>3, <2>2 DEF SectionAt
    <3>4. a \in Nat /\ f \in Nat /\ f <= l
      BY <1>3, <3>3
    <3> HIDE DEF a, f
    <3>5. UlebFits(u, a, f)
      BY <1>3, <3>2, <3>4, UlebReads
    <3>6. u.value \in 0 .. W - 1 /\ u.pos \in a .. f
      BY <3>5 DEF UlebFits, W
    <3> HIDE DEF u
    <3>7. CodeExtent(begin', end', sub')
      BY <1>3, <3>1, <3>2, <3>3, <3>6 DEF CodeExtent
    <3>8. HeaderOK(step')
      BY <1>2, <2>1
    <3> QED BY <1>2, <3>1, <3>6, <3>7, <3>8
  <2>5. CASE ~BadExtent({Code}) /\ Id # Code /\ ~Panic
    <3>1. pos' = Finish /\ UNCHANGED <<step, section, stats>>
      BY <1>11, <2>5 DEF CodeSection
    <3>2. pos' \in 0 .. l
      BY <2>2, <3>1 DEF SectionAt
    <3> QED BY <1>2, <3>1, <3>2 DEF section
  <2> QED BY <1>11, <2>3, <2>4, <2>5 DEF CodeSection
<1>12. CASE ReadBody
  <2>1. step = "bodies" /\ left > 0
    BY <1>12 DEF ReadBody
  <2>2. CASE Panic
    BY <1>2, <2>1, <2>2 DEF Panic, section
  <2>3. CASE ~Panic
    <3> DEFINE u == Size
               a == begin + sub
               A == Plus(u.pos - begin, u.value)
    <3>1. /\ stats' = IF TrapBetween(Size.pos, BodyEnd(Size))
                      THEN [stats EXCEPT !.trappy = @ + 1] ELSE stats
          /\ sub' = Smaller(A, end - begin)
          /\ left' = left - 1
          /\ UNCHANGED <<step, pos, begin, end>>
      BY <1>12, <2>3 DEF ReadBody, AfterBody
    <3>2. begin \in 0 .. l /\ end \in begin .. l /\ sub \in 0 .. end - begin
      BY <1>2 DEF CodeExtent
    <3>3. a \in Nat /\ end \in Nat /\ a <= end /\ end <= l
      BY <1>3, <3>2
    <3>4. u = Uleb(a, end)
      BY DEF Size
    <3> HIDE DEF a, u
    <3>5. UlebFits(u, a, end)
      BY <1>3, <3>3, <3>4, UlebReads
    <3>6. u.value \in 0 .. W - 1 /\ u.pos \in a .. end
      BY <3>5 DEF UlebFits, W
    <3>7. A \in Nat
      <4> DEFINE x == (u.pos - begin) + u.value
      <4>1. x \in Nat
        BY <1>3, <3>2, <3>3, <3>6 DEF a
      <4>2. A = x % W
        BY DEF Plus, W
      <4> HIDE DEF x, A
      <4>3. x % W \in Nat
        BY <1>3, <4>1, Remainder
      <4> QED BY <4>2, <4>3
    <3> HIDE DEF A
    <3>8. sub' \in 0 .. end - begin
      BY <1>3, <3>1, <3>2, <3>7 DEF Smaller
    <3>9. CodeExtent(begin', end', sub')
      BY <3>1, <3>2, <3>8 DEF CodeExtent
    <3>10. left' \in 0 .. W - 1
      BY <1>2, <1>3, <2>1, <3>1
    <3>11. stats' \in Stats
      BY <1>2, <3>1 DEF Stats
    <3> QED BY <1>2, <3>1, <3>9, <3>10, <3>11
  <2> QED BY <2>2, <2>3
<1>13. CASE BodiesDone
  <2>1. end \in 0 .. l
    BY <1>2, <1>3 DEF CodeExtent
  <2> QED BY <1>2, <1>13, <2>1 DEF BodiesDone, section
<1>14. CASE Scanned
  BY <1>2, <1>14 DEF Scanned, section
<1> QED BY <1>7, <1>8, <1>9, <1>10, <1>11, <1>12, <1>13, <1>14 DEF WasmNext
-----------------------------------------------------------------------------
(***************************************************************************)
(* Of a whole module the scan knows where it is.                           *)
(***************************************************************************)
Sections == input.sections
Traps == {j \in DOMAIN Declared : HasTrap(Declared[j])}

\* What is known of the module that the artifact encodes.
ModuleIs ==
  /\ Sections \in Seq(Piece) /\ input.bodies \in Seq(Piece)
  /\ input.module \in Module /\ Declared \in Seq(Body)

LEMMA ModuleFacts ==
  ASSUME input \in Inputs, IsModule
  PROVE  ModuleIs
<1>1. Sections \in Seq(Piece) /\ input.bodies \in Seq(Piece) /\ input.module \in Module \cup {NoModule}
  BY InputsAssumption DEF Sections
<1>2. input.module \in Module
  BY <1>1 DEF IsModule
<1> QED BY <1>1, <1>2 DEF ModuleIs, Declared, Module

\* A piece starts where the one before it ends, and its size is in front of it.
PieceAt(P, lead, a, b, k) ==
  /\ P[k].at \in Nat /\ P[k].from \in Nat /\ P[k].to \in Nat
  /\ P[k].at = Boundary(P, a, k) /\ Boundary(P, a, k + 1) = P[k].to
  /\ P[k].at + lead < P[k].from /\ P[k].from <= P[k].to /\ P[k].to <= b
  /\ Encodes(P[k].at + lead, P[k].from, P[k].to - P[k].from)

LEMMA PieceRead ==
  ASSUME NEW P \in Seq(Piece), NEW lead \in Nat, NEW a \in Nat, NEW b \in Nat,
         InRow(P, lead, a, b), NEW k \in 1 .. Len(P)
  PROVE  PieceAt(P, lead, a, b, k)
<1> DEFINE x == P[k]
           M == MaxGroups
           W == Word
<1>1. x \in Piece
  BY ElementOfSeq
<1>2. x.at \in Nat /\ x.from \in Nat /\ x.to \in Nat
  BY <1>1 DEF Piece
<1>3. x.at = Boundary(P, a, k) /\ x.to <= b /\ Encodes(x.at + lead, x.from, x.to - x.from)
  BY DEF InRow
<1>4. Boundary(P, a, k + 1) = x.to
  BY DEF Boundary
<1>5. x.to - x.from \in 0 .. W - 1 /\ x.from - (x.at + lead) \in 1 .. M
  BY <1>3, EncodesAs
<1>6. W \in Nat /\ M \in Nat
  BY WordsAre
<1> HIDE DEF x, M, W
<1>7. x.at + lead < x.from /\ x.from <= x.to
  <2> DEFINE p == x.at
             f == x.from
             t == x.to
  <2>1. p \in Nat /\ f \in Nat /\ t \in Nat /\ t - f \in 0 .. W - 1 /\ f - (p + lead) \in 1 .. M
    BY <1>2, <1>5
  <2> HIDE DEF p, f, t
  <2>2. p + lead < f /\ f <= t
    BY <1>6, <2>1
  <2> QED BY <2>2 DEF p, f, t
<1> QED BY <1>2, <1>3, <1>4, <1>7 DEF PieceAt, x

\* The reader stands before section k.
AtSection(k) == k \in 1 .. Len(Sections) + 1 /\ pos = Boundary(Sections, Len(Header), k)

\* Section k is read as it was encoded, and the reader goes on behind it.
SectionIs(x, k) ==
  /\ x.from \in Nat /\ x.to \in Nat /\ x.from <= x.to /\ x.to <= Length
  /\ pos < Length /\ Id = Byte(x.at) /\ ~Leaves(Payload.pos, Payload.value)
  /\ Payload.pos = x.from /\ Finish = x.to
  /\ Boundary(Sections, Len(Header), k + 1) = x.to /\ \A ids : ~BadExtent(ids)

LEMMA SectionKnown ==
  ASSUME WasmFits, IsModule, NEW k, AtSection(k), k # Len(Sections) + 1
  PROVE  k \in DOMAIN Sections /\ SectionIs(Sections[k], k)
<1> DEFINE l == Length
           h == Len(Header)
           P == Sections
           x == P[k]
           W == Word
<1>1. ModuleIs /\ InputIs(l) /\ InRow(P, 1, h, l)
  BY ModuleFacts, InputFacts DEF WasmFits, IsModule, Sections
<1>2. h \in Nat /\ W \in Nat \ {0} /\ l \in 0 .. W - 1 /\ P \in Seq(Piece)
  BY <1>1, WordsAre DEF InputIs, ModuleIs
<1>3. k \in 1 .. Len(P) /\ DOMAIN P = 1 .. Len(P) /\ pos = Boundary(P, h, k)
  BY <1>2 DEF AtSection
<1> HIDE DEF l, h, P
<1>4. l \in Nat
  BY <1>2
<1>5. PieceAt(P, 1, h, l, k)
  <2> DEFINE lead == 1
  <2>1. lead \in Nat /\ InRow(P, lead, h, l)
    BY <1>1
  <2> HIDE DEF lead
  <2>2. PieceAt(P, lead, h, l, k)
    BY <1>2, <1>3, <1>4, <2>1, PieceRead
  <2> QED BY <2>2 DEF lead
<1>6. /\ x.at \in Nat /\ x.from \in Nat /\ x.to \in Nat /\ x.at = pos
      /\ Boundary(P, h, k + 1) = x.to /\ x.at + 1 < x.from /\ x.from <= x.to /\ x.to <= l
      /\ Encodes(x.at + 1, x.from, x.to - x.from)
  BY <1>3, <1>5 DEF PieceAt
<1>7. Payload = [value |-> x.to - x.from, pos |-> x.from]
  <2> DEFINE p == x.at + 1
             q == x.from
             v == x.to - x.from
  <2>1. p \in Nat /\ q \in Nat /\ Encodes(p, q, v) /\ q <= l
    BY <1>4, <1>6
  <2>2. Payload = Uleb(p, l)
    BY <1>6 DEF Payload, l
  <2> HIDE DEF p, q, v
  <2>3. Uleb(p, l) = [value |-> v, pos |-> q]
    BY <1>1, <1>4, <2>1, NumberRead
  <2> QED BY <2>2, <2>3 DEF q, v
<1> HIDE DEF x
<1>8. Payload.pos = x.from /\ Payload.value = x.to - x.from
  BY <1>7
<1>9. Payload.pos + Payload.value = x.to /\ x.to \in 0 .. W - 1
  BY <1>2, <1>6, <1>8
<1>10. ~Leaves(Payload.pos, Payload.value) /\ Plus(Payload.pos, Payload.value) = x.to
  <2>1. x.to % W = x.to
    BY <1>2, <1>9, RemainderUnique
  <2>2. ~(x.to >= W)
    BY <1>2, <1>9
  <2> QED BY <1>9, <2>1, <2>2 DEF Leaves, Plus, W
<1>11. Finish = x.to
  BY <1>6, <1>10 DEF Finish, SectionEnd, Smaller, l
<1>12. pos < l /\ Id = Byte(x.at)
  BY <1>4, <1>6 DEF Id
<1>13. \A ids : ~BadExtent(ids)
  BY <1>6, <1>8, <1>10, <1>11 DEF BadExtent, Panics, l
<1> QED BY <1>3, <1>6, <1>8, <1>10, <1>11, <1>12, <1>13 DEF SectionIs, x, P, h, l

\* At the end of the last section the artifact ends.
LEMMA SectionsRead ==
  ASSUME WasmFits, IsModule, NEW k, AtSection(k), pos >= Length
  PROVE  k = Len(Sections) + 1
<1>1. pos \in Int /\ Length \in Int
  BY InputFacts DEF WasmFits, WasmTypeOK, InputIs
<1> QED BY <1>1, SectionKnown DEF SectionIs

LEMMA AtEnd ==
  ASSUME WasmFits, IsModule, AtSection(Len(Sections) + 1)
  PROVE  ~(pos < Length)
<1>1. pos = Length /\ Length \in Int
  BY InputFacts DEF WasmFits, InputIs, AtSection, IsModule, InRow, Sections
<1> QED BY <1>1

\* The sections before section k with an id.
Passed(id, k) == \E j \in SectionsOf(id) : j < k

LEMMA PassedNext ==
  ASSUME NEW k \in DOMAIN Sections, Sections \in Seq(Piece), NEW id
  PROVE  Passed(id, k + 1) <=> Passed(id, k) \/ Byte(Sections[k].at) = id
<1>1. SectionsOf(id) \subseteq DOMAIN Sections /\ DOMAIN Sections = 1 .. Len(Sections)
  BY DEF SectionsOf, Sections
<1>2. k \in SectionsOf(id) <=> Byte(Sections[k].at) = id
  BY DEF SectionsOf, Sections
<1>3. \A j \in DOMAIN Sections : j < k + 1 <=> j < k \/ j = k
  BY <1>1
<1> QED BY <1>1, <1>2, <1>3 DEF Passed

LEMMA PassedFirst ==
  ASSUME NEW id, Sections \in Seq(Piece)
  PROVE  ~Passed(id, 1) /\ (Passed(id, Len(Sections) + 1) <=> SectionsOf(id) # {})
<1>1. SectionsOf(id) \subseteq 1 .. Len(Sections)
  BY DEF SectionsOf, Sections
<1>2. \A j \in 1 .. Len(Sections) : j < Len(Sections) + 1 /\ ~(j < 1)
  OBVIOUS
<1> QED BY <1>1, <1>2 DEF Passed

-----------------------------------------------------------------------------
\* What was counted of the sections before section k.
HasCounted(f, id, k) == stats[f] = IF Passed(id, k) THEN input.module[f] ELSE 0
CountedTo(k) ==
  HasCounted("functions", Function, k) /\ HasCounted("memories", Memory, k) /\ HasCounted("exports", Export, k)
Counts == \A f \in {"functions", "memories", "exports"} : stats[f] = input.module[f]

\* Of the bodies of code section k, which start at q, body m is next.
InBodies(k, q, m) ==
  /\ k \in DOMAIN Sections /\ SectionsOf(Code) = {k}
  /\ begin = Sections[k].from /\ end = Sections[k].to
  /\ q \in Sections[k].from .. Sections[k].to /\ InRow(input.bodies, 0, q, Sections[k].to)
  /\ m \in 1 .. Len(Declared) + 1
  /\ begin + sub = Boundary(input.bodies, q, m) /\ left = Len(Declared) - (m - 1)
  /\ stats.trappy = Cardinality({j \in Traps : j < m})

Located ==
  /\ step = "header" => \A f \in {"functions", "memories", "exports", "trappy"} : stats[f] = 0
  /\ step = "counts" => stats.trappy = 0 /\ \E k : AtSection(k) /\ CountedTo(k)
  /\ step = "code" =>
       /\ Counts
       /\ \E k : AtSection(k) /\ stats.trappy = IF Passed(Code, k) THEN Cardinality(Traps) ELSE 0
  /\ step = "bodies" => Counts /\ \E k, q, m : InBodies(k, q, m)
  /\ step = "done" => Counts /\ stats.trappy = Cardinality(Traps)

WasmInv == WasmFits /\ (IsModule => Located)

\* The module is the same after every step.
ModuleStays ==
  /\ IsModule' = IsModule /\ Sections' = Sections /\ Declared' = Declared /\ Traps' = Traps
  /\ \A id : SectionsOf(id)' = SectionsOf(id)
  /\ \A id, k : Passed(id, k)' = Passed(id, k)
  /\ \A P, lead, a, b : InRow(P, lead, a, b)' = InRow(P, lead, a, b)

LEMMA ModuleStaysIf ==
  ASSUME input' = input
  PROVE  ModuleStays
<1>1. bytes' = bytes /\ Length' = Length /\ Sections' = Sections /\ Declared' = Declared
  BY DEF bytes, Length, Sections, Declared
<1>2. \A p : Byte(p)' = Byte(p)
  BY <1>1 DEF Byte
<1>3. \A p, q, v : Encodes(p, q, v)' = Encodes(p, q, v)
  <2> TAKE p, q, v
  <2>1. \A x : Byte(x)' = Byte(x)
    BY <1>2
  <2> QED BY <1>1 DEF Encodes, Byte
<1>4. \A P, lead, a, b : InRow(P, lead, a, b)' = InRow(P, lead, a, b)
  BY <1>3 DEF InRow
<1>5. \A id : SectionsOf(id)' = SectionsOf(id)
  BY <1>1 DEF SectionsOf, Byte
<1>6. \A id, k : Passed(id, k)' = Passed(id, k)
  BY <1>5 DEF Passed
<1>7. \A id, n : Declares(id, n)' = Declares(id, n)
  BY <1>3, <1>5 DEF Declares
<1>8. DeclaresBodies' = DeclaresBodies
  BY <1>1, <1>3, <1>4, <1>5 DEF DeclaresBodies
<1>9. IsModule' = IsModule
  BY <1>1, <1>4, <1>7, <1>8 DEF IsModule
<1>10. Traps' = Traps
  BY <1>1 DEF Traps, HasTrap
<1> QED BY <1>1, <1>4, <1>5, <1>6, <1>9, <1>10 DEF ModuleStays

-----------------------------------------------------------------------------
\* Body m is read as it was encoded: the trap looked for is looked for in it.
LEMMA BodyKnown ==
  ASSUME WasmFits, IsModule, NEW k, NEW q, NEW m, InBodies(k, q, m), left > 0
  PROVE  /\ m \in DOMAIN Declared /\ m \in Nat /\ left = Len(Declared) - (m - 1)
         /\ ~Leaves(Size.pos, Size.value)
         /\ begin + AfterBody(Size) = Boundary(input.bodies, q, m + 1)
         /\ TrapBetween(Size.pos, BodyEnd(Size)) <=> m \in Traps
<1> DEFINE l == Length
           P == input.bodies
           x == P[m]
           W == Word
           B == Declared
           e == end
<1>1. ModuleIs /\ InputIs(l) /\ bytes \in Seq(0 .. 2 * Base - 1) /\ Len(bytes) = l
  BY ModuleFacts, InputFacts DEF WasmFits, Length
<1>2. W \in Nat \ {0} /\ l \in 0 .. W - 1 /\ P \in Seq(Piece) /\ B \in Seq(Body)
      /\ Sections \in Seq(Piece)
  BY <1>1, WordsAre DEF InputIs, ModuleIs
<1>3. /\ k \in DOMAIN Sections /\ SectionsOf(Code) = {k} /\ begin = Sections[k].from /\ e = Sections[k].to
      /\ q \in Sections[k].from .. Sections[k].to /\ InRow(P, 0, q, e)
      /\ m \in 1 .. Len(B) + 1 /\ begin + sub = Boundary(P, q, m) /\ left = Len(B) - (m - 1)
  BY DEF InBodies
<1>4. Len(P) = Len(B) /\ \A j \in DOMAIN B : B[j].bytes = SubSeq(bytes, P[j].from + 1, P[j].to)
  BY <1>3 DEF IsModule, DeclaresBodies
<1>5. Sections[k] \in Piece
  BY <1>2, <1>3, ElementOfSeq
<1>6. begin \in Nat /\ e \in Nat /\ q \in Nat /\ begin <= q /\ q <= e
  BY <1>3, <1>5 DEF Piece
<1>7. e <= l /\ l \in Nat
  BY <1>1, <1>2 DEF WasmFits, WasmTypeOK
<1> HIDE DEF l, P, B, e
<1>8. m \in 1 .. Len(B) /\ m \in Nat /\ Len(B) \in Nat
  BY <1>2, <1>3
<1>9. PieceAt(P, 0, q, e, m)
  <2> DEFINE lead == 0
  <2>1. lead \in Nat /\ InRow(P, lead, q, e) /\ m \in 1 .. Len(P)
    BY <1>3, <1>4, <1>8
  <2> HIDE DEF lead
  <2>2. PieceAt(P, lead, q, e, m)
    BY <1>2, <1>6, <2>1, PieceRead
  <2> QED BY <2>2 DEF lead
<1>10. /\ x.at \in Nat /\ x.from \in Nat /\ x.to \in Nat /\ x.at = begin + sub
       /\ Boundary(P, q, m + 1) = x.to /\ x.at < x.from /\ x.from <= x.to /\ x.to <= e
       /\ Encodes(x.at, x.from, x.to - x.from)
  BY <1>3, <1>9 DEF PieceAt
<1>11. begin <= x.at
  <2>1. sub \in Nat
    BY <1>6, <1>7 DEF WasmFits, WasmTypeOK, e, l
  <2> QED BY <1>6, <1>10, <2>1
<1>12. Size = [value |-> x.to - x.from, pos |-> x.from]
  <2> DEFINE p == x.at
             a == x.from
             v == x.to - x.from
  <2>1. p \in Nat /\ a \in Nat /\ Encodes(p, a, v) /\ a <= e
    BY <1>6, <1>10
  <2>2. Size = Uleb(p, e)
    BY <1>10 DEF Size, e
  <2> HIDE DEF p, a, v
  <2>3. Uleb(p, e) = [value |-> v, pos |-> a]
    BY <1>1, <1>6, <1>7, <2>1, NumberRead
  <2> QED BY <2>2, <2>3 DEF a, v
<1> HIDE DEF x
<1>13. Size.pos = x.from /\ Size.value = x.to - x.from
  BY <1>12
<1>14. /\ Size.pos + Size.value = x.to /\ x.to \in 0 .. W - 1
       /\ (Size.pos - begin) + Size.value = x.to - begin /\ x.to - begin \in 0 .. W - 1
  BY <1>2, <1>6, <1>7, <1>10, <1>11, <1>13
<1>15. ~Leaves(Size.pos, Size.value)
  BY <1>2, <1>14 DEF Leaves, W
<1>16. BodyEnd(Size) = x.to
  <2>1. x.to % W = x.to
    BY <1>2, <1>14, RemainderUnique
  <2> QED BY <1>10, <1>14, <2>1 DEF BodyEnd, Plus, Smaller, W, e
<1>17. AfterBody(Size) = x.to - begin
  <2>1. (x.to - begin) % W = x.to - begin
    BY <1>2, <1>14, RemainderUnique
  <2>2. x.to - begin <= e - begin
    BY <1>6, <1>10
  <2> QED BY <1>14, <2>1, <2>2 DEF AfterBody, Plus, Smaller, W, e
<1>18. TrapBetween(x.from, x.to) <=> m \in Traps
  <2> DEFINE s == SubSeq(bytes, x.from + 1, x.to)
             len == x.to - x.from
  <2>1. B[m].bytes = s /\ m \in DOMAIN B
    BY <1>2, <1>4, <1>8 DEF x
  <2>2. Len(s) = len /\ \A j \in 1 .. len : s[j] = bytes[x.from + j]
    <3> DEFINE D == 0 .. 2 * Base - 1
               f == x.from
               t == x.to
               w == bytes
    <3>1. w \in Seq(D) /\ f \in Nat /\ t \in Nat /\ f <= t /\ t <= Len(w)
      BY <1>1, <1>6, <1>7, <1>10
    <3> HIDE DEF D, f, t, w
    <3>2. Len(SubSeq(w, f + 1, t)) = t - f
      BY <3>1
    <3>3. \A j \in 1 .. t - f : SubSeq(w, f + 1, t)[j] = w[f + j]
      BY <3>1
    <3> QED BY <3>2, <3>3 DEF f, t, w
  <2> HIDE DEF s
  <2>3. m \in Traps <=> HasTrap(B[m])
    BY <2>1 DEF Traps, B
  <2>4. HasTrap(B[m]) <=> \E j \in 1 .. len - 1 : s[j] = Unreachable /\ s[j + 1] = End
    BY <2>1, <2>2 DEF HasTrap
  <2>5. \A j \in 1 .. len - 1 : s[j] = Byte(x.from + j - 1) /\ s[j + 1] = Byte(x.from + j)
    <3> TAKE j \in 1 .. len - 1
    <3>1. j \in 1 .. len /\ j + 1 \in 1 .. len /\ (x.from + j - 1) + 1 = x.from + j
          /\ x.from + (j + 1) = (x.from + j) + 1
      BY <1>10
    <3> QED BY <2>2, <3>1 DEF Byte
  <2>6. HasTrap(B[m]) => TrapBetween(x.from, x.to)
    <3> SUFFICES ASSUME NEW j \in 1 .. len - 1, s[j] = Unreachable, s[j + 1] = End
                 PROVE  \E p \in x.from .. x.to - 2 : Byte(p) = Unreachable /\ Byte(p + 1) = End
      BY <2>4 DEF TrapBetween
    <3> DEFINE p == x.from + j - 1
    <3>1. p \in x.from .. x.to - 2 /\ p + 1 = x.from + j
      BY <1>10
    <3>2. Byte(p) = Unreachable /\ Byte(x.from + j) = End
      BY <2>5
    <3> HIDE DEF p
    <3> QED BY <3>1, <3>2
  <2>7. TrapBetween(x.from, x.to) => HasTrap(B[m])
    <3> SUFFICES ASSUME NEW p \in x.from .. x.to - 2, Byte(p) = Unreachable, Byte(p + 1) = End
                 PROVE  \E j \in 1 .. len - 1 : s[j] = Unreachable /\ s[j + 1] = End
      BY <2>4 DEF TrapBetween
    <3> DEFINE j == p - x.from + 1
    <3>1. j \in 1 .. len - 1 /\ x.from + j - 1 = p /\ x.from + j = p + 1
      BY <1>10
    <3> HIDE DEF j
    <3>2. s[j] = Byte(p) /\ s[j + 1] = Byte(p + 1)
      BY <2>5, <3>1
    <3> QED BY <3>1, <3>2
  <2> QED BY <2>3, <2>6, <2>7
<1>19. begin + (x.to - begin) = x.to
  BY <1>6, <1>10
<1>20. m \in DOMAIN B
  BY <1>2, <1>8
<1> QED BY <1>3, <1>8, <1>10, <1>13, <1>15, <1>16, <1>17, <1>18, <1>19, <1>20 DEF P, B

LEMMA TrapsCounted ==
  ASSUME Declared \in Seq(Body), NEW m \in Nat
  PROVE  /\ IsFiniteSet({j \in Traps : j < m})
         /\ Cardinality({j \in Traps : j < m + 1}) =
              Cardinality({j \in Traps : j < m}) + (IF m \in Traps THEN 1 ELSE 0)
         /\ {j \in Traps : j < 1} = {}
         /\ {j \in Traps : j < Len(Declared) + 1} = Traps
<1> DEFINE n == Len(Declared)
           S == {j \in Traps : j < m}
           T == {j \in Traps : j < m + 1}
<1>1. Traps \subseteq 1 .. n /\ n \in Nat
  BY DEF Traps
<1>2. IsFiniteSet(1 .. n)
  BY <1>1, FS_Interval
<1>3. \A j \in Traps : j \in Int /\ (j < m + 1 <=> j < m \/ j = m) /\ ~(j < 1) /\ j < n + 1
  BY <1>1
<1> HIDE DEF n
<1>4. S \subseteq 1 .. n /\ m \notin S
  <2>1. S \subseteq Traps /\ ~(m < m)
    OBVIOUS
  <2>2. m \notin S
    BY <2>1
  <2> HIDE DEF S
  <2> QED BY <1>1, <2>1, <2>2
<1>5. IsFiniteSet(S) /\ Cardinality(S) \in Nat
  <2> HIDE DEF S
  <2> QED BY <1>2, <1>4, FS_Subset, FS_CardinalityType
<1>6. {j \in Traps : j < 1} = {} /\ {j \in Traps : j < n + 1} = Traps
  BY <1>3
<1>7. T = IF m \in Traps THEN S \cup {m} ELSE S
  <2>1. CASE m \in Traps
    <3>1. m < m + 1
      OBVIOUS
    <3>2. \A j : j \in T <=> j \in S \cup {m}
      BY <1>3, <2>1, <3>1
    <3> HIDE DEF S, T
    <3> QED BY <2>1, <3>2
  <2>2. CASE m \notin Traps
    <3>1. \A j : j \in T <=> j \in S
      BY <1>3, <2>2
    <3> HIDE DEF S, T
    <3> QED BY <2>2, <3>1
  <2> QED BY <2>1, <2>2
<1>8. Cardinality(T) = Cardinality(S) + (IF m \in Traps THEN 1 ELSE 0)
  <2> HIDE DEF S, T
  <2>1. Cardinality(S \cup {m}) = Cardinality(S) + 1
    BY <1>4, <1>5, FS_AddElement
  <2> QED BY <1>5, <1>7, <2>1
<1> QED BY <1>5, <1>6, <1>8 DEF n

-----------------------------------------------------------------------------
LEMMA InitLocated == WasmInit => Located
BY DEF WasmInit, Located

\* What a step relates of the module, the one before it and the one after it.
LEMMA SameModule ==
  ASSUME WasmInv, WasmNext, IsModule'
  PROVE  ModuleStays /\ input' = input /\ WasmFits /\ IsModule /\ Located /\ ModuleIs
<1>1. input' = input
  BY DEF WasmNext, ReadHeader, CountSection, Counted, CodeSection, ReadBody, BodiesDone, Scanned
<1>2. ModuleStays
  BY <1>1, ModuleStaysIf
<1>3. IsModule
  BY <1>2 DEF ModuleStays
<1>4. ModuleIs
  BY <1>3, ModuleFacts DEF WasmInv, WasmFits
<1> QED BY <1>1, <1>2, <1>3, <1>4 DEF WasmInv

LEMMA HeaderLocates ==
  ASSUME WasmInv, WasmNext, IsModule', ReadHeader
  PROVE  Located'
<1>1. ModuleStays /\ input' = input /\ WasmFits /\ IsModule /\ Located /\ ModuleIs
  BY SameModule
<1>2. step = "header" /\ step' = "counts" /\ pos' = Len(Header) /\ stats' = stats
  BY <1>1 DEF ReadHeader, IsModule
<1>3. \A f \in {"functions", "memories", "exports", "trappy"} : stats[f] = 0
  BY <1>1, <1>2 DEF Located
<1>4. Sections \in Seq(Piece) /\ Sections' = Sections
  BY <1>1 DEF ModuleIs, ModuleStays
<1>5. AtSection(1)'
  <2>1. Len(Sections) \in Nat /\ 1 \in 1 .. Len(Sections) + 1
    BY <1>4
  <2> QED BY <1>2, <1>4, <2>1 DEF AtSection, Boundary
<1>6. \A id : ~Passed(id, 1)'
  BY <1>1, <1>4, PassedFirst DEF ModuleStays
<1>7. CountedTo(1)'
  BY <1>2, <1>3, <1>6 DEF CountedTo, HasCounted
<1> QED BY <1>2, <1>3, <1>5, <1>7 DEF Located

\* The id of a section that is counted is the id of one field.
LEMMA FieldsDiffer ==
  /\ Function # Memory /\ Function # Export /\ Memory # Export
  /\ Code # Function /\ Code # Memory /\ Code # Export
<1>1. IsInjective(<<Function, Memory, Export, Code>>)
  BY InputsAssumption
<1> QED BY <1>1 DEF IsInjective

\* What a section that is counted declares is what is read at its start.
LEMMA CountRead ==
  ASSUME WasmFits, IsModule, NEW k \in DOMAIN Sections, SectionIs(Sections[k], k),
         NEW id, Id = id, NEW n, Declares(id, n)
  PROVE  Uleb(Payload.pos, Finish).value = n
<1> DEFINE x == Sections[k]
           l == Length
           lim == x.to
<1>1. k \in SectionsOf(id)
  BY DEF SectionsOf, SectionIs, Sections
<1>2. PICK q \in x.from .. x.to : Encodes(x.from, q, n)
  <2>1. PICK j \in DOMAIN Sections : SectionsOf(id) = {j} /\ \E q \in Sections[j].from .. Sections[j].to :
                                       Encodes(Sections[j].from, q, n)
    BY <1>1 DEF Declares, Sections
  <2>2. j = k
    BY <1>1, <2>1
  <2> QED BY <2>1, <2>2
<1>3. x.from \in Nat /\ lim \in Nat /\ lim <= l /\ Payload.pos = x.from /\ Finish = lim
  BY DEF SectionIs
<1>4. InputIs(l)
  BY InputFacts DEF WasmFits
<1> DEFINE p == x.from
<1>5. p \in Nat /\ q \in Nat /\ q <= lim /\ Encodes(p, q, n) /\ p = Payload.pos
  BY <1>2, <1>3
<1> HIDE DEF p, l, x, lim
<1>6. Uleb(p, lim) = [value |-> n, pos |-> q]
  BY <1>3, <1>4, <1>5, NumberRead
<1> QED BY <1>3, <1>5, <1>6

LEMMA CountLocates ==
  ASSUME WasmInv, WasmNext, IsModule', CountSection
  PROVE  Located'
<1>1. ModuleStays /\ input' = input /\ WasmFits /\ IsModule /\ Located /\ ModuleIs
  BY SameModule
<1>2. step = "counts" /\ pos < Length
  BY DEF CountSection
<1>3. stats.trappy = 0 /\ \E k : AtSection(k) /\ CountedTo(k)
  BY <1>1, <1>2 DEF Located
<1>4. PICK k : AtSection(k) /\ CountedTo(k)
  BY <1>3
<1>5. k # Len(Sections) + 1
  BY <1>1, <1>2, <1>4, AtEnd
<1>6. k \in DOMAIN Sections /\ SectionIs(Sections[k], k)
  BY <1>1, <1>4, <1>5, SectionKnown
<1>7. ~BadExtent({Function, Memory, Export})
  BY <1>6 DEF SectionIs
<1>8. /\ pos' = Finish /\ step' = "counts"
      /\ stats' = IF Id \in {Function, Memory, Export}
                    THEN [stats EXCEPT ![Field] = Uleb(Payload.pos, Finish).value]
                    ELSE stats
  BY <1>2, <1>7 DEF CountSection
<1>9. AtSection(k + 1)'
  <2>1. Sections \in Seq(Piece) /\ Sections' = Sections
    BY <1>1 DEF ModuleIs, ModuleStays
  <2>2. k + 1 \in 1 .. Len(Sections) + 1
    BY <1>6, <2>1
  <2>3. pos' = Boundary(Sections, Len(Header), k + 1)
    BY <1>6, <1>8 DEF SectionIs
  <2> QED BY <2>1, <2>2, <2>3 DEF AtSection
<1> DEFINE n == Uleb(Payload.pos, Finish).value
<1>10. \A id : Passed(id, k + 1)' <=> Passed(id, k) \/ Id = id
  <2> TAKE id
  <2>1. Passed(id, k + 1) <=> Passed(id, k) \/ Byte(Sections[k].at) = id
    BY <1>1, <1>6, PassedNext DEF ModuleIs
  <2> QED BY <1>1, <1>6, <2>1 DEF ModuleStays, SectionIs
<1>11. stats \in Stats
  BY <1>1 DEF WasmFits, WasmTypeOK
<1>12. /\ Id = Function => n = input.module.functions
       /\ Id = Memory => n = input.module.memories
       /\ Id = Export => n = input.module.exports
  <2>1. Declares(Function, input.module.functions) /\ Declares(Memory, input.module.memories)
        /\ Declares(Export, input.module.exports)
    BY <1>1 DEF IsModule
  <2> QED BY <1>1, <1>6, <2>1, CountRead
<1> HIDE DEF n
<1>13. /\ stats'.trappy = stats.trappy
       /\ stats'.functions = IF Id = Function THEN n ELSE stats.functions
       /\ stats'.memories = IF Id = Memory THEN n ELSE stats.memories
       /\ stats'.exports = IF Id = Export THEN n ELSE stats.exports
  <2>1. stats' = IF Id \in {Function, Memory, Export} THEN [stats EXCEPT ![Field] = n] ELSE stats
    BY <1>8 DEF n
  <2>2. CASE Id = Function
    <3>1. Field = "functions"
      BY <2>2, FieldsDiffer DEF Field
    <3> QED BY <1>11, <2>1, <2>2, <3>1, FieldsDiffer DEF Stats
  <2>3. CASE Id = Memory
    <3>1. Field = "memories"
      BY <2>3, FieldsDiffer DEF Field
    <3> QED BY <1>11, <2>1, <2>3, <3>1, FieldsDiffer DEF Stats
  <2>4. CASE Id = Export
    <3>1. Field = "exports"
      BY <2>4, FieldsDiffer DEF Field
    <3> QED BY <1>11, <2>1, <2>4, <3>1, FieldsDiffer DEF Stats
  <2>5. CASE Id \notin {Function, Memory, Export}
    BY <2>1, <2>5
  <2> QED BY <2>2, <2>3, <2>4, <2>5
<1>14. CountedTo(k + 1)'
  <2>1. input'.module = input.module
    BY <1>1
  <2>2. HasCounted("functions", Function, k + 1)'
    BY <1>4, <1>10, <1>12, <1>13, <2>1 DEF CountedTo, HasCounted
  <2>3. HasCounted("memories", Memory, k + 1)'
    BY <1>4, <1>10, <1>12, <1>13, <2>1 DEF CountedTo, HasCounted
  <2>4. HasCounted("exports", Export, k + 1)'
    BY <1>4, <1>10, <1>12, <1>13, <2>1 DEF CountedTo, HasCounted
  <2> QED BY <2>2, <2>3, <2>4 DEF CountedTo
<1> QED BY <1>3, <1>8, <1>9, <1>13, <1>14 DEF Located

\* At the end of the artifact the whole module has been counted.
LEMMA AllCounted ==
  ASSUME IsModule, ModuleIs, CountedTo(Len(Sections) + 1)
  PROVE  Counts
<1>1. \A id : Passed(id, Len(Sections) + 1) <=> SectionsOf(id) # {}
  BY PassedFirst DEF ModuleIs
<1>2. \A f, id : Declares(id, input.module[f]) /\ HasCounted(f, id, Len(Sections) + 1) => stats[f] = input.module[f]
  BY <1>1 DEF Declares, HasCounted
<1>3. /\ Declares(Function, input.module["functions"]) /\ Declares(Memory, input.module["memories"])
      /\ Declares(Export, input.module["exports"])
  BY DEF IsModule
<1> QED BY <1>2, <1>3 DEF CountedTo, Counts

LEMMA CountedLocates ==
  ASSUME WasmInv, WasmNext, IsModule', Counted
  PROVE  Located'
<1>1. ModuleStays /\ input' = input /\ WasmFits /\ IsModule /\ Located /\ ModuleIs
  BY SameModule
<1>2. step = "counts" /\ pos >= Length /\ step' = "code" /\ pos' = Len(Header) /\ stats' = stats
  BY DEF Counted
<1>3. PICK k : AtSection(k) /\ CountedTo(k)
  BY <1>1, <1>2 DEF Located
<1>4. stats.trappy = 0
  BY <1>1, <1>2 DEF Located
<1>5. k = Len(Sections) + 1
  BY <1>1, <1>2, <1>3, SectionsRead
<1>6. Counts
  BY <1>1, <1>3, <1>5, AllCounted
<1>7. Sections \in Seq(Piece) /\ Sections' = Sections
  BY <1>1 DEF ModuleIs, ModuleStays
<1>8. AtSection(1)'
  <2>1. Len(Sections) \in Nat /\ 1 \in 1 .. Len(Sections) + 1
    BY <1>7
  <2> QED BY <1>2, <1>7, <2>1 DEF AtSection, Boundary
<1>9. ~Passed(Code, 1)'
  BY <1>1, <1>7, PassedFirst DEF ModuleStays
<1>10. Counts'
  BY <1>1, <1>2, <1>6 DEF Counts
<1> QED BY <1>2, <1>4, <1>8, <1>9, <1>10 DEF Located

LEMMA CodeLocates ==
  ASSUME WasmInv, WasmNext, IsModule', CodeSection
  PROVE  Located'
<1>1. ModuleStays /\ input' = input /\ WasmFits /\ IsModule /\ Located /\ ModuleIs
  BY SameModule
<1>2. step = "code" /\ pos < Length
  BY DEF CodeSection
<1>3. Counts
  BY <1>1, <1>2 DEF Located
<1>4. PICK k : AtSection(k) /\ stats.trappy = IF Passed(Code, k) THEN Cardinality(Traps) ELSE 0
  BY <1>1, <1>2 DEF Located
<1>5. k # Len(Sections) + 1
  BY <1>1, <1>2, <1>4, AtEnd
<1>6. k \in DOMAIN Sections /\ SectionIs(Sections[k], k)
  BY <1>1, <1>4, <1>5, SectionKnown
<1>7. ~BadExtent({Code})
  BY <1>6 DEF SectionIs
<1>8. Sections \in Seq(Piece) /\ Sections' = Sections /\ Traps' = Traps
  BY <1>1 DEF ModuleIs, ModuleStays
<1>9. CASE Id # Code
  <2>1. pos' = Finish /\ step' = "code" /\ stats' = stats
    BY <1>2, <1>7, <1>9 DEF CodeSection
  <2>2. k + 1 \in 1 .. Len(Sections) + 1 /\ pos' = Boundary(Sections, Len(Header), k + 1)
    BY <1>6, <1>8, <2>1 DEF SectionIs
  <2>3. AtSection(k + 1)'
    BY <1>8, <2>2 DEF AtSection
  <2>4. Passed(Code, k + 1) <=> Passed(Code, k) \/ Byte(Sections[k].at) = Code
    BY <1>6, <1>8, PassedNext
  <2>5. Passed(Code, k + 1)' <=> Passed(Code, k)
    BY <1>1, <1>6, <1>9, <2>4 DEF ModuleStays, SectionIs
  <2>6. Counts'
    BY <1>1, <1>3, <2>1 DEF Counts
  <2> QED BY <1>4, <1>8, <2>1, <2>3, <2>5, <2>6 DEF Located
<1>10. CASE Id = Code
  <2> DEFINE x == Sections[k]
             a == x.from
             lim == x.to
             l == Length
             n == Len(Declared)
             u == Uleb(Payload.pos, Finish)
  <2>1. /\ sub' = u.pos - Payload.pos /\ left' = u.value /\ begin' = Payload.pos /\ end' = Finish
        /\ step' = "bodies" /\ stats' = stats
    BY <1>7, <1>10 DEF CodeSection
  <2>2. k \in SectionsOf(Code)
    BY <1>6, <1>10 DEF SectionsOf, SectionIs, Sections
  <2>3. PICK j \in DOMAIN Sections : SectionsOf(Code) = {j} /\ \E q \in Sections[j].from .. Sections[j].to :
          Encodes(Sections[j].from, q, Len(Declared)) /\ InRow(input.bodies, 0, q, Sections[j].to)
    BY <1>1, <2>2 DEF IsModule, DeclaresBodies, Sections
  <2>4. SectionsOf(Code) = {k} /\ j = k
    BY <2>2, <2>3
  <2>5. PICK q \in a .. lim : Encodes(a, q, n) /\ InRow(input.bodies, 0, q, lim)
    BY <2>3, <2>4
  <2>6. a \in Nat /\ lim \in Nat /\ lim <= l /\ a <= lim /\ Payload.pos = a /\ Finish = lim
    BY <1>6 DEF SectionIs
  <2>7. InputIs(l)
    BY <1>1, InputFacts DEF WasmFits
  <2>8. q \in Nat /\ q <= lim /\ a <= q
    BY <2>5, <2>6
  <2>9. n \in Nat
    BY <1>1 DEF ModuleIs
  <2>10. ~Passed(Code, k)
    <3>1. k \in Int
      BY <1>6, <1>8
    <3> QED BY <2>4, <3>1 DEF Passed
  <2>11. u = [value |-> n, pos |-> q]
    <3> HIDE DEF a, lim, l, n
    <3>1. Uleb(a, lim) = [value |-> n, pos |-> q]
      BY <2>5, <2>6, <2>7, <2>8, NumberRead
    <3> QED BY <2>6, <3>1
  <2>12. sub' = q - a /\ left' = n /\ begin' = a /\ end' = lim
    <3> HIDE DEF u
    <3>1. u.pos = q /\ u.value = n
      BY <2>11
    <3> HIDE DEF a, lim, n
    <3> QED BY <2>1, <2>6, <3>1
  <2>13. stats'.trappy = Cardinality({y \in Traps : y < 1})
    <3>1. {y \in Traps : y < 1} = {}
      BY <1>1, 1 \in Nat, TrapsCounted DEF ModuleIs
    <3>2. Cardinality({}) = 0
      BY FS_EmptySet
    <3> QED BY <1>4, <2>1, <2>10, <3>1, <3>2
  <2>14. begin' + sub' = q /\ n - (1 - 1) = n /\ 1 \in 1 .. n + 1
    <3> HIDE DEF a, n
    <3> QED BY <2>6, <2>8, <2>9, <2>12
  <2>15. Boundary(input.bodies, q, 1) = q
    BY DEF Boundary
  <2>16. InBodies(k, q, 1)'
    <3>1. /\ Declared' = Declared /\ input'.bodies = input.bodies /\ SectionsOf(Code)' = SectionsOf(Code)
          /\ InRow(input.bodies, 0, q, lim)' = InRow(input.bodies, 0, q, lim)
      BY <1>1 DEF ModuleStays
    <3>2. InRow(input.bodies, 0, q, lim)'
      BY <2>5, <3>1
    <3> QED BY <1>1, <1>6, <1>8, <2>4, <2>5, <2>12, <2>13, <2>14, <2>15, <3>1, <3>2 DEF InBodies
  <2>17. Counts'
    BY <1>1, <1>3, <2>1 DEF Counts
  <2> QED BY <2>1, <2>16, <2>17 DEF Located
<1> QED BY <1>9, <1>10

LEMMA BodyLocates ==
  ASSUME WasmInv, WasmNext, IsModule', ReadBody
  PROVE  Located'
<1>1. ModuleStays /\ input' = input /\ WasmFits /\ IsModule /\ Located /\ ModuleIs
  BY SameModule
<1>2. step = "bodies" /\ left > 0
  BY DEF ReadBody
<1>3. Counts
  BY <1>1, <1>2 DEF Located
<1>4. PICK k, q, m : InBodies(k, q, m)
  BY <1>1, <1>2 DEF Located
<1>5. /\ m \in DOMAIN Declared /\ m \in Nat /\ left = Len(Declared) - (m - 1)
      /\ ~Leaves(Size.pos, Size.value)
      /\ begin + AfterBody(Size) = Boundary(input.bodies, q, m + 1)
      /\ TrapBetween(Size.pos, BodyEnd(Size)) <=> m \in Traps
  BY <1>1, <1>2, <1>4, BodyKnown
<1>6. /\ stats' = IF m \in Traps THEN [stats EXCEPT !.trappy = @ + 1] ELSE stats
      /\ sub' = AfterBody(Size) /\ left' = left - 1 /\ UNCHANGED <<step, pos, begin, end>>
  BY <1>5 DEF ReadBody, Panics
<1>7. stats \in Stats
  BY <1>1 DEF WasmFits, WasmTypeOK
<1>8. /\ stats'.trappy = stats.trappy + (IF m \in Traps THEN 1 ELSE 0)
      /\ \A f \in {"functions", "memories", "exports"} : stats'[f] = stats[f]
  BY <1>6, <1>7 DEF Stats
<1>9. Counts'
  BY <1>1, <1>3, <1>8 DEF Counts
<1>10. stats'.trappy = Cardinality({j \in Traps : j < m + 1})
  <2>1. Cardinality({j \in Traps : j < m + 1}) =
          Cardinality({j \in Traps : j < m}) + (IF m \in Traps THEN 1 ELSE 0)
    BY <1>1, <1>5, TrapsCounted DEF ModuleIs
  <2> QED BY <1>4, <1>8, <2>1 DEF InBodies
<1>11. m + 1 \in 1 .. Len(Declared) + 1 /\ left' = Len(Declared) - ((m + 1) - 1)
  <2>1. Len(Declared) \in Nat /\ m \in 1 .. Len(Declared)
    BY <1>1, <1>5 DEF ModuleIs
  <2> QED BY <1>5, <1>6, <2>1
<1>12. InBodies(k, q, m + 1)'
  <2> DEFINE lim == Sections[k].to
  <2>1. /\ Declared' = Declared /\ input'.bodies = input.bodies /\ SectionsOf(Code)' = SectionsOf(Code)
        /\ InRow(input.bodies, 0, q, lim)' = InRow(input.bodies, 0, q, lim)
        /\ Sections' = Sections /\ Traps' = Traps
    BY <1>1 DEF ModuleStays
  <2>2. InRow(input.bodies, 0, q, lim)'
    BY <1>4, <2>1 DEF InBodies
  <2>3. begin' + sub' = Boundary(input.bodies, q, m + 1)
    BY <1>5, <1>6
  <2> QED BY <1>4, <1>6, <1>10, <1>11, <2>1, <2>2, <2>3 DEF InBodies
<1> QED BY <1>2, <1>6, <1>9, <1>12 DEF Located

LEMMA BodiesDoneLocates ==
  ASSUME WasmInv, WasmNext, IsModule', BodiesDone
  PROVE  Located'
<1>1. ModuleStays /\ input' = input /\ WasmFits /\ IsModule /\ Located /\ ModuleIs
  BY SameModule
<1>2. step = "bodies" /\ left = 0 /\ step' = "code" /\ pos' = end /\ stats' = stats
  BY DEF BodiesDone
<1>3. Counts
  BY <1>1, <1>2 DEF Located
<1>4. PICK k, q, m : InBodies(k, q, m)
  BY <1>1, <1>2 DEF Located
<1>5. /\ Sections \in Seq(Piece) /\ Declared \in Seq(Body) /\ Len(Declared) \in Nat
      /\ Sections' = Sections /\ Traps' = Traps
  BY <1>1 DEF ModuleIs, ModuleStays
<1>6. m = Len(Declared) + 1
  BY <1>2, <1>4, <1>5 DEF InBodies
<1>7. stats.trappy = Cardinality(Traps)
  <2>1. m \in Nat
    BY <1>5, <1>6
  <2>2. {j \in Traps : j < m} = Traps
    BY <1>5, <1>6, <2>1, TrapsCounted
  <2> QED BY <1>4, <2>2 DEF InBodies
<1>8. k \in 1 .. Len(Sections) /\ k \in SectionsOf(Code) /\ end = Sections[k].to
  BY <1>4, <1>5 DEF InBodies
<1>9. AtSection(k + 1)'
  <2>1. Boundary(Sections, Len(Header), k + 1) = Sections[k].to /\ k + 1 \in 1 .. Len(Sections) + 1
    BY <1>5, <1>8 DEF Boundary
  <2> QED BY <1>2, <1>5, <1>8, <2>1 DEF AtSection
<1>10. Passed(Code, k + 1)'
  <2>1. Passed(Code, k + 1)
    BY <1>8 DEF Passed
  <2> QED BY <1>1, <2>1 DEF ModuleStays
<1>11. Counts'
  BY <1>1, <1>2, <1>3 DEF Counts
<1> QED BY <1>2, <1>5, <1>7, <1>9, <1>10, <1>11 DEF Located

LEMMA ScannedLocates ==
  ASSUME WasmInv, WasmNext, IsModule', Scanned
  PROVE  Located'
<1>1. ModuleStays /\ input' = input /\ WasmFits /\ IsModule /\ Located /\ ModuleIs
  BY SameModule
<1>2. step = "code" /\ pos >= Length /\ step' = "done" /\ stats' = stats
  BY DEF Scanned
<1>3. Counts
  BY <1>1, <1>2 DEF Located
<1>4. PICK k : AtSection(k) /\ stats.trappy = IF Passed(Code, k) THEN Cardinality(Traps) ELSE 0
  BY <1>1, <1>2 DEF Located
<1>5. k = Len(Sections) + 1
  BY <1>1, <1>2, <1>4, SectionsRead
<1>6. Traps' = Traps /\ Counts'
  BY <1>1, <1>2, <1>3 DEF ModuleStays, Counts
<1>7. stats.trappy = Cardinality(Traps)
  <2>1. Passed(Code, k) <=> SectionsOf(Code) # {}
    BY <1>1, <1>5, PassedFirst DEF ModuleIs
  <2>2. CASE SectionsOf(Code) = {}
    <3>1. Declared = <<>>
      BY <1>1, <2>2 DEF IsModule, DeclaresBodies
    <3>2. Traps = {}
      BY <3>1 DEF Traps
    <3> QED BY <1>4, <2>1, <2>2, <3>2, FS_EmptySet
  <2> QED BY <1>4, <2>1, <2>2
<1> QED BY <1>2, <1>6, <1>7 DEF Located

-----------------------------------------------------------------------------
LEMMA NextLocated == WasmInv /\ [WasmNext]_wasmVars => WasmInv'
<1> SUFFICES ASSUME WasmInv, [WasmNext]_wasmVars PROVE WasmInv'
  OBVIOUS
<1>1. WasmFits'
  BY FitsStays DEF WasmInv
<1>2. SUFFICES ASSUME IsModule' PROVE Located'
  BY <1>1 DEF WasmInv
<1>3. CASE UNCHANGED wasmVars
  <2>1. /\ input' = input /\ step' = step /\ pos' = pos /\ begin' = begin /\ end' = end
        /\ sub' = sub /\ left' = left /\ stats' = stats
    BY <1>3 DEF wasmVars
  <2>2. ModuleStays
    BY <2>1, ModuleStaysIf
  <2>3. Located
    BY <1>2, <2>2 DEF WasmInv, ModuleStays
  <2>4. \A k : AtSection(k)' = AtSection(k) /\ CountedTo(k)' = CountedTo(k)
    BY <2>1, <2>2 DEF AtSection, CountedTo, HasCounted, ModuleStays
  <2>5. \A k, q, m : InBodies(k, q, m)' = InBodies(k, q, m)
    BY <2>1, <2>2 DEF InBodies, ModuleStays
  <2>6. Counts' = Counts
    BY <2>1 DEF Counts
  <2> QED BY <2>1, <2>2, <2>3, <2>4, <2>5, <2>6 DEF Located, ModuleStays
<1> QED BY <1>2, <1>3, HeaderLocates, CountLocates, CountedLocates, CodeLocates, BodyLocates,
           BodiesDoneLocates, ScannedLocates DEF WasmNext

LEMMA LocatedIsCorrect == WasmInv => WasmCorrect
<1> SUFFICES ASSUME WasmInv PROVE WasmCorrect
  OBVIOUS
<1>1. WasmTypeOK
  BY DEF WasmInv, WasmFits
<1>2. CASE ~Known
  BY <1>1, <1>2 DEF WasmCorrect, ExactCounts, TrapsPerBody, FindingsFollowModule
<1>3. CASE Known
  <2>1. ModuleIs /\ Counts /\ stats.trappy = Cardinality(Traps)
    BY <1>3, ModuleFacts DEF Known, WasmInv, WasmFits, Located
  <2>2. BodiesWith(HasTrap) = Traps
    BY DEF BodiesWith, Traps, Declared
  <2>3. stats.trappy > 0 <=> Traps # {}
    <3>1. IsFiniteSet(Traps)
      <4>1. Traps \subseteq 1 .. Len(Declared) /\ Len(Declared) \in Nat
        BY <2>1 DEF Traps, ModuleIs
      <4>2. IsFiniteSet(1 .. Len(Declared))
        BY <4>1, FS_Interval
      <4> QED BY <4>1, <4>2, FS_Subset
    <3> QED BY <2>1, <3>1, FS_EmptySet, FS_CardinalityType
  <2>4. ExactCounts
    BY <2>1 DEF Counts, ExactCounts
  <2>5. TrapsPerBody
    BY <2>1, <2>2 DEF TrapsPerBody
  <2>6. FindingsFollowModule
    <3>1. stats.exports = input.module.exports
      BY <2>1 DEF Counts
    <3> QED BY <2>2, <2>3, <3>1 DEF FindingsFollowModule, Findings
  <2> QED BY <1>1, <2>4, <2>5, <2>6 DEF WasmCorrect
<1> QED BY <1>2, <1>3

\* Of every whole module, however large, however its sections are ordered and
\* its sizes written, the scan reports what it declares.
THEOREM WasmIsCorrect == WasmSpec => []WasmCorrect
<1>1. WasmInit => WasmInv
  BY InitFits, InitLocated DEF WasmInv
<1>2. WasmInv /\ [WasmNext]_wasmVars => WasmInv'
  BY NextLocated
<1>3. WasmInv => WasmCorrect
  BY LocatedIsCorrect
<1> QED BY <1>1, <1>2, <1>3, PTL DEF WasmSpec

-----------------------------------------------------------------------------
LEMMA BadExtentLeaves ==
  ASSUME WasmFits, pos < Length, NEW ids, BadExtent(ids)
  PROVE  Leaves(Payload.pos, Payload.value)
<1> DEFINE l == Length
           a == Payload.pos
           v == Payload.value
           W == Word
<1>1. SectionAt(Payload, Finish, l) /\ InputIs(l)
  BY SectionRead
<1>2. W \in Nat \ {0} /\ pos \in Nat /\ l \in Nat
  <2>1. pos \in 0 .. l /\ l \in 0 .. W - 1
    BY <1>1 DEF WasmFits, WasmTypeOK, InputIs
  <2> QED BY <2>1, WordsAre
<1>3. v \in 0 .. W - 1 /\ a \in pos + 1 .. l
  BY <1>1 DEF SectionAt
<1>4. SUFFICES ASSUME ~(a + v >= W) PROVE FALSE
  BY DEF Leaves
<1>5. ~Leaves(a, v) /\ Plus(a, v) = (a + v) % W
  BY <1>4 DEF Leaves, Plus
<1>6. Finish = Smaller(Plus(a, v), l)
  BY DEF Finish, SectionEnd
<1>7. ~(a <= Finish /\ Finish <= l)
  BY <1>5 DEF BadExtent, Panics
<1> HIDE DEF a, v, l, W
<1>8. a + v \in 0 .. W - 1
  BY <1>2, <1>3, <1>4
<1>9. (a + v) % W = a + v
  BY <1>2, <1>8, RemainderUnique
<1>10. Finish = Smaller(a + v, l)
  BY <1>5, <1>6, <1>9
<1> QED BY <1>2, <1>3, <1>7, <1>10 DEF Smaller

\* The scan panics only if a size leaves the machine word, whatever the bytes: no
\* slice it takes is out of bounds, and the checking build panics on nothing
\* else (wasm_scan.rs:89-141).
THEOREM ScanPanicsOutOfWord == WasmSpec => []PanicsOutOfWord
<1>1. WasmInit => WasmFits /\ PanicsOutOfWord
  BY InitFits DEF WasmInit, PanicsOutOfWord
<1>2. WasmFits /\ PanicsOutOfWord /\ [WasmNext]_wasmVars => (WasmFits /\ PanicsOutOfWord)'
  <2> SUFFICES ASSUME WasmFits, PanicsOutOfWord, [WasmNext]_wasmVars
               PROVE  PanicsOutOfWord'
    BY FitsStays
  <2>1. CASE CountSection
    <3>1. Panic => wrapped'
      BY <2>1, BadExtentLeaves DEF CountSection, Panic
    <3>2. ~Panic => step' = step /\ step = "counts"
      BY <2>1 DEF CountSection
    <3> QED BY <3>1, <3>2 DEF PanicsOutOfWord
  <2>2. CASE CodeSection
    <3>1. BadExtent({Code}) => wrapped'
      BY <2>2, BadExtentLeaves DEF CodeSection
    <3>2. ~BadExtent({Code}) => step' \in {"bodies", "code"}
      BY <2>2 DEF CodeSection, section
    <3> QED BY <3>1, <3>2 DEF PanicsOutOfWord
  <2>3. CASE ReadBody
    BY <2>3 DEF ReadBody, Panics, PanicsOutOfWord
  <2>4. CASE ReadHeader \/ Counted \/ BodiesDone \/ Scanned
    BY <2>4 DEF ReadHeader, Counted, BodiesDone, Scanned, PanicsOutOfWord
  <2>5. CASE UNCHANGED wasmVars
    BY <2>5 DEF wasmVars, PanicsOutOfWord
  <2> QED BY <2>1, <2>2, <2>3, <2>4, <2>5 DEF WasmNext
<1> QED BY <1>1, <1>2, PTL DEF WasmSpec
=============================================================================
