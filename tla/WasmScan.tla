------------------------------ MODULE WasmScan ------------------------------
(***************************************************************************)
(* scan and wasm_findings of src/src/wasm_scan.rs: the walk over the       *)
(* sections of a compiled contract, twice, once for the counts its         *)
(* sections declare and once for the bodies of its code.  Positions and    *)
(* sizes are machine words: Base is what a LEB128 group counts to (128),   *)
(* Word the number of values of a u64 and of a usize, so that small values *)
(* of the two keep the shape of the arithmetic.                            *)
(***************************************************************************)
EXTENDS Integers, SequencesExt

CONSTANTS
  Base, Word,                       \* 2^7 and 2^64
  MaxGroups,                        \* groups until the shift reaches 64 bits
  Header,                           \* the magic and the version
  Function, Memory, Export, Code,   \* section ids
  Unreachable, End,                 \* OP_UNREACHABLE, OP_END
  Inputs,                           \* byte strings, with the module they encode
  NoModule                          \* ... if any

\* What a module declares; its first functions are the exported ones.  Of a body
\* its bytes, and whether an unreachable is among its instructions.
Body == [bytes : Seq(0 .. 2 * Base - 1), traps : BOOLEAN]
Module == [functions : Nat, memories : Nat, exports : Nat, bodies : Seq(Body)]

\* Where a section or a body is: its first byte, its content, what comes next.
\* The properties say with these how bytes encode a module; no step reads them.
Piece == [at : Nat, from : Nat, to : Nat]

\* The length of a slice is a word.
ASSUME InputsAssumption ==
  /\ Base \in Nat \ {0} /\ Word \in Nat \ {0} /\ MaxGroups \in Nat \ {0}
  /\ Header \in Seq(0 .. 2 * Base - 1)
  /\ IsInjective(<<Function, Memory, Export, Code>>)
  /\ Inputs \subseteq [bytes : Seq(0 .. 2 * Base - 1), module : Module \cup {NoModule},
                      sections : Seq(Piece), bodies : Seq(Piece)]
  /\ \A in \in Inputs : Len(in.bytes) < Word

VARIABLES
  input,     \* the artifact
  checks,    \* whether the build checks integer overflow
  step,
  pos,       \* of the reader over the whole artifact
  begin, end, sub, left,  \* of the code section: its extent, the reader within
             \* it, the bodies still to read
  stats,     \* WasmStats
  wrapped    \* history: an addition left the word

wasmVars == <<input, checks, step, pos, begin, end, sub, left, stats, wrapped>>
section == <<begin, end, sub, left>>

bytes == input.bytes
Length == Len(bytes)

Stats == [functions : 0 .. Word - 1, memories : 0 .. Word - 1,
          exports : 0 .. Word - 1, trappy : Nat]

WasmTypeOK ==
  /\ checks \in BOOLEAN /\ wrapped \in BOOLEAN
  /\ step \in {"header", "counts", "code", "bodies", "done", "refused", "panicked"}
  /\ pos \in 0 .. Length
  /\ begin \in 0 .. Length /\ end \in begin .. Length /\ sub \in 0 .. end - begin
  /\ left \in 0 .. Word - 1
  /\ stats \in Stats

WasmInit ==
  /\ input \in Inputs
  /\ checks \in BOOLEAN
  /\ step = "header" /\ pos = 0
  /\ begin = 0 /\ end = 0 /\ sub = 0 /\ left = 0
  /\ stats = [functions |-> 0, memories |-> 0, exports |-> 0, trappy |-> 0]
  /\ wrapped = FALSE

\* Definitions whose names end in Fault are the definition after them with a
\* plausible bug in it; the model never uses them.
-----------------------------------------------------------------------------
(***************************************************************************)
(* The reader                                                              *)
(***************************************************************************)
Smaller(a, b) == IF a <= b THEN a ELSE b
Byte(p) == bytes[p + 1]
More(p) == Byte(p) >= Base

\* next_uleb from p on, in a reader that ends at lim.  No number (0 at all the
\* callers) if the reader ends first, or after MaxGroups groups; the position
\* moves either way.  The groups come lowest first, and bits beyond the word are
\* shifted out.
UlebFault(p, lim) ==
  [value |-> IF p < lim THEN Byte(p) % Base ELSE 0, pos |-> Smaller(p + 1, lim)]

Uleb(p, lim) ==
  LET groups == Smaller(MaxGroups, lim - p)
      lasts == {k \in 0 .. groups - 1 : ~More(p + k)}
      after == p + Min(lasts) + 1
      number[k \in 0 .. after - p] ==
        IF k = 0 THEN 0 ELSE (Byte(after - k) % Base) + Base * number[k - 1]
  IN  IF lasts = {} THEN [value |-> 0, pos |-> p + groups]
      ELSE [value |-> number[after - p] % Word, pos |-> after]

\* a + b as the release build computes it; the debug build panics instead.
Leaves(a, b) == a + b >= Word
Plus(a, b) == (a + b) % Word
Panics(a, b) == checks /\ Leaves(a, b)

Panic == step' = "panicked" /\ UNCHANGED <<pos, section, stats>>
-----------------------------------------------------------------------------
(***************************************************************************)
(* The sections                                                            *)
(***************************************************************************)
ReadHeader ==
  /\ step = "header"
  /\ IF IsPrefix(Header, bytes)
       THEN step' = "counts" /\ pos' = Len(Header)
       ELSE step' = "refused" /\ UNCHANGED pos
  /\ UNCHANGED <<input, checks, section, stats, wrapped>>

\* The section at pos: its id, and where its payload starts and ends.
SectionEnd(payload) == Smaller(Plus(payload.pos, payload.value), Length)

Id == Byte(pos)
Payload == Uleb(pos + 1, Length)
FinishFault == Smaller(Payload.value, Length)
Finish == SectionEnd(Payload)
Field == CASE Id = Function -> "functions" [] Id = Memory -> "memories"
           [] Id = Export -> "exports"

\* The end does not compute, or the slice of a section whose payload is read is
\* out of bounds.
BadExtent(ids) ==
  \/ Panics(Payload.pos, Payload.value)
  \/ Id \in ids /\ ~(Payload.pos <= Finish /\ Finish <= Length)

CountSection ==
  /\ step = "counts" /\ pos < Length
  /\ wrapped' = (wrapped \/ Leaves(Payload.pos, Payload.value))
  /\ \/ BadExtent({Function, Memory, Export}) /\ Panic
     \/ /\ ~BadExtent({Function, Memory, Export})
        /\ pos' = Finish
        /\ stats' = IF Id \in {Function, Memory, Export}
                      THEN [stats EXCEPT ![Field] = Uleb(Payload.pos, Finish).value]
                      ELSE stats
        /\ UNCHANGED <<step, section>>
  /\ UNCHANGED <<input, checks>>

Counted ==
  /\ step = "counts" /\ pos >= Length
  /\ step' = "code" /\ pos' = Len(Header)
  /\ UNCHANGED <<input, checks, section, stats, wrapped>>

CodeSection ==
  /\ step = "code" /\ pos < Length
  /\ wrapped' = (wrapped \/ Leaves(Payload.pos, Payload.value))
  /\ \/ BadExtent({Code}) /\ Panic
     \/ /\ ~BadExtent({Code})
        /\ Id = Code
        /\ LET n == Uleb(Payload.pos, Finish) IN
             sub' = n.pos - Payload.pos /\ left' = n.value
        /\ begin' = Payload.pos /\ end' = Finish
        /\ step' = "bodies"
        /\ UNCHANGED <<pos, stats>>
     \/ /\ ~BadExtent({Code})
        /\ Id # Code
        /\ pos' = Finish
        /\ UNCHANGED <<step, section, stats>>
  /\ UNCHANGED <<input, checks>>

Scanned ==
  /\ step = "code" /\ pos >= Length
  /\ step' = "done"
  /\ UNCHANGED <<input, checks, pos, section, stats, wrapped>>
-----------------------------------------------------------------------------
(***************************************************************************)
(* The bodies of the code section                                          *)
(***************************************************************************)
Size == Uleb(begin + sub, end)

\* windows(2) of the bytes from a up to b: one that is unreachable; end.
TrapBetween(a, b) == \E p \in a .. b - 2 : Byte(p) = Unreachable /\ Byte(p + 1) = End

BodyEnd(size) == Smaller(Plus(size.pos, size.value), end)

AfterBody(size) == Smaller(Plus(size.pos - begin, size.value), end - begin)

\* The positions are relative to the section for the reader and absolute for
\* the slice: two additions, which need not both leave the word.
ReadBody ==
  /\ step = "bodies" /\ left > 0
  /\ wrapped' = (wrapped \/ Leaves(Size.pos, Size.value))
  /\ \/ Panics(Size.pos, Size.value) /\ Panic
     \/ /\ ~Panics(Size.pos, Size.value)
        /\ stats' = IF TrapBetween(Size.pos, BodyEnd(Size))
                      THEN [stats EXCEPT !.trappy = @ + 1] ELSE stats
        /\ sub' = AfterBody(Size)
        /\ left' = left - 1
        /\ UNCHANGED <<step, pos, begin, end>>
  /\ UNCHANGED <<input, checks>>

BodiesDone ==
  /\ step = "bodies" /\ left = 0
  /\ step' = "code" /\ pos' = end
  /\ UNCHANGED <<input, checks, section, stats, wrapped>>

WasmNext ==
  \/ ReadHeader \/ CountSection \/ Counted
  \/ CodeSection \/ ReadBody \/ BodiesDone \/ Scanned

WasmSpec == WasmInit /\ [][WasmNext]_wasmVars /\ WF_wasmVars(WasmNext)
-----------------------------------------------------------------------------
(***************************************************************************)
(* Properties                                                              *)
(***************************************************************************)
\* The findings of wasm_findings over what was counted.
Findings == {r \in {"WasmUnreachableExport", "WasmNoExports"} :
  (r = "WasmUnreachableExport" /\ stats.trappy > 0)
    \/ (r = "WasmNoExports" /\ stats.exports = 0)}

\* The bytes from p up to q are the number v in LEB128: group by group from the
\* lowest, with as many zeros above as the encoder likes.
Encodes(p, q, v) ==
  LET rest[k \in 0 .. q - p] == IF k = 0 THEN v ELSE rest[k - 1] \div Base
  IN  /\ v \in 0 .. Word - 1 /\ q - p \in 1 .. MaxGroups /\ rest[q - p] = 0
      /\ \A k \in 0 .. q - p - 1 :
           Byte(p + k) = (rest[k] % Base) + (IF k < q - p - 1 THEN Base ELSE 0)

\* Pieces stand one after the other from a up to b, each with its size in front
\* of its content, and lead bytes in front of that.
Boundary(pieces, a, k) == IF k = 1 THEN a ELSE pieces[k - 1].to
InRow(pieces, lead, a, b) ==
  /\ \A k \in DOMAIN pieces : LET x == pieces[k] IN
       x.at = Boundary(pieces, a, k) /\ x.to <= b /\ Encodes(x.at + lead, x.from, x.to - x.from)
  /\ Boundary(pieces, a, Len(pieces) + 1) = b

\* The sections with an id.  A module has at most one of each that is read; what
\* it begins with is how many items it declares.
SectionsOf(id) == {k \in DOMAIN input.sections : Byte(input.sections[k].at) = id}
Declares(id, n) ==
  \/ SectionsOf(id) = {} /\ n = 0
  \/ \E k \in DOMAIN input.sections : LET x == input.sections[k] IN
       SectionsOf(id) = {k} /\ \E q \in x.from .. x.to : Encodes(x.from, q, n)

\* The bodies are what follows that number in the code section.
Declared == input.module.bodies
DeclaresBodies ==
  \/ SectionsOf(Code) = {} /\ Declared = <<>>
  \/ /\ \E k \in DOMAIN input.sections : LET x == input.sections[k] IN
          SectionsOf(Code) = {k} /\ \E q \in x.from .. x.to :
            Encodes(x.from, q, Len(Declared)) /\ InRow(input.bodies, 0, q, x.to)
     /\ Len(input.bodies) = Len(Declared)
     /\ \A k \in DOMAIN Declared :
          Declared[k].bytes = SubSeq(bytes, input.bodies[k].from + 1, input.bodies[k].to)

\* The artifact is a whole module, encoded as the format has it.
IsModule ==
  /\ input.module # NoModule /\ IsPrefix(Header, bytes)
  /\ InRow(input.sections, 1, Len(Header), Length)
  /\ Declares(Function, input.module.functions) /\ Declares(Memory, input.module.memories)
  /\ Declares(Export, input.module.exports) /\ DeclaresBodies

Known == step = "done" /\ IsModule
BodiesWith(P(_)) == {k \in DOMAIN input.module.bodies : P(input.module.bodies[k])}

\* A body that ends in a trap, as its bytes go.
HasTrap(b) ==
  \E k \in 1 .. Len(b.bytes) - 1 : b.bytes[k] = Unreachable /\ b.bytes[k + 1] = End

\* Of a whole module the scan reports what its sections declare, in whatever
\* order they come and whatever custom section stands between them.
ExactCounts ==
  Known => \A f \in {"functions", "memories", "exports"} : stats[f] = input.module[f]

\* Of a whole module the trap count is the number of bodies that hold the two
\* bytes: none is missed, and the end of one body and the start of the next are
\* never taken for a trap.
TrapsPerBody == Known => stats.trappy = Cardinality(BodiesWith(HasTrap))

\* The findings are those of the module and not of how it was laid out: no
\* exports is reported for a module without any, a trap for one with a trap.
FindingsFollowModule ==
  Known => /\ "WasmNoExports" \in Findings <=> input.module.exports = 0
           /\ "WasmUnreachableExport" \in Findings <=> BodiesWith(HasTrap) # {}

\* All that is reported of a whole module is so, and every position and count is
\* a number.
WasmCorrect == WasmTypeOK /\ ExactCounts /\ TrapsPerBody /\ FindingsFollowModule

\* The scan panics on no bytes but those with a size that leaves the machine word:
\* no slice that it takes is out of bounds (wasm_scan.rs:89-141).
PanicsOutOfWord == step = "panicked" => wrapped

\* The scan of all bytes comes to an answer or a refusal: it neither indexes out
\* of a slice nor reads for ever, unless a size leaves the machine word.
WasmEnds == <>(step \in {"done", "refused"} \/ wrapped)

\* wasm_scan.rs:60: "Number of exported functions whose code body contains".
OnlyExportedCounted ==
  Known => stats.trappy = Cardinality(BodiesWith(HasTrap) \cap 1 .. input.module.exports)

\* wasm_scan.rs:137: the message says of the bodies counted that they are
\* "with an `unreachable` trap".
CountedBodiesTrap ==
  Known => LET traps(b) == b.traps IN stats.trappy <= Cardinality(BodiesWith(traps))
=============================================================================
