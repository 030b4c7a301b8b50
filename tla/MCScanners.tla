----------------------------- MODULE MCScanners ------------------------------
(***************************************************************************)
(* The three scanners of `sorseal analyze` for TLC: the lexer of a line    *)
(* (Strip) over texts of any length, the blocks and rules (SourceScan)     *)
(* over files put together from the items Rust sources are made of, and    *)
(* the walk over a compiled contract (WasmScan).  A behaviour is one of    *)
(* the three: the other scanners do not move.                              *)
(***************************************************************************)
EXTENDS Strip, SourceScan, WasmScan

-----------------------------------------------------------------------------
(***************************************************************************)
(* Files for SourceScan                                                    *)
(***************************************************************************)
L(o, n, f, p) == [opens |-> o, closes |-> n, fn |-> FALSE, test |-> FALSE, facts |-> f,
                  part |-> p, deployed |-> TRUE]
Signature(l) == [l EXCEPT !.fn = TRUE, !.part = "head"]
Attribute(l) == [l EXCEPT !.test = TRUE]
ForTests(item) == [n \in 1..Len(item) |-> [item[n] EXCEPT !.deployed = FALSE]]

BodyLines(fs) == [n \in 1..Len(fs) |-> L(0, 0, fs[n], "body")]

\* fn f() { ... } over several lines, with a block in it, and on one line.
Fn(fs) == <<Signature(L(1, 0, {}, "head"))>> \o BodyLines(fs) \o <<L(0, 1, {}, "body")>>
FnIf(fs) == <<Signature(L(1, 0, {}, "head")), L(1, 0, {}, "body")>> \o BodyLines(fs)
              \o <<L(1, 1, {}, "body"), L(0, 2, {}, "body")>>
FnLine(f) == <<Signature(L(1, 1, f, "head"))>>

\* A function declared in a trait, and a signature wrapped over two lines.
FnDeclared == <<Signature(L(0, 0, {"transfer"}, "head"))>>
FnWrapped(fs) == <<Signature(L(0, 0, {}, "head")), L(1, 0, {}, "body")>> \o BodyLines(fs) \o <<L(0, 1, {}, "body")>>

\* #[cfg(test)] mod tests { ... }, #[cfg(test)] mod tests; and other items.
TestMod(fs) == ForTests(<<Attribute(L(0, 0, {}, "none")), L(1, 0, {}, "none")>> \o Fn(fs) \o <<L(0, 1, {}, "none")>>)
TestFn(fs) == ForTests(<<Attribute(Signature(L(1, 0, {}, "head")))>> \o BodyLines(fs) \o <<L(0, 1, {}, "body")>>)
TestDecl == ForTests(<<Attribute(L(0, 0, {}, "none")), L(0, 0, {}, "none")>>)
TestMacro(f) == ForTests(<<Attribute(L(1, 0, {}, "none")), L(0, 1, f, "none")>>)
Macro(f) == <<L(1, 0, {}, "none"), L(0, 1, f, "none")>>
Impl == <<L(1, 0, {}, "none")>>
EndImpl == <<L(0, 1, {}, "none")>>

\* What else a line says that says a word: a longer word has the shorter one in it.
Entails == [f \in Facts |->
  CASE f = "state_set" -> {"set", "storage", "instance"}
    [] f \in {"transfer_call", "transfer_from"} -> {"transfer"}
    [] f = "burn" -> {"withdraw"}
    [] f = "balance" -> {"holds"}
    [] f = "invoke" -> {"call"}
    [] OTHER -> {}]
Says(fs) == fs \cup UNION {Entails[f] : f \in fs}

\* What the lines of a function say: every word, alone or with those it counts
\* together with.
Words == {Says(fs) : fs \in {{f} : f \in Facts}
  \cup {{"state_set", "admin_key", "symbol"}, {"set", "admin_key"}, {"get", "storage", "unwrap"},
        {"get", "instance", "unwrap"}, {"amount", "arith"}, {"units", "arith", "checked"},
        {"balance", "unwrap"}, {"units", "unwrap"}, {"burn", "unwrap"}, {"try_into", "amount"},
        {"try_into", "units"}, {"call", "non_reentrant"}, {"transfer_call", "Address"},
        {"transfer_from", "Address"}, {"Address", "to"}, {"rotate", "transfer"},
        {"invoke", "price"}, {"call", "price"}}}
Few == {Says({f}) : f \in {"state_set", "require_auth", "invoke", "unsafe"}}

Pairs == {Fn(<<f, g>>) : f, g \in Words}
Items == {Fn(<<f>>) : f \in Few} \cup {FnIf(<<f>>) : f \in Few} \cup {FnLine(f) : f \in Few}
  \cup {FnWrapped(<<f>>) : f \in Few} \cup {TestMod(<<f>>) : f \in Few} \cup {TestFn(<<f>>) : f \in Few}
  \cup {TestMacro(f) : f \in Few} \cup {Macro(f) : f \in Few} \cup {FnDeclared, TestDecl}

MCFiles == Pairs \cup Items \cup {a \o b : a, b \in Items} \cup {Impl \o a \o b \o EndImpl : a, b \in Items}
           \cup {a \o TestDecl \o b : a, b \in Items}
-----------------------------------------------------------------------------
(***************************************************************************)
(* Artifacts for WasmScan                                                  *)
(***************************************************************************)
\* Small artifacts: groups of two bits and words of six, so that bytes go from 0
\* to 7 and a size can take three of them.  Whole modules in two layouts, all
\* their truncations, and short byte strings.
const_Header == <<0, 6>>
Custom == 0
const_Function == 3
const_Memory == 5
const_Export == 7
const_Code == 2
const_End == 1
Const == 4  \* i32.const, with an operand of one byte

\* LEB128 of a number of at most three groups.
Leb(n) ==
  LET low(k) == (n \div Base ^ k) % Base
  IN  CASE n < Base -> <<n>>
        [] n >= Base /\ n < Base ^ 2 -> <<Base + low(0), low(1)>>
        [] n >= Base ^ 2 -> <<Base + low(0), Base + low(1), low(2)>>
Sized(b) == Leb(Len(b)) \o b
Vector(items) == Leb(Len(items)) \o FlattenSeq(items)
Part(id, payload) == <<id>> \o Sized(payload)

\* A size with zeros above, in as many groups as are read.
Padded(n) == <<Base + (n % Base), Base + ((n \div Base) % Base), n \div Base ^ 2>>

\* Where the items b, from position a on, each with lead bytes in front of a size
\* of as many groups as ns has.
Placed(b, a, lead, ns) ==
  [k \in DOMAIN b |->
     LET at == a + Len(FlattenSeq(SubSeq(b, 1, k - 1)))
     IN  [at |-> at, from |-> at + lead + Len(ns[k]), to |-> at + Len(b[k])]]

\* Bodies: the locals (none, or one group of them), the instructions, end.
BodyOf(locals, instructions, traps) ==
  {[traps |-> traps, bytes |-> locals \o instructions \o <<const_End>>]}

Bodies ==
  BodyOf(<<0>>, <<Unreachable>>, TRUE)          \* panics
  \cup BodyOf(<<0>>, <<>>, FALSE)               \* empty
  \cup BodyOf(<<1, 1, 3>>, <<Const, 1>>, FALSE) \* returns a constant
  \cup BodyOf(<<1, 1, 3>>, <<Const, 0>>, FALSE) \* returns zero
  \cup BodyOf(<<0>>, <<Unreachable, Const, 3>>, TRUE)

Modules ==
  {[functions |-> Len(bs), memories |-> m, exports |-> e, bodies |-> bs] :
     bs \in BoundedSeq(Bodies, 2), m \in 0 .. 1, e \in 0 .. 2}

\* An export: a name of one byte, its kind, the function (the first ones are
\* exported).  A declared function: its type.  A memory: no maximum, one page.
Copies(item, n) == [k \in 1 .. n |-> item]
Exported(n) == [k \in 1 .. n |-> <<1, 3, 0, k - 1>>]
Layout(m) ==
  << <<const_Function, Vector(Copies(<<0>>, m.functions))>>,
     <<const_Memory, Vector(Copies(<<0, 1>>, m.memories))>>,
     <<const_Export, Vector(Exported(m.exports))>>,
     <<const_Code, Vector([k \in DOMAIN m.bodies |-> Sized(m.bodies[k].bytes)])>> >>

\* The artifact of m with these sections, their sizes written by size(_).
Assembled(m, parts, size(_)) ==
  LET ns == [k \in DOMAIN parts |-> size(Len(parts[k][2]))]
      encoded == [k \in DOMAIN parts |-> <<parts[k][1]>> \o ns[k] \o parts[k][2]]
      sections == Placed(encoded, Len(const_Header), 1, ns)
      holder == CHOOSE k \in DOMAIN parts : parts[k][1] = const_Code
      sized == [k \in DOMAIN m.bodies |-> Sized(m.bodies[k].bytes)]
      sizes == [k \in DOMAIN sized |-> Leb(Len(m.bodies[k].bytes))]
  IN  [bytes |-> const_Header \o FlattenSeq(encoded), module |-> m, sections |-> sections,
       bodies |-> Placed(sized, sections[holder].from + Len(Leb(Len(sized))), 0, sizes)]

Wholes(m) ==
  {Assembled(m, Layout(m), Leb),
   Assembled(m, << <<Custom, <<5, 5>> >> >> \o Reverse(Layout(m)) \o << <<Custom, <<>> >> >>, Padded)}

Unknown(b) == [bytes |-> b, module |-> NoModule, sections |-> <<>>, bodies |-> <<>>]
Largest == {m \in Modules : m.exports = 2 /\ m.memories = 1 /\ Len(m.bodies) = 2}
CutsOf(b) == {Unknown(SubSeq(b, 1, k)) : k \in 0 .. Len(b)}
Cut == UNION {UNION {CutsOf(in.bytes) : in \in Wholes(m)} : m \in Largest}
Noise == {Unknown(const_Header \o b) : b \in UNION {[1 .. n -> 0 .. 7] : n \in 0 .. 4}}
           \cup {Unknown(b) : b \in BoundedSeq(0 .. 7, 2)}

\* A body of every size, in a code section of six bytes.
AnySize ==
  {Unknown(const_Header \o Part(const_Code, <<1>> \o s \o <<Unreachable, const_End>>)) :
     s \in (4 .. 7) \X (4 .. 7) \X (0 .. 3)}

const_Inputs == UNION {Wholes(m) : m \in Modules} \cup Cut \cup Noise \cup AnySize
-----------------------------------------------------------------------------
VARIABLE scanner  \* of this behaviour

allVars == <<scanner, lexVars, vars, wasmVars>>

LexAtRest ==
  /\ win = <<"other", "other", "other">> /\ plain = TRUE
  /\ mode = "code" /\ skip = FALSE /\ kept = FALSE
  /\ rmode = "code" /\ rskip = FALSE /\ nesting = 0 /\ real = FALSE /\ comment = FALSE
ScanAtRest ==
  /\ file = FnLine({"unsafe"}) /\ pc = "tests" /\ i = 0
  /\ depth = 0 /\ start = None /\ sawOpen = FALSE
  /\ ranges = <<>> /\ spans = <<>> /\ findings = {}
WasmAtRest ==
  /\ input = Unknown(<<>>) /\ checks = TRUE
  /\ step = "refused" /\ pos = 0
  /\ begin = 0 /\ end = 0 /\ sub = 0 /\ left = 0
  /\ stats = [functions |-> 0, memories |-> 0, exports |-> 0, trappy |-> 0]
  /\ wrapped = FALSE

ScannersInit ==
  \/ scanner = "lexer" /\ LexInit /\ ScanAtRest /\ WasmAtRest
  \/ scanner = "source" /\ Init /\ LexAtRest /\ WasmAtRest
  \/ scanner = "wasm" /\ WasmInit /\ LexAtRest /\ ScanAtRest

Lexing == scanner = "lexer" /\ LexNext /\ UNCHANGED <<scanner, vars, wasmVars>>
Scanning == scanner = "source" /\ Next /\ UNCHANGED <<scanner, lexVars, wasmVars>>
WasmScanning == scanner = "wasm" /\ WasmNext /\ UNCHANGED <<scanner, lexVars, vars>>

ScannersNext == Lexing \/ Scanning \/ WasmScanning

ScannersSpec == ScannersInit /\ [][ScannersNext]_allVars /\ WF_allVars(WasmScanning)
=============================================================================
