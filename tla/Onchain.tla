------------------------------ MODULE Onchain -------------------------------
(***************************************************************************)
(* What `sorseal onchain-verify` and the audit read out of the XDR a node  *)
(* answers with (src/src/onchain.rs, src/src/audit.rs), with the encoders  *)
(* of src/src/sim.rs for the other side.  An XDR string is a sequence of   *)
(* tokens, one for each 32-bit word and for each piece of a name or of a   *)
(* hash; a contract id and a wasm hash are HashLen tokens.                 *)
(***************************************************************************)
EXTENDS Integers, SequencesExt

CONSTANTS
  Tokens,             \* of an XDR string
  HashLen,            \* tokens of a hash (32 bytes)
  Served,             \* the hashes and contract ids there are
  Update, Wasm,       \* the symbols "executable_update" and "Wasm", unpadded
  Padding,            \* tokens of the padding of the first one
  Answers,            \* what a node may answer with
  Texts,              \* contract ids as they may be typed
  Records,            \* the artifacts of sealed records: sequences of id and wasm
  Artifacts,          \* ids for --artifact
  None,               \* no option given
  Error               \* an Err

Hashes == [1 .. HashLen -> Tokens]
Zeroes(n) == [k \in 1 .. n |-> 0]

\* A typed id: with or without 0x, its spelling, and the contract it stands for.
Text == [prefix : BOOLEAN, spelling : {"lower", "upper", "strkey", "other"}, id : Hashes]

ASSUME OnchainAssumption ==
  /\ Tokens \subseteq Nat /\ HashLen \in Nat /\ Served \subseteq Hashes
  /\ Update \in Seq(Tokens) /\ Wasm \in Seq(Tokens) /\ Padding \in Nat
  /\ Answers \subseteq [entry : Seq(Tokens), topics : Seq(Seq(Tokens))]
  /\ Texts \subseteq Text
  /\ Records \subseteq Seq([id : Artifacts, wasm : Hashes])
  /\ {None, Error} \cap (Artifacts \cup Hashes) = {}

VARIABLES
  record, choice, text,  \* the arguments of onchain-verify
  answer,                \* what the node will answer
  pc,
  sealed, deployed,      \* the hashes it compares
  events                 \* old and new wasm of the event of the answer, or Error

vars == <<record, choice, text, answer, pc, sealed, deployed, events>>
inputs == <<record, choice, text, answer>>

TypeOK ==
  /\ record \in Records /\ choice \in Artifacts \cup {None}
  /\ text \in Texts
  /\ pc \in {"select", "fetch", "compare", "pass", "fail", "error"}
  /\ sealed \in Hashes \cup {None}
  /\ deployed \in Hashes \cup {None}
  /\ events \in (Hashes \X Hashes) \cup {None, Error}

Init ==
  /\ record \in Records /\ choice \in Artifacts \cup {None}
  /\ text \in Texts /\ answer \in Answers
  /\ pc = "select"
  /\ sealed = None /\ deployed = None /\ events = None

\* Definitions whose names end in Fault are the definition after them with a
\* plausible bug in it; the model never uses them.
-----------------------------------------------------------------------------
(***************************************************************************)
(* Encoding (sim.rs)                                                       *)
(***************************************************************************)
\* The tags both sides have: CONTRACT_DATA, a contract's address, the instance
\* key, persistent, an instance, an executable that is wasm, a vector that is
\* there, a symbol, bytes.
ContractData == 6
Address == 1
InstanceKey == 20
Persistent == 1
Instance == 19
IsWasm == 0
IsAsset == 1
Vec == 16
Present == 1
Symbol == 15
Bytes == 13

ContractEntry(id, wasm) ==
  <<ContractData, 0, Address>> \o id
    \o <<InstanceKey, Persistent, Instance, IsWasm>> \o wasm

SymbolTopic == <<Symbol, Len(Update)>> \o Update \o Zeroes(Padding)

WasmTopic(wasm) ==
  <<Vec, Present, 2, Symbol, Len(Wasm)>> \o Wasm \o <<Bytes, HashLen>> \o wasm
-----------------------------------------------------------------------------
(***************************************************************************)
(* Decoding (onchain.rs, audit.rs)                                         *)
(***************************************************************************)
\* The reads of a cursor, all of which must succeed: a token that must be this
\* one, or any.
Free == -1
Frees(n) == [k \in 1 .. n |-> Free]
Reads(b, layout) ==
  Len(layout) <= Len(b) /\ \A k \in DOMAIN layout : layout[k] \in {Free, b[k]}

\* The HashLen tokens after the first n; they must all be there.
Take(b, n) == IF n + HashLen <= Len(b) THEN SubSeq(b, n + 1, n + HashLen) ELSE Error

EntryHeadLaxFault ==
  <<ContractData, Free, Free>> \o Frees(HashLen) \o <<InstanceKey, Free, Instance>>
EntryHead ==
  <<ContractData, Free, Address>> \o Frees(HashLen) \o <<InstanceKey, Persistent, Instance>>

\* None for a built-in contract.
WasmHashFromEntry(b) ==
  LET n == Len(EntryHead) + 1 IN
  IF Reads(b, EntryHead \o <<IsWasm>>) THEN Take(b, n)
  ELSE IF Reads(b, EntryHead \o <<IsAsset>>) THEN None ELSE Error

\* The length is read and believed, and what it spans must be the name.
IsExecutableUpdate(b) ==
  /\ Reads(b, <<Free, Free>>) /\ b[1] = Symbol
  /\ 2 + b[2] <= Len(b) /\ SubSeq(b, 3, 2 + b[2]) = Update

WasmHead == <<Vec, Present, 2, Symbol, Len(Wasm)>> \o Wasm \o <<Bytes, HashLen>>
DecodeWasmExecutable(b) == IF Reads(b, WasmHead) THEN Take(b, Len(WasmHead)) ELSE Error

DecodeUpgradeEvent(topics) ==
  IF Len(topics) = 3 /\ IsExecutableUpdate(topics[1])
       /\ \A k \in {2, 3} : DecodeWasmExecutable(topics[k]) # Error
    THEN <<DecodeWasmExecutable(topics[2]), DecodeWasmExecutable(topics[3])>>
    ELSE Error

\* Hexadecimal of either case, with 0x or without; or a strkey.
NormalizeContractId(t) ==
  IF t.spelling \in {"lower", "upper"} \/ (t.spelling = "strkey" /\ ~t.prefix)
    THEN t.id ELSE Error
-----------------------------------------------------------------------------
(***************************************************************************)
(* onchain-verify                                                          *)
(***************************************************************************)
Fails == pc' = "error" /\ UNCHANGED <<sealed, deployed, events>>

\* The artifact named by --artifact, or the first.
Positions == {k \in DOMAIN record : choice \in {None, record[k].id}}

Select ==
  /\ pc = "select"
  /\ \/ /\ Positions # {}
        /\ sealed' = record[Min(Positions)].wasm
        /\ pc' = "fetch" /\ UNCHANGED <<deployed, events>>
     \/ Positions = {} /\ Fails
  /\ UNCHANGED inputs

\* The id must normalise before the node is asked, and the answer must hold a
\* wasm hash: an error of the node and an answer without entries hold none.  The
\* same answer to an audit is decoded beside it, the event's contract aside.
Fetch ==
  /\ pc = "fetch"
  /\ LET wasm == WasmHashFromEntry(answer.entry) IN
       \/ /\ NormalizeContractId(text) # Error /\ wasm \notin {None, Error}
          /\ deployed' = wasm
          /\ events' = DecodeUpgradeEvent(answer.topics)
          /\ pc' = "compare" /\ UNCHANGED sealed
       \/ (NormalizeContractId(text) = Error \/ wasm \in {None, Error}) /\ Fails
  /\ UNCHANGED inputs

Compare ==
  /\ pc = "compare"
  /\ pc' = IF deployed = sealed THEN "pass" ELSE "fail"
  /\ UNCHANGED <<inputs, sealed, deployed, events>>

Next == Select \/ Fetch \/ Compare

Spec == Init /\ [][Next]_vars
-----------------------------------------------------------------------------
(***************************************************************************)
(* Properties                                                              *)
(***************************************************************************)
\* A hash is read out of an entry only if the entry starts with the encoding of
\* an instance with that hash: no cut, altered or shifted answer yields one.
EntryHashIsEncoded ==
  pc \in {"compare", "pass", "fail"} =>
    LET plain == ContractEntry(SubSeq(answer.entry, 4, 3 + HashLen), deployed)
    IN  IsPrefix([plain EXCEPT ![2] = answer.entry[2]], answer.entry)

\* An upgrade is read out of an event only if its three topics are the encoding
\* of that upgrade; the padding of the first one is not looked at.
EventIsEncoded ==
  events \notin {None, Error} =>
    /\ Len(answer.topics) = 3
    /\ IsPrefix(<<Symbol, Len(Update)>> \o Update, answer.topics[1])
    /\ \A k \in 1 .. 2 : IsPrefix(WasmTopic(events[k]), answer.topics[k + 1])

\* What simulate-onchain serves is what is read: the two hand-written sides
\* agree, for hashes made of tags too.
SimulatedIsRead ==
  \A id, w, v \in Served :
    answer.entry = ContractEntry(id, w) /\ sealed # None =>
      /\ pc = "error" => NormalizeContractId(text) = Error
      /\ pc \in {"compare", "pass", "fail"} =>
           /\ deployed = w
           /\ answer.topics = <<SymbolTopic, WasmTopic(w), WasmTopic(v)>> => events = <<w, v>>

\* A pass means that the artifact the user meant is sealed with the deployed
\* hash, whatever else the record holds.
PassMeansChosen ==
  pc = "pass" =>
    /\ choice # None => \E k \in DOMAIN record : record[k] = [id |-> choice, wasm |-> deployed]
    /\ choice = None => record[1].wasm = deployed

\* The decoders read what is encoded and nothing else, and what they read decides
\* on the artifact asked for.
DecodersCorrect ==
  TypeOK /\ EntryHashIsEncoded /\ EventIsEncoded /\ SimulatedIsRead /\ PassMeansChosen
=============================================================================
