------------------------------ MODULE MCFormats ------------------------------
(***************************************************************************)
(* The conversions between sorseal and the world, for TLC: the ledger made *)
(* up by simulate-onchain (Simulate), the XDR read out of a node's answers *)
(* (Onchain) and the timestamps (Clock).  A behaviour is one of the three: *)
(* the others do not move.                                                 *)
(*                                                                         *)
(* One wasm of Simulate may stay unsealed.  The answers for Onchain are    *)
(* what sim.rs encodes for hashes that look like tags of the format, each  *)
(* with one token altered, cut off anywhere or followed by the rest of a   *)
(* real entry.  The clock is read again a day less a second later, on      *)
(* every day of four centuries, at every second of the day.                *)
(***************************************************************************)
EXTENDS Onchain, Simulate, Clock

CONSTANTS a1, a2, w1, w2, w3

const_Update == <<11, 12>>
const_Wasm == <<14>>
const_Tokens == 0 .. 20
const_Served == {<<19, 0>>, <<1, 20>>}

\* Values a token is altered to: tags, and lengths that reach beyond the end.
Altered == {0, 1, 2, 3, 9, 16, 19, 20}
Alter(b) == UNION {{[b EXCEPT ![k] = v] : v \in Altered} : k \in DOMAIN b}
CutOff(b) == {SubSeq(b, 1, k) : k \in 0 .. Len(b)}
Variants(b) == {b, b \o <<1, 9>>} \cup Alter(b) \cup CutOff(b) \cup {<<0>> \o b}

Entries == {ContractEntry(i, w) : i \in const_Served, w \in const_Served}
Asset(i) == SubSeq(ContractEntry(i, i), 1, 6 + HashLen) \o <<IsAsset>>
Topics(w, v) == <<SymbolTopic, WasmTopic(w), WasmTopic(v)>>
Upgrades == {Topics(w, v) : w \in const_Served, v \in const_Served}

OneTopic(t) ==
  UNION {{[t EXCEPT ![k] = b] : b \in Variants(t[k])} : k \in DOMAIN t} \cup CutOff(t)

\* One side of an answer is varied while the other is as it should be.
Plain == [entry : Entries, topics : Upgrades]
const_Answers ==
  Plain
    \cup [entry : UNION {Variants(e) : e \in Entries} \cup {Asset(<<1, 20>>)},
          topics : {Topics(<<19, 0>>, <<1, 20>>)}]
    \cup [entry : {ContractEntry(<<1, 20>>, <<19, 0>>)},
          topics : UNION {OneTopic(t) : t \in Upgrades}]

const_Texts ==
  [prefix : BOOLEAN, spelling : {"upper", "strkey", "other"}, id : {<<1, 20>>}]
const_Records ==
  {<<>>} \cup {<<[id |-> a1, wasm |-> v]>> : v \in const_Served}
    \cup {<<[id |-> a1, wasm |-> v], [id |-> a2, wasm |-> w]>> :
            v \in const_Served, w \in const_Served}

const_Delays == {<<23, 59, 59>>}
-----------------------------------------------------------------------------
VARIABLE part  \* the conversion of this behaviour

allVars == <<part, vars, simVars, clockVars>>

OnchainAtRest ==
  /\ record = <<>> /\ choice = None
  /\ text = [prefix |-> TRUE, spelling |-> "upper", id |-> <<1, 20>>]
  /\ answer = [entry |-> ContractEntry(<<1, 20>>, <<19, 0>>), topics |-> Topics(<<19, 0>>, <<1, 20>>)]
  /\ pc = "select" /\ sealed = None /\ deployed = None /\ events = None
SimulateAtRest == prov = <<>> /\ named = 0 /\ upgrades = Default /\ deploy = Default /\ out = <<>>

FormatsInit ==
  /\ ClockInit
  /\ \/ part = "simulate" /\ SimInit /\ OnchainAtRest
     \/ part = "onchain" /\ Init /\ SimulateAtRest
     \/ part = "clock" /\ OnchainAtRest /\ SimulateAtRest

FormatsNext ==
  /\ UNCHANGED part
  /\ \/ part = "simulate" /\ SimNext /\ UNCHANGED <<vars, clockVars>>
     \/ part = "onchain" /\ Next /\ UNCHANGED <<simVars, clockVars>>
     \/ part = "clock" /\ ClockNext /\ UNCHANGED <<vars, simVars>>

FormatsSpec == FormatsInit /\ [][FormatsNext]_allVars
=============================================================================
