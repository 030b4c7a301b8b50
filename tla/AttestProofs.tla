---------------------------- MODULE AttestProofs -----------------------------
(***************************************************************************)
(* Proofs about Attest, for every set of names, keys, artifacts and shells *)
(* and every bound: type correctness, and that verify-attestation passes   *)
(* only what was signed with the private half of the key it was given.     *)
(***************************************************************************)
EXTENDS Attest, TLAPS

(***************************************************************************)
(* What a command holds at each of its steps, given the signatures sg made *)
(* so far: a key, a record or an envelope once it has one; a sign run      *)
(* about to write has signed its statement; a verification past the        *)
(* signature check holds a payload that was signed with its key.           *)
(***************************************************************************)
HoldsKey(r) ==
  r.pc \in {"seed2", "public", "public2", "record", "att", "att2", "subjects", "verdict"}

RunOK(r, sg) ==
  /\ HoldsKey(r) => r.key \in Keys
  /\ r.pc \in {"att", "att2"} => r.record \in Records
  /\ r.pc = "att2" => <<r.key, Statement(r.record)>> \in sg
  /\ r.pc \in {"subjects", "verdict"} =>
       r.env \in Envelopes /\ <<r.key, r.env.payload>> \in sg

\* The signature of the attestation on disk was made by a sign run.
AttSigned == att \in Envelopes => <<att.by, att.over>> \in signed

AttestInv == TypeOK /\ AttSigned /\ \A p \in Procs : RunOK(proc[p], signed)

-----------------------------------------------------------------------------
LEMMA NoRunOK ==
  ASSUME NEW x \in Exits, NEW sg
  PROVE  NoRun(x) \in Runs /\ RunOK(NoRun(x), sg)
<1>1. (CHOOSE n \in Names : TRUE) \in Names
  BY ConstantsAssumption
<1>2. QED
  BY <1>1 DEF RunOK, HoldsKey, NoRun, Runs, Steps

\* A step of one command keeps the others in order.
LEMMA StepRuns ==
  ASSUME AttestInv, NEW p \in Procs, NEW r \in Runs, RunOK(r, signed'),
         signed \subseteq signed', Local(p, r) \/ Write(p, r)
  PROVE  proc' \in [Procs -> Runs] /\ \A q \in Procs : RunOK(proc'[q], signed')
<1>1. proc \in [Procs -> Runs] /\ \A q \in Procs : RunOK(proc[q], signed')
  BY DEF AttestInv, TypeOK, RunOK
<1>2. \A q \in Procs : LET s == [proc[q] EXCEPT !.calm = FALSE]
                       IN  s \in Runs /\ RunOK(s, signed')
  BY <1>1 DEF RunOK, HoldsKey, Runs
<1>3. CASE Local(p, r)
  BY <1>1, <1>3 DEF Local
<1>4. CASE Write(p, r)
  BY <1>1, <1>2, <1>4 DEF Write
<1>5. QED
  BY <1>3, <1>4

LEMMA InitInv == Init => AttestInv
<1> SUFFICES ASSUME Init PROVE AttestInv
  OBVIOUS
<1>1. NoRun("none") \in Runs /\ RunOK(NoRun("none"), signed)
  BY NoRunOK DEF Exits
<1>2. proc \in [Procs -> Runs] /\ \A p \in Procs : RunOK(proc[p], signed)
  BY <1>1 DEF Init
<1>3. AttSigned
  BY ConstantsAssumption DEF Init, AttSigned
<1>4. TypeOK
  BY <1>2, ConstantsAssumption DEF Init, TypeOK
<1>5. QED
  BY <1>2, <1>3, <1>4 DEF AttestInv

-----------------------------------------------------------------------------
(***************************************************************************)
(* Steps that leave the attestation and the signatures alone.              *)
(***************************************************************************)
Quiet == att' = att /\ signed' = signed

LEMMA QuietStep ==
  ASSUME AttestInv, Quiet,
         file' \in [Names -> KeyFiles \cup {Absent, Torn}],
         prov' \in Records \cup {Absent, Torn},
         drawn' \subseteq Keys, edits' \in 0..MaxEdits, starts' \in 0..MaxStarts,
         proc' \in [Procs -> Runs], \A q \in Procs : RunOK(proc'[q], signed')
  PROVE  AttestInv'
BY DEF AttestInv, TypeOK, AttSigned, Quiet

\* A step of p that changes nothing but p, or ends it.
LEMMA LocalStep ==
  ASSUME AttestInv, NEW p \in Procs, NEW r \in Runs, RunOK(r, signed), Local(p, r),
         UNCHANGED <<disk, drawn, signed, edits, starts>>
  PROVE  AttestInv'
<1>1. proc' \in [Procs -> Runs] /\ \A q \in Procs : RunOK(proc'[q], signed')
  BY StepRuns DEF disk
<1>2. QED
  BY <1>1, QuietStep DEF Quiet, disk, AttestInv, TypeOK

LEMMA ExitStep ==
  ASSUME AttestInv, NEW p \in Procs, NEW x \in Exits, Exit(p, x),
         UNCHANGED <<disk, drawn, signed, edits, starts>>
  PROVE  AttestInv'
BY NoRunOK, LocalStep DEF Exit

LEMMA BeginInv ==
  ASSUME AttestInv, NEW p \in Procs, Begin(p)
  PROVE  AttestInv'
<1>1. PICK r \in Runs : r.pc \in {"seed", "key", "envelope"} /\ Start(p, r)
  <2>1. NoRun("none") \in Runs
    BY NoRunOK DEF Exits
  <2>2. CASE KeygenStart(p)
    BY <2>1, <2>2 DEF KeygenStart, NoRun, Runs, Steps
  <2>3. CASE SignStart(p)
    BY <2>1, <2>3 DEF SignStart, NoRun, Runs, Steps
  <2>4. CASE VerifyStart(p)
    BY <2>1, <2>4 DEF VerifyStart, NoRun, Runs, Steps
  <2>5. QED
    BY <2>2, <2>3, <2>4 DEF Begin
<1> DEFINE s == [r EXCEPT !.calm = TRUE]
<1>2. s \in Runs /\ RunOK(s, signed)
  BY <1>1 DEF Runs, RunOK, HoldsKey
<1>3. Local(p, s) /\ UNCHANGED <<disk, drawn, signed, edits>> /\ starts' = starts + 1
        /\ starts < MaxStarts
  BY <1>1 DEF Start
<1>4. proc' \in [Procs -> Runs] /\ \A q \in Procs : RunOK(proc'[q], signed')
  BY <1>2, <1>3, StepRuns
<1>5. starts' \in 0..MaxStarts
  BY <1>3, ConstantsAssumption DEF AttestInv, TypeOK
<1>6. QED
  BY <1>3, <1>4, <1>5, QuietStep DEF Quiet, disk, AttestInv, TypeOK

LEMMA KeygenOpenInv ==
  ASSUME AttestInv, NEW p \in Procs, KeygenOpen(p)
  PROVE  AttestInv'
<1> DEFINE r == proc[p]
<1>0. r \in Runs /\ RunOK(r, signed)
  BY DEF AttestInv, TypeOK
<1>1. UNCHANGED <<att, prov, signed, edits, starts>>
        /\ file' = [file EXCEPT ![Target(r)] = Torn]
  BY DEF KeygenOpen
<1>2. file' \in [Names -> KeyFiles \cup {Absent, Torn}]
  BY <1>1 DEF AttestInv, TypeOK
<1>3. PICK s \in Runs : RunOK(s, signed) /\ Write(p, s) /\ drawn' \subseteq Keys
  <2>1. CASE r.pc = "seed"
    <3>1. PICK k \in Keys \ drawn : drawn' = drawn \cup {k}
                                    /\ Write(p, [r EXCEPT !.pc = "seed2", !.key = k])
      BY <2>1 DEF KeygenOpen
    <3>2. [r EXCEPT !.pc = "seed2", !.key = k] \in Runs
            /\ RunOK([r EXCEPT !.pc = "seed2", !.key = k], signed)
      BY <1>0 DEF Runs, Steps, RunOK, HoldsKey
    <3>3. drawn' \subseteq Keys
      BY <3>1 DEF AttestInv, TypeOK
    <3>4. QED
      BY <3>1, <3>2, <3>3
  <2>2. CASE r.pc = "public"
    <3>1. Write(p, [r EXCEPT !.pc = "public2"]) /\ UNCHANGED drawn
      BY <2>2 DEF KeygenOpen
    <3>2. [r EXCEPT !.pc = "public2"] \in Runs /\ RunOK([r EXCEPT !.pc = "public2"], signed)
      BY <1>0, <2>2 DEF Runs, Steps, RunOK, HoldsKey
    <3>3. QED
      BY <3>1, <3>2 DEF AttestInv, TypeOK
  <2>3. QED
    BY <2>1, <2>2 DEF KeygenOpen
<1>4. QED
  BY <1>1, <1>2, <1>3, StepRuns, QuietStep DEF Quiet, AttestInv, TypeOK

LEMMA KeygenWriteInv ==
  ASSUME AttestInv, NEW p \in Procs, KeygenWrite(p)
  PROVE  AttestInv'
<1> DEFINE r == proc[p]
           s == IF r.pc = "seed2" THEN [r EXCEPT !.pc = "public"] ELSE NoRun("pass")
<1>0. r \in Runs /\ RunOK(r, signed)
  BY DEF AttestInv, TypeOK
<1>1. /\ r.pc \in {"seed2", "public2"} /\ Write(p, s)
      /\ UNCHANGED <<att, prov, drawn, signed, edits, starts>>
  BY DEF KeygenWrite
<1>2. PICK v \in Outcome(file[Target(r)], Half(r)) : file' = [file EXCEPT ![Target(r)] = v]
  BY DEF KeygenWrite
<1>3. Half(r) \in KeyFiles
  BY <1>0, <1>1 DEF Half, KeyFiles, RunOK, HoldsKey
<1>4. v \in KeyFiles \cup {Torn}
  BY <1>2, <1>3 DEF Outcome
<1>5. file' \in [Names -> KeyFiles \cup {Absent, Torn}]
  BY <1>2, <1>4 DEF AttestInv, TypeOK
<1>6. s \in Runs /\ RunOK(s, signed)
  <2>1. CASE r.pc = "seed2"
    BY <1>0, <2>1 DEF Runs, Steps, RunOK, HoldsKey
  <2>2. CASE r.pc # "seed2"
    BY <2>2, NoRunOK DEF Exits
  <2>3. QED
    BY <2>1, <2>2
<1>7. QED
  BY <1>1, <1>5, <1>6, StepRuns, QuietStep DEF Quiet, AttestInv, TypeOK

-----------------------------------------------------------------------------
\* sign reads its key, then the record.
LEMMA SignReadInv ==
  ASSUME AttestInv, NEW p \in Procs, SignKey(p) \/ SignRecord(p)
  PROVE  AttestInv'
<1> DEFINE r == proc[p]
           f == file[r.seedName]
<1>0. r \in Runs /\ RunOK(r, signed) /\ UNCHANGED <<disk, drawn, signed, edits, starts>>
  BY DEF AttestInv, TypeOK, SignKey, SignRecord
<1>1. CASE SignKey(p)
  <2>1. CASE f \in KeyFiles /\ f.kind = "seed"
    <3>1. Local(p, [r EXCEPT !.pc = "record", !.key = f.key])
      BY <1>1, <2>1 DEF SignKey
    <3>2. [r EXCEPT !.pc = "record", !.key = f.key] \in Runs
            /\ RunOK([r EXCEPT !.pc = "record", !.key = f.key], signed)
      BY <1>0, <2>1 DEF Runs, Steps, RunOK, HoldsKey, KeyFiles
    <3>3. QED
      BY <1>0, <3>1, <3>2, LocalStep
  <2>2. CASE ~(f \in KeyFiles /\ f.kind = "seed")
    BY <1>0, <1>1, <2>2, ExitStep DEF SignKey, Exits
  <2>3. QED
    BY <2>1, <2>2
<1>2. CASE SignRecord(p)
  <2>1. CASE prov \in {Absent, Torn}
    BY <1>0, <1>2, <2>1, ExitStep DEF SignRecord, Exits
  <2>2. CASE prov \notin {Absent, Torn}
    <3>1. Local(p, [r EXCEPT !.pc = "att", !.record = prov]) /\ r.pc = "record"
      BY <1>2, <2>2 DEF SignRecord
    <3>2. prov \in Records
      BY <2>2 DEF AttestInv, TypeOK
    <3>3. [r EXCEPT !.pc = "att", !.record = prov] \in Runs
            /\ RunOK([r EXCEPT !.pc = "att", !.record = prov], signed)
      BY <1>0, <3>1, <3>2 DEF Runs, Steps, RunOK, HoldsKey
    <3>4. QED
      BY <1>0, <3>1, <3>3, LocalStep
  <2>3. QED
    BY <2>1, <2>2
<1>3. QED
  BY <1>1, <1>2

LEMMA StatementType ==
  ASSUME NEW rec \in Records
  PROVE  Statement(rec) \in Statements
BY DEF Statement, Records, Statements

\* The statement is signed before the attestation is truncated.
LEMMA SignOpenInv ==
  ASSUME AttestInv, NEW p \in Procs, SignOpen(p)
  PROVE  AttestInv'
<1> DEFINE r == proc[p]
           s == [r EXCEPT !.pc = "att2"]
<1>0. r \in Runs /\ RunOK(r, signed)
  BY DEF AttestInv, TypeOK
<1>1. /\ r.pc = "att" /\ Write(p, s) /\ att' = Torn
      /\ signed' = signed \cup {<<r.key, Statement(r.record)>>}
      /\ UNCHANGED <<file, prov, drawn, edits, starts>>
  BY DEF SignOpen
<1>2. r.key \in Keys /\ Statement(r.record) \in Statements
  BY <1>0, <1>1, StatementType DEF RunOK, HoldsKey
<1>3. s \in Runs /\ RunOK(s, signed')
  BY <1>0, <1>1 DEF Runs, Steps, RunOK, HoldsKey
<1>4. proc' \in [Procs -> Runs] /\ \A q \in Procs : RunOK(proc'[q], signed')
  BY <1>1, <1>3, StepRuns
<1>5. signed' \subseteq Keys \X Statements
  BY <1>1, <1>2 DEF AttestInv, TypeOK
<1>6. AttSigned'
  BY <1>1, ConstantsAssumption DEF AttSigned
<1>7. QED
  BY <1>1, <1>4, <1>5, <1>6 DEF AttestInv, TypeOK

LEMMA SignWriteInv ==
  ASSUME AttestInv, NEW p \in Procs, SignWrite(p)
  PROVE  AttestInv'
<1> DEFINE r == proc[p]
           e == Signed(r.key, Statement(r.record))
<1>0. r \in Runs /\ RunOK(r, signed)
  BY DEF AttestInv, TypeOK
<1>1. /\ r.pc = "att2" /\ Write(p, NoRun("pass")) /\ att' \in {e, Torn}
      /\ UNCHANGED <<file, prov, drawn, signed, edits, starts>>
  BY DEF SignWrite, Outcome
<1>2. r.key \in Keys /\ Statement(r.record) \in Statements
  BY <1>0, <1>1, StatementType DEF RunOK, HoldsKey
<1>3. e \in Envelopes /\ <<e.by, e.over>> \in signed
  BY <1>0, <1>1, <1>2 DEF Signed, Envelopes, RunOK
<1>4. AttSigned' /\ att' \in Envelopes \cup {Torn}
  BY <1>1, <1>3, ConstantsAssumption DEF AttSigned
<1>5. NoRun("pass") \in Runs /\ RunOK(NoRun("pass"), signed)
  BY NoRunOK DEF Exits
<1>6. proc' \in [Procs -> Runs] /\ \A q \in Procs : RunOK(proc'[q], signed')
  BY <1>1, <1>5, StepRuns
<1>7. QED
  BY <1>1, <1>4, <1>6 DEF AttestInv, TypeOK

-----------------------------------------------------------------------------
\* A verification holds a payload only once its signature has been checked.
LEMMA VerifyEnvelopeInv ==
  ASSUME AttestInv, NEW p \in Procs, VerifyEnvelope(p)
  PROVE  AttestInv'
<1> DEFINE r == proc[p]
           f == file[r.pubName]
<1>0. /\ r \in Runs /\ RunOK(r, signed) /\ r.pc = "envelope"
      /\ UNCHANGED <<disk, drawn, signed, edits, starts>>
  BY DEF AttestInv, TypeOK, VerifyEnvelope
<1>1. CASE /\ f \in KeyFiles /\ Local(p, [r EXCEPT !.key = f.key])
  <2>1. [r EXCEPT !.key = f.key] \in Runs /\ RunOK([r EXCEPT !.key = f.key], signed)
    BY <1>0, <1>1 DEF Runs, RunOK, HoldsKey, KeyFiles
  <2>2. QED
    BY <1>0, <1>1, <2>1, LocalStep
<1>2. CASE /\ r.key # NoKey /\ att \in Envelopes /\ Verifies(r.key, att)
           /\ Local(p, [r EXCEPT !.pc = "subjects", !.env = att])
  <2>1. r.key \in Keys
    BY <1>0, <1>2 DEF Runs
  <2>2. <<r.key, att.payload>> \in signed
    BY <1>2 DEF AttestInv, AttSigned, Verifies
  <2>3. [r EXCEPT !.pc = "subjects", !.env = att] \in Runs
          /\ RunOK([r EXCEPT !.pc = "subjects", !.env = att], signed)
    BY <1>0, <1>2, <2>1, <2>2 DEF Runs, Steps, RunOK, HoldsKey
  <2>4. QED
    BY <1>0, <1>2, <2>3, LocalStep
<1>3. CASE Exit(p, "error")
  BY <1>0, <1>3, ExitStep DEF Exits
<1>4. QED
  BY <1>1, <1>2, <1>3 DEF VerifyEnvelope

LEMMA VerifyRestInv ==
  ASSUME AttestInv, NEW p \in Procs, VerifySubjects(p) \/ Verdict(p) \/ Crash(p)
  PROVE  AttestInv'
<1> DEFINE r == proc[p]
           s == [r EXCEPT !.pc = "verdict", !.record = prov,
                          !.ok = prov = Absent \/ SubjectsMatch(r.env.payload, prov)]
<1>0. r \in Runs /\ RunOK(r, signed) /\ UNCHANGED <<disk, drawn, signed, edits, starts>>
  BY DEF AttestInv, TypeOK, VerifySubjects, Verdict, Crash
<1>1. CASE r.pc = "subjects" /\ prov # Torn /\ Local(p, s)
  <2>1. prov \in Records \cup {Absent}
    BY <1>1 DEF AttestInv, TypeOK
  <2>2. (prov = Absent \/ SubjectsMatch(r.env.payload, prov)) \in BOOLEAN
    BY DEF SubjectsMatch
  <2>3. s \in Runs
    BY <1>0, <2>1, <2>2 DEF Runs, Steps
  <2>4. s.pc = "verdict" /\ s.key = r.key /\ s.env = r.env
    BY <1>0 DEF Runs
  <2>5. RunOK(s, signed)
    BY <1>0, <1>1, <2>4 DEF RunOK, HoldsKey
  <2>6. QED
    BY <1>0, <1>1, <2>3, <2>5, LocalStep
<1>2. CASE \E x \in Exits : Exit(p, x)
  BY <1>0, <1>2, ExitStep
<1>3. CASE VerifySubjects(p)
  <2>1. CASE prov = Torn
    BY <1>2, <1>3, <2>1 DEF VerifySubjects, Exits
  <2>2. CASE prov # Torn
    <3>1. r.pc = "subjects" /\ Local(p, s)
      BY <1>3, <2>2 DEF VerifySubjects
    <3>2. QED
      BY <1>1, <2>2, <3>1
  <2>3. QED
    BY <2>1, <2>2
<1>4. CASE Verdict(p)
  <2>1. Exit(p, "pass") \/ Exit(p, "fail")
    BY <1>4 DEF Verdict
  <2>2. QED
    BY <1>2, <2>1 DEF Exits
<1>5. CASE Crash(p)
  BY <1>2, <1>5 DEF Crash, Exits
<1>6. QED
  BY <1>3, <1>4, <1>5

-----------------------------------------------------------------------------
\* The environment may exchange a payload; the signature under it stays.
LEMMA EnvironmentInv ==
  ASSUME AttestInv, EditRecord \/ EditAttestation \/ CopyKey
  PROVE  AttestInv'
<1>1. /\ edits' \in 0..MaxEdits
      /\ proc' = [q \in Procs |-> [proc[q] EXCEPT !.calm = FALSE]]
      /\ UNCHANGED <<drawn, signed, starts>>
  <2>1. Edit
    BY DEF EditRecord, EditAttestation, CopyKey
  <2>2. edits' \in 0..MaxEdits
    BY <2>1, ConstantsAssumption DEF Edit, AttestInv, TypeOK
  <2>3. QED
    BY <2>1, <2>2 DEF Edit
<1>2. proc' \in [Procs -> Runs] /\ \A q \in Procs : RunOK(proc'[q], signed')
  <2>1. ASSUME NEW q \in Procs PROVE proc'[q] \in Runs /\ RunOK(proc'[q], signed')
    <3>1. proc[q] \in Runs /\ RunOK(proc[q], signed)
      BY DEF AttestInv, TypeOK
    <3>2. proc'[q] = [proc[q] EXCEPT !.calm = FALSE] /\ signed' = signed
      BY <1>1
    <3>3. proc'[q] \in Runs
      BY <3>1, <3>2 DEF Runs
    <3>4. /\ proc'[q].pc = proc[q].pc
          /\ proc'[q].key = proc[q].key
          /\ proc'[q].record = proc[q].record
          /\ proc'[q].env = proc[q].env
      BY <3>1, <3>2 DEF Runs
    <3>5. QED
      BY <3>1, <3>2, <3>3, <3>4 DEF RunOK, HoldsKey
  <2>2. QED
    BY <1>1, <2>1
<1>3. CASE EditRecord
  BY <1>1, <1>2, <1>3, QuietStep DEF EditRecord, Quiet, AttestInv, TypeOK
<1>4. CASE CopyKey
  BY <1>1, <1>2, <1>4, QuietStep DEF CopyKey, Quiet, AttestInv, TypeOK
<1>5. CASE EditAttestation
  <2>1. UNCHANGED <<file, prov>>
    BY <1>5 DEF EditAttestation
  <2>2. CASE att' \in {Absent, Torn}
    BY <1>1, <1>2, <2>1, <2>2, ConstantsAssumption DEF AttestInv, TypeOK, AttSigned
  <2>3. CASE att \in Envelopes /\ \E t \in Statements : att' = [att EXCEPT !.payload = t]
    <3>1. att' \in Envelopes /\ att'.by = att.by /\ att'.over = att.over
      BY <2>3 DEF Envelopes
    <3>2. QED
      BY <1>1, <1>2, <2>1, <2>3, <3>1 DEF AttestInv, TypeOK, AttSigned
  <2>4. QED
    BY <1>5, <2>2, <2>3 DEF EditAttestation
<1>6. QED
  BY <1>3, <1>4, <1>5

LEMMA NextInv ==
  ASSUME AttestInv, [Next]_vars
  PROVE  AttestInv'
<1>1. ASSUME NEW p \in Procs, Advance(p) PROVE AttestInv'
  BY <1>1, KeygenOpenInv, KeygenWriteInv, SignReadInv, SignOpenInv, SignWriteInv,
     VerifyEnvelopeInv, VerifyRestInv DEF Advance
<1>2. CASE UNCHANGED vars
  BY <1>2 DEF vars, AttestInv, TypeOK, AttSigned
<1>3. QED
  BY <1>1, <1>2, EnvironmentInv, BeginInv, VerifyRestInv DEF Next

\* Type correctness of keygen, sign and verify-attestation over their files,
\* for any names, keys, shells and bounds.
THEOREM AttestTypeCorrect == Spec => []TypeOK
<1>1. AttestInv => TypeOK
  BY DEF AttestInv
<1>2. QED
  BY <1>1, InitInv, NextInv, PTL DEF Spec

\* "releases can be authenticated by public key alone" (PRD.md:41-43), for any
\* number of shells, keys and files: verify-attestation (sign.rs) is about to
\* pass only a statement that a sign run made with the key it was given.
THEOREM PassesOnlySigned == Spec => []PassMeansSigned
<1>1. AttestInv => PassMeansSigned
  BY DEF AttestInv, RunOK, PassMeansSigned
<1>2. QED
  BY <1>1, InitInv, NextInv, PTL DEF Spec
-----------------------------------------------------------------------------
(***************************************************************************)
(* What an undisturbed command has seen on disk is still there.            *)
(***************************************************************************)

\* A keygen has its private half in its own file, when that is not also the
\* public one, and its key has signed nothing.
KeygenAgrees(r, f, sg) ==
  /\ r.pc \in {"seed2", "public", "public2"} => \A s \in Statements : <<r.key, s>> \notin sg
  /\ r.pc = "seed2" => f[r.seedName] = Torn
  /\ r.pc \in {"public", "public2"} /\ r.seedName # r.pubName =>
       f[r.seedName] = [kind |-> "seed", key |-> r.key]
  /\ r.pc = "public2" => f[r.pubName] = Torn

\* A verification holds the attestation and the record, and its verdict is
\* about them.
VerdictAgrees(r, a, v) ==
  /\ r.pc \in {"subjects", "verdict"} => r.env = a
  /\ r.pc = "verdict" =>
       v # Torn /\ (r.ok <=> v = Absent \/ SubjectsMatch(r.env.payload, v))

Agrees(r, f, a, v, sg) == r.calm => KeygenAgrees(r, f, sg) /\ VerdictAgrees(r, a, v)

\* No key is in a file, in hand or under a signature before it is drawn.
FileDrawn(f, d) == \A n \in Names : f[n] \in KeyFiles => f[n].key \in d
SignedDrawn(sg, d) == \A k \in Keys, s \in Statements : <<k, s>> \in sg => k \in d
RunDrawn(r, d) == HoldsKey(r) => r.key \in d

CalmInv ==
  /\ AttestInv
  /\ FileDrawn(file, drawn) /\ SignedDrawn(signed, drawn)
  /\ \A p \in Procs : RunDrawn(proc[p], drawn) /\ Agrees(proc[p], file, att, prov, signed)

NoRunAgrees(x) == RunDrawn(NoRun(x), drawn') /\ Agrees(NoRun(x), file', att', prov', signed')

LEMMA NoRunCalm ==
  ASSUME NEW x
  PROVE  NoRunAgrees(x)
BY DEF NoRunAgrees, NoRun, RunDrawn, HoldsKey, Agrees

\* A step of p that leaves the files alone cannot disturb anyone, and one that
\* writes them ends the calm of all others.
LEMMA CalmStep ==
  ASSUME CalmInv, AttestInv', NEW p \in Procs, NEW r \in Runs,
         drawn \subseteq drawn', FileDrawn(file', drawn'), SignedDrawn(signed', drawn'),
         RunDrawn(r, drawn'), Agrees(r, file', att', prov', signed'),
         (Local(p, r) /\ UNCHANGED <<disk, signed>>) \/ Write(p, r)
  PROVE  CalmInv'
<1>1. ASSUME NEW q \in Procs
      PROVE  RunDrawn(proc'[q], drawn') /\ Agrees(proc'[q], file', att', prov', signed')
  <2>1. proc[q] \in Runs /\ RunDrawn(proc[q], drawn) /\ Agrees(proc[q], file, att, prov, signed)
    BY DEF CalmInv, AttestInv, TypeOK
  <2>2. proc \in [Procs -> Runs]
    BY DEF CalmInv, AttestInv, TypeOK
  <2>3. CASE q = p
    <3>1. proc'[q] = r
      BY <2>2, <2>3 DEF Local, Write
    <3>2. QED
      BY <3>1
  <2>4. CASE q # p /\ Local(p, r) /\ UNCHANGED <<disk, signed>>
    <3>1. proc'[q] = proc[q]
      BY <2>2, <2>4 DEF Local
    <3>2. QED
      BY <2>1, <2>4, <3>1 DEF RunDrawn, disk
  <2>5. CASE q # p /\ Write(p, r)
    <3>1. proc'[q] = [proc[q] EXCEPT !.calm = FALSE]
      BY <2>5 DEF Write
    <3>2. proc'[q].pc = proc[q].pc /\ proc'[q].key = proc[q].key
      BY <2>1, <3>1 DEF Runs
    <3>3. proc'[q].calm = FALSE
      BY <2>1, <3>1 DEF Runs
    <3>4. QED
      BY <2>1, <3>2, <3>3 DEF RunDrawn, HoldsKey, Agrees
  <2>6. QED
    BY <2>3, <2>4, <2>5
<1>2. QED
  BY <1>1 DEF CalmInv

\* A step of p that only reads, and one that ends it.
LEMMA ReadStep ==
  ASSUME CalmInv, AttestInv', NEW p \in Procs, NEW r \in Runs, Local(p, r),
         UNCHANGED <<disk, drawn, signed>>,
         RunDrawn(r, drawn), Agrees(r, file, att, prov, signed)
  PROVE  CalmInv'
<1>1. RunDrawn(r, drawn') /\ Agrees(r, file', att', prov', signed')
  BY DEF disk
<1>2. FileDrawn(file', drawn') /\ SignedDrawn(signed', drawn') /\ drawn \subseteq drawn'
  BY DEF CalmInv, disk, FileDrawn, SignedDrawn
<1>3. QED
  BY <1>1, <1>2, CalmStep

LEMMA EndStep ==
  ASSUME CalmInv, AttestInv', NEW p \in Procs, NEW x \in Exits, Exit(p, x),
         UNCHANGED <<disk, drawn, signed>>
  PROVE  CalmInv'
<1>1. RunDrawn(NoRun(x), drawn) /\ Agrees(NoRun(x), file, att, prov, signed)
  BY DEF NoRun, RunDrawn, HoldsKey, Agrees
<1>2. QED
  BY <1>1, NoRunOK, ReadStep DEF Exit

LEMMA CalmInit == Init => CalmInv
<1> SUFFICES ASSUME Init PROVE CalmInv
  OBVIOUS
<1>1. \A p \in Procs : RunDrawn(proc[p], drawn) /\ Agrees(proc[p], file, att, prov, signed)
  BY DEF Init, NoRun, RunDrawn, HoldsKey, Agrees
<1>2. FileDrawn(file, drawn) /\ SignedDrawn(signed, drawn)
  BY ConstantsAssumption DEF Init, FileDrawn, SignedDrawn
<1>3. QED
  BY <1>1, <1>2, InitInv DEF CalmInv

-----------------------------------------------------------------------------
LEMMA BeginCalm ==
  ASSUME CalmInv, AttestInv', NEW p \in Procs, Begin(p)
  PROVE  CalmInv'
<1>1. PICK r \in Runs : r.pc \in {"seed", "key", "envelope"} /\ Start(p, r)
  <2>1. NoRun("none") \in Runs
    BY NoRunOK DEF Exits
  <2>2. CASE KeygenStart(p)
    BY <2>1, <2>2 DEF KeygenStart, NoRun, Runs, Steps
  <2>3. CASE SignStart(p)
    BY <2>1, <2>3 DEF SignStart, NoRun, Runs, Steps
  <2>4. CASE VerifyStart(p)
    BY <2>1, <2>4 DEF VerifyStart, NoRun, Runs, Steps
  <2>5. QED
    BY <2>2, <2>3, <2>4 DEF Begin
<1> DEFINE s == [r EXCEPT !.calm = TRUE]
<1>2. s \in Runs /\ s.pc = r.pc
  BY <1>1 DEF Runs
<1>3. RunDrawn(s, drawn) /\ Agrees(s, file, att, prov, signed)
  BY <1>1, <1>2 DEF RunDrawn, HoldsKey, Agrees, KeygenAgrees, VerdictAgrees
<1>4. QED
  BY <1>1, <1>2, <1>3, ReadStep DEF Start

\* The key is new when it is drawn, and the file it goes to is its own until
\* the public half is written.
LEMMA KeygenOpenCalm ==
  ASSUME CalmInv, AttestInv', NEW p \in Procs, KeygenOpen(p)
  PROVE  CalmInv'
<1> DEFINE r == proc[p]
<1>0. r \in Runs /\ RunDrawn(r, drawn) /\ Agrees(r, file, att, prov, signed)
  BY DEF CalmInv, AttestInv, TypeOK
<1>1. UNCHANGED <<att, prov, signed>> /\ file' = [file EXCEPT ![Target(r)] = Torn]
        /\ file \in [Names -> KeyFiles \cup {Absent, Torn}]
  BY DEF KeygenOpen, CalmInv, AttestInv, TypeOK
<1>2. ASSUME drawn \subseteq drawn'
      PROVE  FileDrawn(file', drawn') /\ SignedDrawn(signed', drawn')
  <2>1. \A n \in Names : file'[n] \in KeyFiles => file'[n] = file[n]
    BY <1>1, ConstantsAssumption
  <2>2. QED
    BY <1>1, <1>2, <2>1 DEF CalmInv, FileDrawn, SignedDrawn
<1>3. CASE r.pc = "seed"
  <2>1. PICK k \in Keys \ drawn : drawn' = drawn \cup {k}
                                  /\ Write(p, [r EXCEPT !.pc = "seed2", !.key = k])
    BY <1>3 DEF KeygenOpen
  <2> DEFINE s == [r EXCEPT !.pc = "seed2", !.key = k]
  <2>2. s \in Runs /\ s.pc = "seed2" /\ s.key = k /\ s.seedName = r.seedName
    BY <1>0 DEF Runs, Steps
  <2>3. file'[s.seedName] = Torn
    BY <1>0, <1>1, <1>3, <2>2 DEF Target, Runs
  <2>4. \A t \in Statements : <<k, t>> \notin signed'
    BY <1>1 DEF CalmInv, SignedDrawn
  <2>5. RunDrawn(s, drawn') /\ Agrees(s, file', att', prov', signed')
    BY <2>1, <2>2, <2>3, <2>4 DEF RunDrawn, Agrees, KeygenAgrees, VerdictAgrees
  <2>6. QED
    BY <1>2, <2>1, <2>2, <2>5, CalmStep
<1>4. CASE r.pc = "public"
  <2> DEFINE s == [r EXCEPT !.pc = "public2"]
  <2>1. Write(p, s) /\ drawn' = drawn
    BY <1>4 DEF KeygenOpen
  <2>2. /\ s \in Runs /\ s.pc = "public2" /\ s.key = r.key
        /\ s.seedName = r.seedName /\ s.pubName = r.pubName
    BY <1>0 DEF Runs, Steps
  <2>3. s.calm = r.calm
    BY <1>0 DEF Runs
  <2>4. /\ file'[s.pubName] = Torn
        /\ s.seedName # s.pubName => file'[s.seedName] = file[s.seedName]
    BY <1>0, <1>1, <1>4, <2>2 DEF Target, Runs
  <2>5. RunDrawn(s, drawn')
    BY <1>0, <1>4, <2>1, <2>2 DEF RunDrawn, HoldsKey
  <2>6. Agrees(s, file', att', prov', signed')
    BY <1>0, <1>1, <1>4, <2>2, <2>3, <2>4 DEF Agrees, KeygenAgrees, VerdictAgrees
  <2>7. QED
    BY <1>2, <2>1, <2>2, <2>5, <2>6, CalmStep
<1>5. QED
  BY <1>3, <1>4 DEF KeygenOpen

LEMMA KeygenWriteCalm ==
  ASSUME CalmInv, AttestInv', NEW p \in Procs, KeygenWrite(p)
  PROVE  CalmInv'
<1> DEFINE r == proc[p]
<1>0. r \in Runs /\ RunDrawn(r, drawn) /\ Agrees(r, file, att, prov, signed)
  BY DEF CalmInv, AttestInv, TypeOK
<1>1. /\ r.pc \in {"seed2", "public2"} /\ UNCHANGED <<att, prov, drawn, signed>>
      /\ file \in [Names -> KeyFiles \cup {Absent, Torn}]
  BY DEF KeygenWrite, CalmInv, AttestInv, TypeOK
<1>2. PICK v \in Outcome(file[Target(r)], Half(r)) : file' = [file EXCEPT ![Target(r)] = v]
  BY DEF KeygenWrite
<1>3. Half(r).key \in drawn
  BY <1>0, <1>1 DEF Half, RunDrawn, HoldsKey
<1>4. v \in KeyFiles => v.key \in drawn
  BY <1>2, <1>3, ConstantsAssumption DEF Outcome
<1>5. FileDrawn(file', drawn') /\ SignedDrawn(signed', drawn')
  BY <1>1, <1>2, <1>4 DEF CalmInv, FileDrawn, SignedDrawn
<1>6. CASE r.pc = "seed2"
  <2> DEFINE s == [r EXCEPT !.pc = "public"]
  <2>1. Write(p, s)
    BY <1>6 DEF KeygenWrite
  <2>2. s \in Runs /\ s.pc = "public" /\ s.key = r.key /\ s.seedName = r.seedName
    BY <1>0 DEF Runs, Steps
  <2>3. s.calm = r.calm
    BY <1>0 DEF Runs
  <2>4. r.calm => file'[s.seedName] = [kind |-> "seed", key |-> r.key]
    <3>1. r.calm => v = Half(r)
      BY <1>0, <1>2, <1>6 DEF Agrees, KeygenAgrees, Outcome, Target
    <3>2. QED
      BY <1>0, <1>1, <1>2, <1>6, <2>2, <3>1 DEF Half, Target, Runs
  <2>5. RunDrawn(s, drawn')
    BY <1>0, <1>1, <1>6, <2>2 DEF RunDrawn, HoldsKey
  <2>6. Agrees(s, file', att', prov', signed')
    BY <1>0, <1>1, <1>6, <2>2, <2>3, <2>4 DEF Agrees, KeygenAgrees, VerdictAgrees
  <2>7. QED
    BY <1>1, <1>5, <2>1, <2>2, <2>5, <2>6, CalmStep
<1>7. CASE r.pc = "public2"
  <2>1. Write(p, NoRun("pass"))
    BY <1>7 DEF KeygenWrite
  <2>2. QED
    BY <1>1, <1>5, <2>1, NoRunOK, NoRunCalm, CalmStep DEF NoRunAgrees, Exits
<1>8. QED
  BY <1>1, <1>6, <1>7

-----------------------------------------------------------------------------
\* A private key that is read from a file has been drawn, so a signature is
\* made with a drawn key.
LEMMA SignReadCalm ==
  ASSUME CalmInv, AttestInv', NEW p \in Procs, SignKey(p) \/ SignRecord(p)
  PROVE  CalmInv'
<1> DEFINE r == proc[p]
           f == file[r.seedName]
<1>0. /\ r \in Runs /\ RunDrawn(r, drawn) /\ Agrees(r, file, att, prov, signed)
      /\ UNCHANGED <<disk, drawn, signed>>
  BY DEF CalmInv, AttestInv, TypeOK, SignKey, SignRecord
<1>1. CASE Exit(p, "error")
  BY <1>0, <1>1, EndStep DEF Exits
<1>2. CASE SignKey(p) /\ f \in KeyFiles /\ f.kind = "seed"
  <2> DEFINE s == [r EXCEPT !.pc = "record", !.key = f.key]
  <2>1. Local(p, s)
    BY <1>2 DEF SignKey
  <2>2. s \in Runs /\ s.pc = "record" /\ s.key = f.key
    BY <1>0, <1>2 DEF Runs, Steps, KeyFiles
  <2>3. r.seedName \in Names
    BY <1>0 DEF Runs
  <2>4. RunDrawn(s, drawn) /\ Agrees(s, file, att, prov, signed)
    BY <1>2, <2>2, <2>3
       DEF CalmInv, FileDrawn, RunDrawn, Agrees, KeygenAgrees, VerdictAgrees
  <2>5. QED
    BY <1>0, <2>1, <2>2, <2>4, ReadStep
<1>3. CASE SignRecord(p) /\ prov \notin {Absent, Torn}
  <2> DEFINE s == [r EXCEPT !.pc = "att", !.record = prov]
  <2>1. Local(p, s) /\ r.pc = "record"
    BY <1>3 DEF SignRecord
  <2>2. prov \in Records
    BY <1>3 DEF CalmInv, AttestInv, TypeOK
  <2>3. s \in Runs /\ s.pc = "att" /\ s.key = r.key
    BY <1>0, <2>2 DEF Runs, Steps
  <2>4. RunDrawn(s, drawn) /\ Agrees(s, file, att, prov, signed)
    BY <1>0, <2>1, <2>3
       DEF RunDrawn, HoldsKey, Agrees, KeygenAgrees, VerdictAgrees
  <2>5. QED
    BY <1>0, <2>1, <2>3, <2>4, ReadStep
<1>4. QED
  BY <1>1, <1>2, <1>3 DEF SignKey, SignRecord

LEMMA SignOpenCalm ==
  ASSUME CalmInv, AttestInv', NEW p \in Procs, SignOpen(p)
  PROVE  CalmInv'
<1> DEFINE r == proc[p]
           s == [r EXCEPT !.pc = "att2"]
<1>0. r \in Runs /\ RunDrawn(r, drawn)
  BY DEF CalmInv, AttestInv, TypeOK
<1>1. /\ r.pc = "att" /\ Write(p, s) /\ UNCHANGED <<file, drawn>>
      /\ signed' = signed \cup {<<r.key, Statement(r.record)>>}
  BY DEF SignOpen
<1>2. s \in Runs /\ s.pc = "att2" /\ s.key = r.key
  BY <1>0 DEF Runs, Steps
<1>3. r.key \in drawn
  BY <1>0, <1>1 DEF RunDrawn, HoldsKey
<1>4. FileDrawn(file', drawn') /\ SignedDrawn(signed', drawn')
  BY <1>1, <1>3 DEF CalmInv, FileDrawn, SignedDrawn
<1>5. RunDrawn(s, drawn') /\ Agrees(s, file', att', prov', signed')
  BY <1>1, <1>2, <1>3 DEF RunDrawn, Agrees, KeygenAgrees, VerdictAgrees
<1>6. QED
  BY <1>1, <1>2, <1>4, <1>5, CalmStep

LEMMA SignWriteCalm ==
  ASSUME CalmInv, AttestInv', NEW p \in Procs, SignWrite(p)
  PROVE  CalmInv'
<1>1. Write(p, NoRun("pass")) /\ UNCHANGED <<file, drawn, signed>>
  BY DEF SignWrite
<1>2. FileDrawn(file', drawn') /\ SignedDrawn(signed', drawn')
  BY <1>1 DEF CalmInv, FileDrawn, SignedDrawn
<1>3. QED
  BY <1>1, <1>2, NoRunOK, NoRunCalm, CalmStep DEF NoRunAgrees, Exits

-----------------------------------------------------------------------------
LEMMA VerifyCalm ==
  ASSUME CalmInv, AttestInv', NEW p \in Procs, VerifyEnvelope(p) \/ VerifySubjects(p)
  PROVE  CalmInv'
<1> DEFINE r == proc[p]
           f == file[r.pubName]
           m == prov = Absent \/ SubjectsMatch(r.env.payload, prov)
<1>0. /\ r \in Runs /\ RunDrawn(r, drawn) /\ Agrees(r, file, att, prov, signed)
      /\ UNCHANGED <<disk, drawn, signed>>
  BY DEF CalmInv, AttestInv, TypeOK, VerifyEnvelope, VerifySubjects
<1>1. CASE Exit(p, "error")
  BY <1>0, <1>1, EndStep DEF Exits
<1>2. CASE r.pc = "envelope" /\ f \in KeyFiles /\ Local(p, [r EXCEPT !.key = f.key])
  <2> DEFINE s == [r EXCEPT !.key = f.key]
  <2>1. s \in Runs /\ s.pc = "envelope"
    BY <1>0, <1>2 DEF Runs, KeyFiles
  <2>2. RunDrawn(s, drawn) /\ Agrees(s, file, att, prov, signed)
    BY <2>1 DEF RunDrawn, HoldsKey, Agrees, KeygenAgrees, VerdictAgrees
  <2>3. QED
    BY <1>0, <1>2, <2>1, <2>2, ReadStep
<1>3. CASE /\ r.key # NoKey /\ att \in Envelopes /\ Verifies(r.key, att)
           /\ Local(p, [r EXCEPT !.pc = "subjects", !.env = att])
  <2> DEFINE s == [r EXCEPT !.pc = "subjects", !.env = att]
  <2>1. s \in Runs /\ s.pc = "subjects" /\ s.env = att /\ s.key = r.key
    BY <1>0, <1>3 DEF Runs, Steps
  <2>2. r.key \in drawn
    BY <1>0, <1>3 DEF CalmInv, AttestInv, AttSigned, SignedDrawn, Verifies, Envelopes, Runs
  <2>3. RunDrawn(s, drawn) /\ Agrees(s, file, att, prov, signed)
    BY <2>1, <2>2 DEF RunDrawn, Agrees, KeygenAgrees, VerdictAgrees
  <2>4. QED
    BY <1>0, <1>3, <2>1, <2>3, ReadStep
<1>4. CASE /\ r.pc = "subjects" /\ prov # Torn
           /\ Local(p, [r EXCEPT !.pc = "verdict", !.record = prov, !.ok = m])
  <2> DEFINE s == [r EXCEPT !.pc = "verdict", !.record = prov, !.ok = m]
  <2>1. prov \in Records \cup {Absent} /\ m \in BOOLEAN
    BY <1>4 DEF CalmInv, AttestInv, TypeOK, SubjectsMatch
  <2>2. s \in Runs
    BY <1>0, <2>1 DEF Runs, Steps
  <2>3. s.pc = "verdict" /\ s.key = r.key /\ s.env = r.env
    BY <1>0 DEF Runs
  <2>4. (s.ok <=> m) /\ s.calm = r.calm
    BY <1>0 DEF Runs
  <2>5. RunDrawn(s, drawn)
    BY <1>0, <1>4, <2>3 DEF RunDrawn, HoldsKey
  <2>6. Agrees(s, file, att, prov, signed)
    BY <1>0, <1>4, <2>3, <2>4 DEF Agrees, KeygenAgrees, VerdictAgrees
  <2>7. QED
    BY <1>0, <1>4, <2>2, <2>5, <2>6, ReadStep
<1>5. CASE VerifyEnvelope(p)
  BY <1>1, <1>2, <1>3, <1>5 DEF VerifyEnvelope
<1>6. CASE VerifySubjects(p)
  BY <1>1, <1>4, <1>6 DEF VerifySubjects
<1>7. QED
  BY <1>5, <1>6

LEMMA EndCalm ==
  ASSUME CalmInv, AttestInv', NEW p \in Procs, Verdict(p) \/ Crash(p)
  PROVE  CalmInv'
<1>1. \E x \in Exits : Exit(p, x)
  BY DEF Verdict, Crash, Exits
<1>2. UNCHANGED <<disk, drawn, signed>>
  BY DEF Verdict, Crash
<1>3. QED
  BY <1>1, <1>2, EndStep

\* The environment copies drawn keys only, and ends every calm.
LEMMA EnvironmentCalm ==
  ASSUME CalmInv, AttestInv', EditRecord \/ EditAttestation \/ CopyKey
  PROVE  CalmInv'
<1>1. /\ proc' = [q \in Procs |-> [proc[q] EXCEPT !.calm = FALSE]]
      /\ UNCHANGED <<drawn, signed>>
  BY DEF EditRecord, EditAttestation, CopyKey, Edit
<1>2. ASSUME NEW q \in Procs
      PROVE  RunDrawn(proc'[q], drawn') /\ Agrees(proc'[q], file', att', prov', signed')
  <2>1. proc[q] \in Runs /\ RunDrawn(proc[q], drawn)
    BY DEF CalmInv, AttestInv, TypeOK
  <2>2. proc'[q] = [proc[q] EXCEPT !.calm = FALSE]
    BY <1>1
  <2>3. proc'[q].pc = proc[q].pc /\ proc'[q].key = proc[q].key
    BY <2>1, <2>2 DEF Runs
  <2>4. proc'[q].calm = FALSE
    BY <2>1, <2>2 DEF Runs
  <2>5. QED
    BY <1>1, <2>1, <2>3, <2>4 DEF RunDrawn, HoldsKey, Agrees
<1>3. FileDrawn(file', drawn')
  <2>1. \A n \in Names : \E m \in Names : file'[n] = file[m]
    BY DEF EditRecord, EditAttestation, CopyKey, CalmInv, AttestInv, TypeOK
  <2>2. QED
    BY <1>1, <2>1 DEF CalmInv, FileDrawn
<1>4. SignedDrawn(signed', drawn')
  BY <1>1 DEF CalmInv, SignedDrawn
<1>5. QED
  BY <1>2, <1>3, <1>4 DEF CalmInv

LEMMA CalmNext ==
  ASSUME CalmInv, [Next]_vars
  PROVE  CalmInv'
<1>0. AttestInv'
  BY NextInv DEF CalmInv
<1>1. ASSUME NEW p \in Procs, Advance(p) PROVE CalmInv'
  BY <1>0, <1>1, KeygenOpenCalm, KeygenWriteCalm, SignReadCalm, SignOpenCalm, SignWriteCalm,
     VerifyCalm, EndCalm DEF Advance
<1>2. CASE UNCHANGED vars
  BY <1>0, <1>2 DEF vars, CalmInv, FileDrawn, SignedDrawn, RunDrawn
<1>3. QED
  BY <1>0, <1>1, <1>2, EnvironmentCalm, BeginCalm, EndCalm DEF Next

\* A pass beside a provenance file means that every wasm the record seals is
\* attested (sign.rs:219-238), for any records, keys and shells.
THEOREM PassIsCovered == Spec => []PassCoversRecord
<1>1. ASSUME CalmInv, NEW p \in Procs,
             proc[p].pc = "verdict" /\ proc[p].ok /\ proc[p].calm /\ prov # Absent
      PROVE  \E s \in Statements :
               /\ <<proc[p].key, s>> \in signed
               /\ \A a \in Artifacts : prov.art[a] # Unsealed => prov.art[a] = s.art[a]
  <2>1. proc[p].env \in Envelopes /\ <<proc[p].key, proc[p].env.payload>> \in signed
    BY <1>1 DEF CalmInv, AttestInv, RunOK
  <2>2. proc[p].env.payload \in Statements
    BY <2>1 DEF Envelopes
  <2>3. SubjectsMatch(proc[p].env.payload, prov)
    BY <1>1 DEF CalmInv, Agrees, VerdictAgrees
  <2>4. QED
    BY <2>1, <2>2, <2>3 DEF SubjectsMatch
<1>2. CalmInv => PassCoversRecord
  BY <1>1 DEF PassCoversRecord
<1>3. QED
  BY <1>2, CalmInit, CalmNext, PTL DEF Spec

\* keygen, sign and verify-attestation round-trip (PRD criterion 6), for any
\* record: an intact attestation of the present record does not fail.
THEOREM AttestRoundTrips == Spec => []RoundTrips
<1>1. ASSUME CalmInv, NEW p \in Procs,
             proc[p].pc = "verdict" /\ proc[p].calm /\ prov \in Records,
             att = Signed(proc[p].key, Statement(prov))
      PROVE  proc[p].ok
  <2>1. proc[p].env = att /\ (SubjectsMatch(proc[p].env.payload, prov) => proc[p].ok)
    BY <1>1 DEF CalmInv, Agrees, VerdictAgrees
  <2>2. proc[p].env.payload.art = prov.art
    BY <1>1, <2>1 DEF Signed, Statement
  <2>3. SubjectsMatch(proc[p].env.payload, prov)
    BY <2>2 DEF SubjectsMatch
  <2>4. QED
    BY <2>1, <2>3
<1>2. CalmInv => RoundTrips
  BY <1>1 DEF RoundTrips
<1>3. QED
  BY <1>2, CalmInit, CalmNext, PTL DEF Spec

\* An undisturbed keygen ends with both halves of one key in its two files, a
\* key nobody has signed with (main.rs:385-394), for any names, keys and shells.
THEOREM KeygenWritesPairs == Spec => KeygenPairs
<1> DEFINE Pairs == \A p \in Procs :
       LET r == proc[p] IN
       r.pc = "public2" /\ KeygenWrite(p) /\ r.calm /\ r.seedName # r.pubName =>
         /\ file'[r.seedName] = [kind |-> "seed", key |-> r.key]
         /\ file'[r.pubName] = [kind |-> "public", key |-> r.key]
         /\ \A s \in Statements : <<r.key, s>> \notin signed
<1>1. CalmInv => Pairs
  <2> SUFFICES ASSUME CalmInv, NEW p \in Procs, KeygenWrite(p), proc[p].pc = "public2",
                      proc[p].calm, proc[p].seedName # proc[p].pubName
               PROVE  /\ file'[proc[p].seedName] = [kind |-> "seed", key |-> proc[p].key]
                      /\ file'[proc[p].pubName] = [kind |-> "public", key |-> proc[p].key]
                      /\ \A s \in Statements : <<proc[p].key, s>> \notin signed
    OBVIOUS
  <2> DEFINE r == proc[p]
  <2>1. r \in Runs /\ KeygenAgrees(r, file, signed)
          /\ file \in [Names -> KeyFiles \cup {Absent, Torn}]
    BY DEF CalmInv, AttestInv, TypeOK, Agrees
  <2>2. PICK v \in Outcome(file[Target(r)], Half(r)) : file' = [file EXCEPT ![Target(r)] = v]
    BY DEF KeygenWrite
  <2>3. Target(r) = r.pubName /\ Half(r) = [kind |-> "public", key |-> r.key]
    BY DEF Target, Half
  <2>4. v = Half(r)
    BY <2>1, <2>2, <2>3 DEF KeygenAgrees, Outcome
  <2>5. r.seedName \in Names /\ r.pubName \in Names
    BY <2>1 DEF Runs
  <2>6. QED
    BY <2>1, <2>2, <2>3, <2>4, <2>5 DEF KeygenAgrees
<1>2. Spec => [][Pairs]_vars
  BY <1>1, CalmInit, CalmNext, PTL DEF Spec
<1>3. QED
  BY <1>2 DEF KeygenPairs
=============================================================================
