------------------------------- MODULE Attest --------------------------------
(***************************************************************************)
(* `sorseal keygen`, `sorseal sign` and `sorseal verify-attestation`       *)
(* (src/src/sign.rs and the dispatch in src/src/main.rs): key files, the   *)
(* signed attestation and the provenance file they are checked against,    *)
(* all of which other shells may rewrite in between.                       *)
(*                                                                         *)
(* A signature is the pair of key and statement it was made with: it       *)
(* verifies for nothing else.  Every write is a truncation and a write.    *)
(***************************************************************************)
EXTENDS Naturals

CONSTANTS
  Names,      \* file names for keys
  Keys,       \* key pairs keygen may draw
  Artifacts,  \* artifacts of a provenance record, by the path of their wasm
  Wasms,      \* wasm binaries
  Unsealed,   \* no entry for the artifact
  Details,    \* what else of a record the statement carries: sources, commands
  Extras,     \* what of a record the statement leaves out: analysis, sizes
  Absent,     \* no such file
  Torn,       \* a file that does not parse
  NoKey,      \* no key in hand
  Procs,      \* shells
  MaxEdits,   \* bound on steps of the environment
  MaxStarts   \* bound on commands started

Records == [art : [Artifacts -> Wasms \cup {Unsealed}], detail : Details, extra : Extras]
Statements == [art : [Artifacts -> Wasms \cup {Unsealed}], detail : Details]

\* A DSSE envelope: its payload, and what its signature was made with and over.
Envelopes == [payload : Statements, by : Keys, over : Statements]

\* A private key file holds a seed, a public key file the hex of its public half.
KeyFiles == [kind : {"seed", "public"}, key : Keys]

ASSUME ConstantsAssumption ==
  /\ Names # {}
  /\ Unsealed \notin Wasms /\ NoKey \notin Keys
  /\ \A s \in {Absent, Torn} : s \notin Records /\ s \notin Envelopes /\ s \notin KeyFiles
  /\ Absent # Torn
  /\ MaxEdits \in Nat /\ MaxStarts \in Nat

\* Definitions whose names end in Fault are the definition after them with a
\* plausible bug in it; the model never uses them.

VARIABLES
  file,    \* the key files
  att,     \* sorseal.attestation.json
  prov,    \* sorseal.provenance.json
  drawn,   \* the keys keygen has drawn (history)
  signed,  \* every pair of key and statement a sign run has signed (history)
  proc,    \* the shells
  edits,   \* steps of the environment so far
  starts   \* commands started so far

vars == <<file, att, prov, drawn, signed, proc, edits, starts>>
disk == <<file, att, prov>>

Steps == {"idle", "seed", "seed2", "public", "public2", "key", "record", "att", "att2",
          "envelope", "subjects", "verdict"}
Exits == {"none", "pass", "fail", "error", "killed"}

\* A command: the names it was given, the key it holds, the record it has
\* loaded, the envelope it has verified, and its verdict.  `calm` records that
\* nothing else has changed a file since it started; no step depends on it.
Runs == [pc : Steps, seedName : Names, pubName : Names, key : Keys \cup {NoKey},
         record : Records \cup {Absent}, env : Envelopes \cup {Absent},
         ok : BOOLEAN, exit : Exits, calm : BOOLEAN]

TypeOK ==
  /\ file \in [Names -> KeyFiles \cup {Absent, Torn}]
  /\ att \in Envelopes \cup {Absent, Torn}
  /\ prov \in Records \cup {Absent, Torn}
  /\ drawn \subseteq Keys /\ signed \subseteq Keys \X Statements
  /\ proc \in [Procs -> Runs]
  /\ edits \in 0..MaxEdits /\ starts \in 0..MaxStarts
-----------------------------------------------------------------------------
NoRun(x) ==
  [pc |-> "idle", seedName |-> CHOOSE n \in Names : TRUE, pubName |-> CHOOSE n \in Names : TRUE,
   key |-> NoKey, record |-> Absent, env |-> Absent, ok |-> TRUE, exit |-> x, calm |-> FALSE]

\* A step of p that leaves the files alone, and one that writes them.
Local(p, r) == proc' = [proc EXCEPT ![p] = r]
Write(p, r) ==
  proc' = [q \in Procs |-> IF q = p THEN r ELSE [proc[q] EXCEPT !.calm = FALSE]]
Exit(p, x) == Local(p, NoRun(x))

\* Any record there may be when the commands are first used, and no keys.
Init ==
  /\ file = [n \in Names |-> Absent] /\ att = Absent
  /\ prov \in Records
  /\ drawn = {} /\ signed = {}
  /\ proc = [p \in Procs |-> NoRun("none")]
  /\ edits = 0 /\ starts = 0

Start(p, r) ==
  /\ proc[p].pc = "idle" /\ starts < MaxStarts
  /\ starts' = starts + 1
  /\ Local(p, [r EXCEPT !.calm = TRUE])
  /\ UNCHANGED <<disk, drawn, signed, edits>>

\* keygen may be given the same name for both files: with `--key x.pub` the
\* default public name is x.pub too.
KeygenStart(p) ==
  \E s \in Names, n \in Names :
    Start(p, [NoRun("none") EXCEPT !.pc = "seed", !.seedName = s, !.pubName = n])
SignStart(p) ==
  \E s \in Names : Start(p, [NoRun("none") EXCEPT !.pc = "key", !.seedName = s])
VerifyStart(p) ==
  \E n \in Names : Start(p, [NoRun("none") EXCEPT !.pc = "envelope", !.pubName = n])

\* The names a keygen step writes to, and what it writes.
Target(r) == IF r.pc \in {"seed", "seed2"} THEN r.seedName ELSE r.pubName
HalfFault(r) == [kind |-> "seed", key |-> r.key]
Half(r) == [kind |-> IF r.pc \in {"seed", "seed2"} THEN "seed" ELSE "public", key |-> r.key]

\* keygen draws a key and truncates the private key file, or truncates the
\* public one.
KeygenOpen(p) ==
  LET r == proc[p] IN
  /\ \/ /\ r.pc = "seed"
        /\ \E k \in Keys \ drawn : /\ drawn' = drawn \cup {k}
                                   /\ Write(p, [r EXCEPT !.pc = "seed2", !.key = k])
     \/ /\ r.pc = "public" /\ UNCHANGED drawn
        /\ Write(p, [r EXCEPT !.pc = "public2"])
  /\ file' = [file EXCEPT ![Target(r)] = Torn]
  /\ UNCHANGED <<att, prov, signed, edits, starts>>

\* What a write after a truncation may leave: if another write landed between,
\* possibly a mixture of the two.
Outcome(now, v) == {v} \cup IF now = Torn THEN {} ELSE {Torn}

\* keygen writes one half; after the public one it is done.
KeygenWrite(p) ==
  LET r == proc[p] IN
  /\ r.pc \in {"seed2", "public2"}
  /\ \E v \in Outcome(file[Target(r)], Half(r)) : file' = [file EXCEPT ![Target(r)] = v]
  /\ Write(p, IF r.pc = "seed2" THEN [r EXCEPT !.pc = "public"] ELSE NoRun("pass"))
  /\ UNCHANGED <<att, prov, drawn, signed, edits, starts>>

\* sign: a private key file is exactly 32 bytes.
SignKey(p) ==
  LET r == proc[p]
      f == file[r.seedName]
  IN
  /\ r.pc = "key"
  /\ IF f \in KeyFiles /\ f.kind = "seed"
     THEN Local(p, [r EXCEPT !.pc = "record", !.key = f.key])
     ELSE Exit(p, "error")
  /\ UNCHANGED <<disk, drawn, signed, edits, starts>>

SignRecord(p) ==
  /\ proc[p].pc = "record"
  /\ IF prov \in {Absent, Torn}
     THEN Exit(p, "error")
     ELSE Local(p, [proc[p] EXCEPT !.pc = "att", !.record = prov])
  /\ UNCHANGED <<disk, drawn, signed, edits, starts>>

\* build_slsa_statement: the digests of the wasms and the details of the build.
StatementFault(rec) == [art |-> [a \in Artifacts |-> Unsealed], detail |-> rec.detail]
Statement(rec) == [art |-> rec.art, detail |-> rec.detail]

\* sign_dsse
SignedFault(k, s) == [payload |-> s, by |-> k]
Signed(k, s) == [payload |-> s, by |-> k, over |-> s]

\* attest: the statement is signed, the attestation truncated and written.
SignOpen(p) ==
  LET r == proc[p] IN
  /\ r.pc = "att"
  /\ att' = Torn /\ signed' = signed \cup {<<r.key, Statement(r.record)>>}
  /\ Write(p, [r EXCEPT !.pc = "att2"])
  /\ UNCHANGED <<file, prov, drawn, edits, starts>>

SignWrite(p) ==
  LET r == proc[p] IN
  /\ r.pc = "att2"
  /\ \E v \in Outcome(att, Signed(r.key, Statement(r.record))) : att' = v
  /\ Write(p, NoRun("pass"))
  /\ UNCHANGED <<file, prov, drawn, signed, edits, starts>>

\* verify_dsse: the signature is checked over the payload as it stands.
SkippedFault(k, env) == env.over = env.payload
Verifies(k, env) == env.by = k /\ env.over = env.payload

\* verify-attestation reads the public key, then the attestation; a signature
\* that does not verify is an error.
VerifyEnvelope(p) ==
  LET r == proc[p]
      f == file[r.pubName]
  IN
  /\ r.pc = "envelope"
  /\ \/ /\ r.key = NoKey /\ f \in KeyFiles /\ f.kind = "public"
        /\ Local(p, [r EXCEPT !.key = f.key])
     \/ /\ r.key = NoKey /\ ~(f \in KeyFiles /\ f.kind = "public")
        /\ Exit(p, "error")
     \/ /\ r.key # NoKey /\ att \in Envelopes /\ Verifies(r.key, att)
        /\ Local(p, [r EXCEPT !.pc = "subjects", !.env = att])
     \/ /\ r.key # NoKey /\ ~(att \in Envelopes /\ Verifies(r.key, att))
        /\ Exit(p, "error")
  /\ UNCHANGED <<disk, drawn, signed, edits, starts>>

\* subjects_match: every artifact of the record is among the subjects with its
\* digest; subjects the record does not have are not looked at.
SubjectsMatchFault(s, rec) ==
  \A a \in Artifacts : Unsealed \in {rec.art[a], s.art[a]} \/ rec.art[a] = s.art[a]
SubjectsMatch(s, rec) == \A a \in Artifacts : rec.art[a] \in {Unsealed, s.art[a]}

\* The provenance file, if there is one, against the verified statement.
VerifySubjects(p) ==
  LET r == proc[p] IN
  /\ r.pc = "subjects"
  /\ IF prov = Torn
     THEN Exit(p, "error")
     ELSE Local(p, [r EXCEPT !.pc = "verdict", !.record = prov,
                             !.ok = prov = Absent \/ SubjectsMatch(r.env.payload, prov)])
  /\ UNCHANGED <<disk, drawn, signed, edits, starts>>

Verdict(p) ==
  /\ proc[p].pc = "verdict"
  /\ Exit(p, IF proc[p].ok THEN "pass" ELSE "fail")
  /\ UNCHANGED <<disk, drawn, signed, edits, starts>>

Crash(p) ==
  /\ proc[p].pc # "idle"
  /\ Exit(p, "killed")
  /\ UNCHANGED <<disk, drawn, signed, edits, starts>>
-----------------------------------------------------------------------------
(***************************************************************************)
(* The environment: records are sealed anew or altered, attestations and   *)
(* key files altered, copied and removed.                                  *)
(***************************************************************************)
Edit ==
  /\ edits < MaxEdits
  /\ edits' = edits + 1
  /\ proc' = [q \in Procs |-> [proc[q] EXCEPT !.calm = FALSE]]
  /\ UNCHANGED <<drawn, signed, starts>>

EditRecord ==
  /\ Edit
  /\ \E v \in Records \cup {Absent, Torn} : v # prov /\ prov' = v
  /\ UNCHANGED <<file, att>>

\* The payload of an attestation is exchanged under its signature.
EditAttestation ==
  /\ Edit
  /\ \E v \in {Absent, Torn} \cup
              IF att \in Envelopes THEN {[att EXCEPT !.payload = s] : s \in Statements} ELSE {} :
       v # att /\ att' = v
  /\ UNCHANGED <<file, prov>>

CopyKey ==
  /\ Edit
  /\ \E n \in Names, m \in Names : file[n] # file[m] /\ file' = [file EXCEPT ![n] = file[m]]
  /\ UNCHANGED <<att, prov>>

Begin(p) == KeygenStart(p) \/ SignStart(p) \/ VerifyStart(p)

Advance(p) ==
  \/ KeygenOpen(p) \/ KeygenWrite(p)
  \/ SignKey(p) \/ SignRecord(p) \/ SignOpen(p) \/ SignWrite(p)
  \/ VerifyEnvelope(p) \/ VerifySubjects(p) \/ Verdict(p)

Next ==
  \/ EditRecord \/ EditAttestation \/ CopyKey
  \/ \E p \in Procs : Begin(p) \/ Advance(p) \/ Crash(p)

Spec == Init /\ [][Next]_vars
-----------------------------------------------------------------------------
(***************************************************************************)
(* Properties                                                              *)
(***************************************************************************)

\* "releases can be authenticated by public key alone" (PRD.md:41-43): whatever
\* is altered, killed or run beside it, verify-attestation passes only a
\* statement that a sign run made of a record it had loaded, with the private
\* half of the key it was given.
PassMeansSigned ==
  \A p \in Procs :
    proc[p].pc = "verdict" /\ proc[p].ok => <<proc[p].key, proc[p].env.payload>> \in signed

\* A pass with a provenance file means that every wasm the record seals is
\* attested (sign.rs:219-238): undisturbed, the wasms on disk are those of a
\* statement that was signed.
PassCoversRecord ==
  \A p \in Procs :
    proc[p].pc = "verdict" /\ proc[p].ok /\ proc[p].calm /\ prov # Absent =>
      \E s \in Statements :
        /\ <<proc[p].key, s>> \in signed
        /\ \A a \in Artifacts : prov.art[a] # Unsealed => prov.art[a] = s.art[a]

\* `keygen`, `sign`, `verify-attestation` round-trips (PRD criterion 6): an
\* undisturbed verification with the public half of the key an intact
\* attestation of the present record was signed with does not fail.
RoundTrips ==
  \A p \in Procs :
    LET r == proc[p] IN
    r.pc = "verdict" /\ r.calm /\ prov \in Records
      /\ att = Signed(r.key, Statement(prov)) => r.ok

\* An undisturbed keygen that was given two names leaves the two halves of one
\* key when it ends (main.rs:385-394), one nobody had before.
KeygenPairs ==
  [][\A p \in Procs :
       LET r == proc[p] IN
       r.pc = "public2" /\ KeygenWrite(p) /\ r.calm /\ r.seedName # r.pubName =>
         /\ file'[r.seedName] = [kind |-> "seed", key |-> r.key]
         /\ file'[r.pubName] = [kind |-> "public", key |-> r.key]
         /\ \A s \in Statements : <<r.key, s>> \notin signed]_vars
-----------------------------------------------------------------------------
(***************************************************************************)
(* Statements of the documentation the code does not keep                  *)
(***************************************************************************)

\* "a tampered attestation or provenance fails verification" (PRD.md:121-122):
\* a record that is not the one the statement was made of does not pass.
TamperedRecordFails ==
  \A p \in Procs :
    LET r == proc[p] IN
    r.pc = "verdict" /\ r.calm /\ r.ok /\ prov # Absent =>
      Statement(prov) = r.env.payload

\* "Generate an Ed25519 keypair for signing attestations" (main.rs:71): what an
\* undisturbed keygen was told to write the private key to can be signed with.
KeygenKeepsKey ==
  [][\A p \in Procs :
       LET r == proc[p] IN
       r.pc = "public2" /\ KeygenWrite(p) /\ r.calm =>
         file'[r.seedName] = [kind |-> "seed", key |-> r.key]]_vars
=============================================================================
