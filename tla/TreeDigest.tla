----------------------------- MODULE TreeDigest -----------------------------
(***************************************************************************)
(* tree_sha256 of src/src/digest.rs: the walk over a source tree and the   *)
(* bytes it hashes, while an editor and other sorseal commands write into  *)
(* the tree.  SHA-256 is its input: two digests are equal when the hashed  *)
(* bytes are.  A byte string is a sequence of tokens: a path as it is      *)
(* written, a newline, or a piece of text without either.                  *)
(***************************************************************************)
EXTENDS Integers, FiniteSets, SequencesExt

CONSTANTS
  Order,                 \* the paths there may be, in the order of their text
  SkipDirs, SkipFiles,   \* names; SkipFiles are those that end in .sarif too
  OwnFiles,              \* names of the files that sorseal writes
  Contents,              \* of a file
  Link,                  \* neither a file nor a directory
  NoFile,
  NewLine,
  InitTrees,             \* the trees a walk may find
  MaxEdits, MaxOutputs   \* bounds: changes of sources and of other files

Paths == ToSet(Order)  \* sequences of names; the last is the file's
FileTrees == [Paths -> Contents \cup {Link, NoFile}]

ASSUME TreesAssumption ==
  /\ Order \in Seq(Seq(STRING)) /\ IsInjective(Order)
  /\ <<>> \notin Paths
  /\ \A p, q \in Paths : IsPrefix(p, q) => p = q
  /\ \A c \in Contents : c \in Seq(ToSet(c))
  /\ {Link, NoFile} \cap Contents = {} /\ Link # NoFile
  /\ InitTrees \subseteq FileTrees
  /\ MaxEdits \in Nat /\ MaxOutputs \in Nat

VARIABLES
  disk,
  phase,
  opened,    \* collect: per open directory the entries still to come
  files,    \* the relative paths found
  hashed,   \* what went into the hasher: path and bytes of each file
  edited,   \* history: the sources changed since the walk began
  edits, outputs

digestVars == <<disk, phase, opened, files, hashed, edited, edits, outputs>>
walk == <<phase, opened, files, hashed>>

SkippedName(name) == name \in SkipDirs \cup SkipFiles
Name(p) == p[Len(p)]

DigestTypeOK ==
  /\ disk \in FileTrees
  /\ phase \in {"collect", "hash", "done", "failed"}
  /\ \A k \in DOMAIN opened : \A p \in opened[k] : \E q \in Paths : IsPrefix(p, q)
  /\ files \in Seq(Paths)
  /\ hashed \in Seq(Paths \X Contents)
  /\ edited \subseteq Paths
  /\ edits \in 0 .. MaxEdits /\ outputs \in 0 .. MaxOutputs

\* The entries of directory d.
ReadDir(d) ==
  {SubSeq(p, 1, Len(d) + 1) : p \in {q \in Paths : disk[q] # NoFile /\ IsPrefix(d, q)}}

DigestInit ==
  /\ disk \in InitTrees
  /\ phase = "collect" /\ opened = <<ReadDir(<<>>)>>
  /\ files = <<>> /\ hashed = <<>>
  /\ edited = {} /\ edits = 0 /\ outputs = 0

\* Definitions whose names end in Fault are the definition after them with a
\* plausible bug in it; the model never uses them.
-----------------------------------------------------------------------------
(***************************************************************************)
(* collect                                                                 *)
(***************************************************************************)
Open == opened[Len(opened)]
Shut(e) == [opened EXCEPT ![Len(opened)] = @ \ {e}]

Passed(e) == SkippedName(Name(e))

\* One entry, in whatever order the directory yields them.  What it is was read
\* with its name; a file may be gone by now, which collect does not notice.
Skip(e) ==
  /\ Passed(e)
  /\ opened' = Shut(e)
  /\ UNCHANGED <<phase, files, hashed>>

Push(e) ==
  /\ ~Passed(e) /\ e \in Paths
  /\ opened' = Shut(e)
  /\ files' = IF disk[e] = Link THEN files ELSE Append(files, e)
  /\ UNCHANGED <<phase, hashed>>

\* A directory that an editor has emptied may itself be gone.
Descend(e) ==
  /\ ~Passed(e) /\ e \notin Paths
  /\ \/ /\ opened' = Append(Shut(e), ReadDir(e))
        /\ UNCHANGED <<phase, files, hashed>>
     \/ /\ ReadDir(e) = {}
        /\ phase' = "failed" /\ UNCHANGED <<opened, files, hashed>>

CollectEntry ==
  /\ phase = "collect" /\ opened # <<>>
  /\ \E e \in Open : Skip(e) \/ Push(e) \/ Descend(e)
  /\ UNCHANGED <<disk, edited, edits, outputs>>

Return ==
  /\ phase = "collect" /\ opened # <<>> /\ Open = {}
  /\ opened' = Front(opened)
  /\ UNCHANGED <<disk, phase, files, hashed, edited, edits, outputs>>
-----------------------------------------------------------------------------
(***************************************************************************)
(* tree_sha256                                                             *)
(***************************************************************************)
\* The paths of set S in order.
Place(I, k) == CHOOSE n \in I : Cardinality({m \in I : m <= n}) = k
PathsIn(S) ==
  LET I == {n \in 1..Len(Order) : Order[n] \in S}
  IN  [k \in 1..Cardinality(I) |-> Order[Place(I, k)]]

\* No path is in files twice (FilesOnce), so that sorting them is this.
InPathOrderFault(s) == s
InPathOrder(s) == PathsIn(ToSet(s))

Sort ==
  /\ phase = "collect" /\ opened = <<>>
  /\ files' = InPathOrder(files)
  /\ phase' = "hash"
  /\ UNCHANGED <<disk, opened, hashed, edited, edits, outputs>>

\* The next file is opened and read whole.
Hash ==
  /\ phase = "hash" /\ Len(hashed) < Len(files)
  /\ LET p == files[Len(hashed) + 1] IN
       IF disk[p] \in Contents
         THEN hashed' = Append(hashed, <<p, disk[p]>>) /\ UNCHANGED phase
         ELSE phase' = "failed" /\ UNCHANGED hashed
  /\ UNCHANGED <<disk, opened, files, edited, edits, outputs>>

HashDone ==
  /\ phase = "hash" /\ Len(hashed) = Len(files)
  /\ phase' = "done"
  /\ UNCHANGED <<disk, opened, files, hashed, edited, edits, outputs>>

\* What the hasher was fed.
HashedBytesFault(blocks) == FlattenSeq([k \in DOMAIN blocks |-> blocks[k][2]])
HashedBytes(blocks) ==
  FlattenSeq([k \in DOMAIN blocks |->
                <<blocks[k][1], NewLine>> \o blocks[k][2] \o <<NewLine>>])
-----------------------------------------------------------------------------
(***************************************************************************)
(* The others                                                              *)
(***************************************************************************)
\* What the digest is to cover: no part of the path is skipped.
Covered == {p \in Paths : \A k \in DOMAIN p : ~SkippedName(p[k])}

Running == phase \notin {"done", "failed"}

\* An editor writes or removes a source while the walk goes on.
Edit ==
  /\ Running
  /\ edits < MaxEdits /\ edits' = edits + 1
  /\ \E p \in {q \in Covered : Name(q) \notin OwnFiles}, c \in Contents \cup {NoFile} :
       /\ disk[p] \notin {c, Link}
       /\ disk' = [disk EXCEPT ![p] = c]
       /\ edited' = edited \cup {p}
  /\ UNCHANGED <<walk, outputs>>

\* sorseal, or a build, writes one of its own files.
WriteOutput ==
  /\ Running
  /\ outputs < MaxOutputs /\ outputs' = outputs + 1
  /\ \E p \in {q \in Paths : q \notin Covered \/ Name(q) \in OwnFiles}, c \in Contents :
       /\ disk' = [disk EXCEPT ![p] = c]
       /\ edited' = edited \cup ({p} \cap Covered)
  /\ UNCHANGED <<walk, edits>>

DigestNext ==
  \/ CollectEntry \/ Return \/ Sort \/ Hash \/ HashDone
  \/ Edit \/ WriteOutput

DigestSpec == DigestInit /\ [][DigestNext]_digestVars
-----------------------------------------------------------------------------
(***************************************************************************)
(* Properties                                                              *)
(***************************************************************************)
\* The sources of t that are files, in order, as the digest is to see them.
Blocks(t) ==
  LET present == PathsIn({p \in Covered : t[p] \in Contents})
  IN  [k \in DOMAIN present |-> <<present[k], t[present[k]]>>]

Digest == HashedBytes(hashed)

\* An undisturbed walk fails on no tree and digests its sources, in whatever
\* order directories list them and whatever sorseal or a build writes into the
\* tree meanwhile: record, verify and another machine agree.
DigestOfSources ==
  /\ phase = "failed" => edited # {}
  /\ phase = "done" /\ edited = {} => Digest = HashedBytes(Blocks(disk))

\* Whatever is edited meanwhile, a walk that ends has read every other source,
\* once, and nothing but sources.
UntouchedRead ==
  phase = "done" =>
    /\ \A k \in DOMAIN hashed : hashed[k][1] \in Covered
    /\ \A p \in Covered \ edited : disk[p] \in Contents =>
         Cardinality({k \in DOMAIN hashed : hashed[k] = <<p, disk[p]>>}) = 1

\* A change of one source, its appearance or its removal changes the digest.
OneChangeSeen ==
  phase = "done" /\ edited = {} =>
    \A p \in Covered, c \in Contents \cup {NoFile} :
      disk[p] \notin {c, Link} => Digest # HashedBytes(Blocks([disk EXCEPT ![p] = c]))

\* No file is found twice, whatever appears or goes while the walk is on.
FilesOnce == IsInjective(files)

\* An undisturbed walk is right as a whole, a disturbed one in all that was left
\* alone.
DigestCorrect == DigestTypeOK /\ DigestOfSources /\ UntouchedRead /\ FilesOnce

\* digest.rs:36: "a seal must never depend on its own outputs".
OwnOutputsIgnored ==
  phase = "done" => \A k \in DOMAIN hashed : Name(hashed[k][1]) \notin OwnFiles

\* digest.rs:49: the digest is "keyed on relative path + file bytes": other
\* sources, another digest.
OtherTreeOtherDigest ==
  phase = "done" /\ edited = {} =>
    \A t \in FileTrees : Blocks(t) # Blocks(disk) => HashedBytes(Blocks(t)) # Digest
=============================================================================
