------------------------------ MODULE Scaffold ------------------------------
(***************************************************************************)
(* `sorseal init`: the contracts that src/src/scaffold.rs discovers in a   *)
(* Cargo project and the manifest it writes of them, which every later     *)
(* command loads through src/src/manifest.rs.                              *)
(*                                                                         *)
(* A directory is the sequence of names that leads to it from the root of  *)
(* the project; a name is a sequence of letters.  The parser's split is    *)
(* taken as done: a pattern of names is the sequence of the literal parts  *)
(* between its stars (a literal name has one part) and a workspace member  *)
(* is a sequence of such patterns.                                         *)
(***************************************************************************)
EXTENDS SequencesExt

CONSTANTS
  Names,      \* names of directories, in the order the file system lists them
  Depth,      \* bound on the length of a path
  Kinds,      \* what a Cargo.toml says: "none" (no package, no such file, or one
              \* that does not parse), "rlib" (a library), "cdylib" (a contract)
  Workspaces, \* [workspace] tables: sequences of members
  NoTable,    \* no [workspace] table: the project is one package
  Absent,     \* no sorseal.toml
  HandWritten, \* a sorseal.toml somebody wrote
  Placeholder \* the artifact-id of a manifest without contracts; a package may be
              \* called so too

ASSUME ScaffoldAssumption ==
  /\ Names \in Seq(Seq(Nat)) /\ IsInjective(Names)
  /\ Depth \in Nat
  /\ "none" \in Kinds /\ Kinds \subseteq {"none", "rlib", "cdylib"}
  /\ Workspaces \subseteq Seq(Seq(Seq(Seq(Nat)) \ {<<>>}))

Top == <<>>
Dirs == BoundedSeq(ToSet(Names), Depth)
DirTrees == {t \in SUBSET Dirs : Top \in t /\ \A d \in t \ {Top} : Front(d) \in t}

\* Contents of sorseal.toml.  A package is named after its directory, which
\* keeps names unique as Cargo demands.
Manifests ==
  [named : BOOLEAN,
   artifacts : Seq([id : Dirs \cup {Placeholder}, relative : BOOLEAN]) \ {<<>>}]

VARIABLES
  dirs,     \* the directories
  pkg,      \* the Cargo.toml of each
  members,  \* workspace.members of the root's
  toml,     \* sorseal.toml
  told      \* what the last command reported

scaffoldVars == <<dirs, pkg, members, toml, told>>
project == <<dirs, pkg, members>>

ScaffoldTypeOK ==
  /\ dirs \in DirTrees
  /\ pkg \in [dirs -> Kinds]
  /\ members \in Workspaces \cup {NoTable}
  /\ toml \in Manifests \cup {Absent, HandWritten}
  /\ told \in {"nothing", "exists", "written", "placeholder", "loads", "error"}

ScaffoldInit ==
  /\ dirs \in DirTrees
  /\ pkg \in [dirs -> Kinds]
  /\ members \in Workspaces \cup {NoTable}
  /\ members = NoTable => \A d \in dirs \ {Top} : pkg[d] = "none"
  /\ toml \in {Absent, HandWritten}
  /\ told = "nothing"
-----------------------------------------------------------------------------
(***************************************************************************)
(* Discovery.  Definitions whose names end in Fault are the definition     *)
(* after them with a plausible bug in it; the model never uses them.       *)
(***************************************************************************)

\* The rest of s after the first occurrence of part, {} when there is none.
AfterFirst(s, part) ==
  LET at == {i \in 1..Len(s) - Len(part) + 1 : SubSeq(s, i, i + Len(part) - 1) = part}
  IN  IF at = {} THEN {} ELSE {SubSeq(s, Min(at) + Len(part), Len(s))}

\* What is left of s after each part but the first and the last was found, from
\* left to right.
AfterParts(parts, s) ==
  LET left[i \in 1..Len(parts) - 1] ==
        IF i = 1 THEN {s} ELSE UNION {AfterFirst(t, parts[i]) : t \in left[i - 1]}
  IN  left[Len(parts) - 1]

\* The first part is stripped, then the last, then the others are found in what
\* remains.
SegmentMatchesFault(parts, name) ==
  /\ IsPrefix(Head(parts), name) /\ IsSuffix(Last(parts), name)
  /\ Len(parts) > 1 => AfterParts(parts, name) # {}
SegmentMatches(parts, name) ==
  IF Len(parts) = 1
  THEN parts[1] = name
  ELSE LET rest == SubSeq(name, Len(Head(parts)) + 1, Len(name))
           mid  == SubSeq(rest, 1, Len(rest) - Len(Last(parts)))
       IN  /\ IsPrefix(Head(parts), name) /\ IsSuffix(Last(parts), rest)
           /\ AfterParts(parts, mid) # {}

Globbed(segment) == Len(segment) > 1
DoubleStar == << <<>>, <<>>, <<>> >>

\* The members of S in the sequence s.
Picked(s, S) == FlattenSeq([i \in 1..Len(s) |-> IF s[i] \in S THEN <<s[i]>> ELSE <<>>])

\* The directories in dir, in the order they are listed.
Subdirs(dir) == Picked([i \in 1..Len(Names) |-> Append(dir, Names[i])], dirs)

\* What f gives for each directory of ds, one after the other.
Each(ds, f) == FlattenSeq([i \in 1..Len(ds) |-> f[ds[i]]])

\* One call, from dir, with k segments behind it; deeper is what the calls it makes
\* find.  `**` stands for any number of names; a literal name is followed whether
\* or not it exists.
WalkCall(segs, deeper, k, dir) ==
  IF k = Len(segs)
  THEN <<dir>>
  ELSE IF segs[k + 1] = DoubleStar
  THEN deeper[k + 1][dir] \o Each(Subdirs(dir), deeper[k])
  ELSE IF Globbed(segs[k + 1])
  THEN Each(Picked(Subdirs(dir), {d \in dirs \ {Top} : SegmentMatches(segs[k + 1], Last(d))}),
            deeper[k + 1])
  ELSE deeper[k + 1][Append(dir, segs[k + 1][1])]

\* The calls: each goes a segment on or, to a directory there is, a level down,
\* so that no more than n are nested.
WalkPattern(segs) ==
  LET walk[n \in 0..Len(segs) + Depth] ==
        [k \in 0..Len(segs) |-> [dir \in Seq(Seq(Nat)) |->
           IF n = 0 THEN <<dir>> ELSE WalkCall(segs, walk[n - 1], k, dir)]]
  IN  walk[Len(segs) + Depth][0][Top]

ExpandMembers == FlattenSeq([i \in 1..Len(members) |-> WalkPattern(members[i])])

\* The packages: a root package is an implicit member of its workspace, and a
\* member without a package is passed over.
DiscoverPackages ==
  Picked(<<Top>> \o (IF members = NoTable THEN <<>> ELSE ExpandMembers),
         {d \in dirs : pkg[d] # "none"})
-----------------------------------------------------------------------------
(***************************************************************************)
(* The manifest                                                            *)
(***************************************************************************)

\* One entry per contract; only the root's source_root is written relative.
ScaffoldManifest(named) ==
  LET found == Picked(DiscoverPackages, {d \in dirs : pkg[d] = "cdylib"})
      entry == [i \in 1..Len(found) |-> [id |-> found[i], relative |-> found[i] = Top]]
  IN  [named |-> named,
       artifacts |-> IF found = <<>> THEN <<[id |-> Placeholder, relative |-> TRUE]>> ELSE entry]

IsPlaceholder(manifest) == \E a \in ToSet(manifest.artifacts) : a.id = Placeholder

ValidateFault(manifest) == manifest.named /\ \A a \in ToSet(manifest.artifacts) : a.relative
Validate(manifest) ==
  /\ manifest.named
  /\ manifest.artifacts # <<>>
  /\ \A i, j \in 1..Len(manifest.artifacts) :
       manifest.artifacts[i].id = manifest.artifacts[j].id => i = j
  /\ \A a \in ToSet(manifest.artifacts) : a.relative

\* `init`, with or without --force; a blank --project is taken as it is.
InitCommand(force, named) ==
  /\ IF toml # Absent /\ ~force
     THEN told' = "exists" /\ UNCHANGED toml
     ELSE /\ toml' = ScaffoldManifest(named)
          /\ told' = IF IsPlaceholder(toml') THEN "placeholder" ELSE "written"
  /\ UNCHANGED project

\* Any command that starts by loading the manifest.
Load ==
  /\ told' = IF toml = HandWritten \/ (toml # Absent /\ Validate(toml)) THEN "loads" ELSE "error"
  /\ UNCHANGED <<project, toml>>

ScaffoldNext == Load \/ \E force, named \in BOOLEAN : InitCommand(force, named)

ScaffoldSpec == ScaffoldInit /\ [][ScaffoldNext]_scaffoldVars
-----------------------------------------------------------------------------
(***************************************************************************)
(* What Cargo's documentation of workspace members says, as a reference.   *)
(***************************************************************************)

\* The increasing sequences of n positions in 0..m.
Cuts(n, m) == {c \in [1..n -> 0..m] : \A i \in 1..n - 1 : c[i] <= c[i + 1]}

\* The parts occur in the name in order and without overlap, the first at its
\* start and the last at its end.
GlobMatches(parts, name) ==
  LET n == Len(parts)
      until(c, i) == c[i] + Len(parts[i])
  IN  \E c \in Cuts(n, Len(name)) :
        /\ c[1] = 0 /\ until(c, n) = Len(name)
        /\ \A i \in 1..n : /\ until(c, i) <= Len(name)
                           /\ SubSeq(name, c[i] + 1, until(c, i)) = parts[i]
                           /\ i < n => until(c, i) <= c[i + 1]

\* The names of dir fall into one piece per segment: any number of names for
\* `**`, one matching name for every other.
PathMatches(segs, dir) ==
  LET n == Len(segs)
  IN  \E c \in Cuts(n + 1, Len(dir)) :
        /\ c[1] = 0 /\ c[n + 1] = Len(dir)
        /\ \A i \in 1..n : \/ segs[i] = DoubleStar
                           \/ /\ c[i + 1] = c[i] + 1
                              /\ GlobMatches(segs[i], dir[c[i + 1]])

Members == {d \in dirs : d = Top \/ (members # NoTable /\ \E m \in ToSet(members) : PathMatches(m, d))}
Contracts == {d \in Members : pkg[d] = "cdylib"}
Scaffolded == toml \notin {Absent, HandWritten}

(***************************************************************************)
(* Properties                                                              *)
(***************************************************************************)

\* The manifest `init` writes has an entry for every contract of the workspace
\* and for nothing else, whatever globs the members are written with, and is
\* called a placeholder exactly when there is none or one has the placeholder's name.
FindsEveryContract ==
  Scaffolded =>
    LET ids == {a.id : a \in ToSet(toml.artifacts)}
    IN  /\ ids = IF Contracts = {} THEN {Placeholder} ELSE Contracts
        /\ told = "placeholder" => Contracts = {} \/ Placeholder \in Contracts
        /\ told = "written" => Contracts # {} /\ Placeholder \notin Contracts

\* What `init` writes is a manifest, and that of the workspace.
ScaffoldCorrect == ScaffoldTypeOK /\ FindsEveryContract

\* A manifest that loads after `init` seals each contract once, and `init` of a
\* project whose only contract is its root package leaves one that loads unless
\* a member pattern finds the root again or the project is named with a blank.
LoadedIsUsable ==
  [][Load /\ Scaffolded =>
       /\ told' = "loads" => Len(toml.artifacts) = Cardinality({a.id : a \in ToSet(toml.artifacts)})
       /\ (Contracts \subseteq {Top} /\ toml.named
             /\ (members # NoTable => \A m \in ToSet(members) : ~PathMatches(m, Top)))
            => told' = "loads"]_scaffoldVars
-----------------------------------------------------------------------------
(***************************************************************************)
(* A statement of the documentation the code does not keep                 *)
(***************************************************************************)

\* "`sorseal init` scaffolds a working manifest for a fresh project"
\* (PRD.md:119): what it writes loads, if the project is given a name and no
\* contract is a member twice.
InitScaffoldsWorkingManifest ==
  [][Load /\ Scaffolded /\ toml.named
       /\ Len(toml.artifacts) = Cardinality({a.id : a \in ToSet(toml.artifacts)})
     => told' = "loads"]_scaffoldVars
=============================================================================
