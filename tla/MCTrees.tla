------------------------------- MODULE MCTrees -------------------------------
(***************************************************************************)
(* The three commands that walk a directory tree for TLC: the discovery of *)
(* `sorseal init` (Scaffold), `sorseal analyze` (AnalyzeTree) and the tree *)
(* digest of record and verify (TreeDigest).  A behaviour is one of the    *)
(* three: the other walks do not move.                                     *)
(***************************************************************************)
EXTENDS Scaffold, AnalyzeTree, TreeDigest

-----------------------------------------------------------------------------
(***************************************************************************)
(* Projects for Scaffold                                                   *)
(***************************************************************************)
\* Two levels of two directories each, named with overlapping words whose
\* letters are numbers.
CONSTANT MaxSegments

a == <<1>>
b == <<2>>
ab == <<1, 2>>
ba == <<2, 1>>
aba == <<1, 2, 1>>
abba == <<1, 2, 2, 1>>
Star == << <<>>, <<>> >>

MCNames == <<aba, abba>>

\* The package in abba is called as the placeholder is.
MCPlaceholder == <<abba>>

\* Members of up to MaxSegments segments of every sort, members of one segment
\* whose parts overlap in the names, and workspaces of two members.
Segments == {<<aba>>, Star, DoubleStar, <<ab, <<>>>>}
SegmentPaths == UNION {[1..n -> Segments] : n \in 0..MaxSegments}
Patterns ==
  {<<x, z>> : x \in {<<>>, ab}, z \in {<<>>, ba}}
    \cup {<<x, y, z>> : x \in {<<>>, ab}, y \in {b, ab}, z \in {<<>>, a, ba}}
MCWorkspaces ==
  {<<>>} \cup {<<m>> : m \in SegmentPaths} \cup {<< <<p>> >> : p \in Patterns}
         \cup {<< <<Star>>, <<<<aba>>>> >>, << <<<<abba>>, <<aba>>>>, <<DoubleStar, <<aba>>>> >>}
-----------------------------------------------------------------------------
(***************************************************************************)
(* A project for AnalyzeTree                                               *)
(***************************************************************************)
\* Artifact a has a nested module and a target directory, artifact b a source, a
\* text file, one that is named .rs but cannot be read, and a directory that cannot
\* be listed.  Some of them may be missing, or all of artifact b.
MCManifest == <<"a", "b">>
MCRoot == [a |-> "/a", b |-> "/b"]
MCEntries == {"/a", "/b", "d", "target", "mod", "lib", "gen", "main", "text", "binary", "locked"}
MCChildren ==
  [e \in MCEntries |->
     CASE e = "/a" -> {"d", "lib", "target"} [] e = "d" -> {"mod"} [] e = "target" -> {"gen"}
       [] e = "/b" -> {"main", "text", "binary", "locked"} [] OTHER -> {}]
MCTrees ==
  {MCEntries \ ({"locked"} \cup gone) : gone \in SUBSET {"lib", "mod", "gen", "main", "binary"}}
    \cup {MCEntries, MCEntries \ {"binary"}, MCEntries \ ({"/b"} \cup MCChildren["/b"])}
MCKind ==
  [e \in MCEntries |->
     CASE e \in {"/a", "/b", "d", "target"} -> "dir" [] e = "text" -> "other"
       [] e = "binary" -> "unreadable" [] e = "locked" -> "closed" [] OTHER -> "rs"]

\* Paths in order, then rule ids.
MCRank ==
  [e \in MCEntries \cup {Wasm, "unwrap", "unsafe"} |->
     CASE e = Wasm -> 0 [] e = "mod" -> 1 [] e = "lib" -> 2 [] e = "gen" -> 3 [] e = "main" -> 4
       [] e = "unwrap" -> 5 [] e = "unsafe" -> 6 [] OTHER -> 7]

F(l, r) == [line |-> l, rule |-> r]
MCRaw ==
  [e \in MCEntries |->
     CASE e = "lib" -> <<F(5, "unwrap"), F(2, "unsafe"), F(5, "unsafe")>>
       [] e = "mod" -> <<F(5, "unwrap"), F(2, "unwrap")>>
       [] e \in {"gen", "main"} -> <<F(2, "unwrap")>>
       [] OTHER -> <<>>]
MCDirective ==
  [e \in MCEntries |-> CASE e = "lib" -> (4 :> {"unsafe"}) [] e = "mod" -> (1 :> {"all"} @@ 4 :> {"unwrap"})
                         [] OTHER -> <<>>]
MCBinary == [a |-> <<[file |-> "artifact.wasm", line |-> 1, rule |-> "unwrap"]>>, b |-> Unread]
MCGrade == [unwrap |-> 0, unsafe |-> 3]
-----------------------------------------------------------------------------
(***************************************************************************)
(* A tree for TreeDigest                                                   *)
(***************************************************************************)
\* A source at the root and one in src, a file in a skipped directory of src, a
\* skipped file and one that sorseal writes under a name that is not skipped.
CONSTANT Text

Lib == <<"Cargo.toml">>
Mod == <<"src", "lib.rs">>
Build == <<"src", "target", "gen.rs">>
Seal == <<"src", "sorseal.provenance.json">>
State == <<"watchstate">>

const_Order == <<Lib, Mod, Seal, Build, State>>
const_SkipDirs == {".git", "target"}
const_SkipFiles == {"sorseal.provenance.json"}
const_OwnFiles == const_SkipFiles \cup {"watchstate"}

\* Empty, a line, and three lines of which the second is a path.
const_Contents == {<<>>, <<Text>>, <<Text, NewLine, Mod, NewLine, Text>>}
\* What is skipped is there or is not.
const_InitTrees == {t \in FileTrees : \A p \in Paths \ Covered : t[p] \in {NoFile, <<>>}}
-----------------------------------------------------------------------------
VARIABLE command  \* of this behaviour

allVars == <<command, scaffoldVars, vars, digestVars>>

ScaffoldAtRest ==
  /\ dirs = {Top} /\ pkg = [d \in {Top} |-> "none"] /\ members = NoTable
  /\ toml = Absent /\ told = "nothing"
AnalyzeAtRest ==
  /\ opts = [artifact |-> Default, failOn |-> Default, noIgnore |-> FALSE, wasm |-> FALSE,
             seal |-> FALSE, sarif |-> FALSE, ignore |-> FALSE]
  /\ present = MCEntries /\ pc = "artifact" /\ queue = Manifest
  /\ stack = <<>> /\ walked = FALSE /\ findings = <<>>
  /\ pending = <<>> /\ sealed = <<>> /\ exit = 0
\* Its one file was removed before it was read.
DigestAtRest ==
  /\ disk = [p \in Paths |-> NoFile] /\ phase = "failed"
  /\ opened = <<>> /\ files = <<Lib>> /\ hashed = <<>>
  /\ edited = {Lib} /\ edits = 1 /\ outputs = 0

TreesInit ==
  \/ command = "init" /\ ScaffoldInit /\ AnalyzeAtRest /\ DigestAtRest
  \/ command = "analyze" /\ ScaffoldAtRest /\ Init /\ DigestAtRest
  \/ command = "digest" /\ ScaffoldAtRest /\ AnalyzeAtRest /\ DigestInit

Scaffolding == command = "init" /\ ScaffoldNext /\ UNCHANGED <<command, vars, digestVars>>
Analyzing == command = "analyze" /\ Next /\ UNCHANGED <<command, scaffoldVars, digestVars>>
Digesting == command = "digest" /\ DigestNext /\ UNCHANGED <<command, scaffoldVars, vars>>

TreesNext == Scaffolding \/ Analyzing \/ Digesting

TreesSpec == TreesInit /\ [][TreesNext]_allVars
=============================================================================
