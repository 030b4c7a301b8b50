------------------------------- MODULE MCSeal -------------------------------
(***************************************************************************)
(* Constants for the runs of Seal.  Source s1 and s2 build to different    *)
(* binaries with c1; s2 under c2 may leave the old binary in place; a      *)
(* missing source_root does not build.                                     *)
(***************************************************************************)
EXTENDS Seal, TLC

CONSTANTS s1, s2, gone, c1, c2, w1, w2, a1, a2, p1, p2, sh1, sh2

MCBuilds ==
  [x \in Sources \X Commands |->
     CASE x[1] = gone -> {Fails}
       [] x = <<s1, c1>> -> {w1}
       [] x = <<s2, c1>> -> {w2}
       [] x = <<s1, c2>> -> {w1}
       [] x = <<s2, c2>> -> {NoOutput, Fails}]

\* The analyser tells the two sources apart.
MCAuditOf == [t \in Scans |-> t]

\* Shells run the same subcommands: which of them runs one tells nothing apart.
Shells == Permutations(Procs)
=============================================================================
