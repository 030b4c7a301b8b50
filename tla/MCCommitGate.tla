---------------------------- MODULE MCCommitGate ----------------------------
(***************************************************************************)
(* Constants for the runs of CommitGate: the sources and builds of MCSeal, *)
(* where source s2 has a grave finding or none.                            *)
(***************************************************************************)
EXTENDS CommitGate, TLC

CONSTANTS s1, s2, s3, gone, c1, w1, w2, a1, p1, sh1, hk

MCBuilds ==
  [x \in Sources \X Commands |->
     CASE x[1] = gone -> {Fails} [] x[1] = s1 -> {w1} [] OTHER -> {w2}]

MCAuditOf == [t \in Scans |-> t]
MCGrave == {t \in Scans : t = <<s3>>}
=============================================================================
