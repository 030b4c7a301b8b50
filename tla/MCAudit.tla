------------------------------ MODULE MCAudit -------------------------------
(***************************************************************************)
(* Constants for the runs of Audit.  A ledger holds at most one event, or  *)
(* an upgrade of the audited contract behind an upgrade of it or another.  *)
(***************************************************************************)
EXTENDS Audit

CONSTANTS w1, w2, w3, Others

MCBatches == BoundedSeq(Wasms \cup Others, 1) \cup {<<w2, w1>>, <<Foreign, w1>>}
MCSealings == (SUBSET Wasms) \cup {NoSeal, Corrupt}
=============================================================================
