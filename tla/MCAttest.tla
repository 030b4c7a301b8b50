------------------------------ MODULE MCAttest ------------------------------
(***************************************************************************)
(* Constants for the runs of Attest; keys and wasms are interchangeable.   *)
(***************************************************************************)
EXTENDS Attest, TLC

CONSTANTS n1, n2, k1, k2, a1, a2, w1, w2, d1, d2, e1, sh1, sh2

Symmetry == Permutations(Keys) \cup Permutations(Wasms) \cup Permutations(Artifacts)
              \cup Permutations(Details) \cup Permutations(Procs)
=============================================================================
