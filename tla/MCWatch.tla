------------------------------ MODULE MCWatch -------------------------------
(***************************************************************************)
(* Constants for the runs of Watch.  Contents and webhooks are             *)
(* interchangeable wherever no liveness property is checked.               *)
(***************************************************************************)
EXTENDS Watch, TLC

CONSTANTS f1, f2, c1, c2, h1, h2, sh1, sh2

Symmetry == Permutations(Contents) \cup Permutations(Hooks)
=============================================================================
