---------------------------- MODULE MCHashRegistry ----------------------------
(* HashRegistry for TLC: two concurrent sweeps. *)
EXTENDS HashRegistry, TLC

CONSTANTS s1, s2

Symmetry == Permutations({s1, s2})
==============================================================================
