----------------------------- MODULE MCSettings -----------------------------
(* Instances of Settings for TLC. *)
EXTENDS Settings, TLC

CONSTANTS u1, u2, b1, n1
Symmetry == Permutations(Updates)
=============================================================================
