--------------------------- MODULE MCNodeCatalog ---------------------------
(* Instances of NodeCatalog for TLC. *)
EXTENDS NodeCatalog, TLC

CONSTANTS n1, n2
Symmetry == Permutations(Nodes)
=============================================================================
