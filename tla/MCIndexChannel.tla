--------------------------- MODULE MCIndexChannel ---------------------------
(* IndexChannel for TLC: edits are interchangeable.                         *)
EXTENDS IndexChannel, TLC
CONSTANTS c1, c2
Symmetry == Permutations(Update)
=============================================================================
