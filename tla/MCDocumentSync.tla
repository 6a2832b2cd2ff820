--------------------------- MODULE MCDocumentSync ---------------------------
(* DocumentSync for TLC: new edits are interchangeable.                      *)
EXTENDS DocumentSync, TLC
CONSTANTS c1, c2
Symmetry == Permutations(Update \ Seed)
=============================================================================
