--------------------------- MODULE MCDocumentLocks ---------------------------
(* DocumentLocks for TLC: the clients are interchangeable when all or none    *)
(* are stable.                                                                *)
EXTENDS DocumentLocks, TLC
CONSTANTS c1, c2
Symmetry == Permutations(Client)
=============================================================================
