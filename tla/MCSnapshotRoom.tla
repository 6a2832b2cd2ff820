--------------------------- MODULE MCSnapshotRoom ---------------------------
(* SnapshotRoom for TLC: interchangeable clients.                             *)
EXTENDS SnapshotRoom, TLC
CONSTANTS c1, c2
Symmetry == Permutations(Client)
=============================================================================
