----------------------------- MODULE MCEdgeRooms -----------------------------
(* EdgeRooms for TLC: interchangeable devices, each with an account.         *)
EXTENDS EdgeRooms, TLC
CONSTANTS p1, p2
MCAccountOf == [p \in Peer |-> p]
Symmetry == Permutations(Peer)
=============================================================================
