-------------------------- MODULE MCVaultDirectory --------------------------
(* VaultDirectory for TLC: new edits are interchangeable.                    *)
EXTENDS VaultDirectory, TLC
CONSTANTS c1, c2
Symmetry == Permutations(Update \ Seed)
=============================================================================
