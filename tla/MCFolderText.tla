---------------------------- MODULE MCFolderText ----------------------------
(***************************************************************************)
(* Model values and symmetry for FolderText.                                *)
(***************************************************************************)
EXTENDS FolderText, TLC

CONSTANTS w1, w2, t1, t2, x1, a, b

Symmetry == Permutations(Session) \cup Permutations(Typed)
=============================================================================
