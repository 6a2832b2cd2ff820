---------------------------- MODULE MCIndexerFeed ----------------------------
(* IndexerFeed for TLC: one shard, and resources that are alike.              *)
EXTENDS IndexerFeed, TLC
CONSTANTS v1, s1
OneShard == (v1 :> s1)
Symmetry == Permutations(Res)
=============================================================================
