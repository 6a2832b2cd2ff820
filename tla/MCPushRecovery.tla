--------------------------- MODULE MCPushRecovery ---------------------------
(* PushRecovery for TLC: the directory and one map; edits and callers of      *)
(* flush() are interchangeable.                                               *)
EXTENDS PushRecovery, TLC
MCChannels == <<"directory", "map">>
Symmetry == Permutations(Update) \cup Permutations(Transfer)
=============================================================================
