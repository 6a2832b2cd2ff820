------------------------------- MODULE Queues -------------------------------
(***************************************************************************)
(* The queues of calls and messages between the clients and a hub, as the   *)
(* proofs speak of them: records with a kind m and, but for a few, a state  *)
(* st, taken at the head and appended at the end.                           *)
(***************************************************************************)
EXTENDS Integers, Sequences

\* The queue s holds an element of kind m; holds at most one; the states its
\* elements of kind m carry; all the states it carries; its pushes merged.
Has(s, m) == \E i \in DOMAIN s : s[i].m = m
Once(s, m) == \A i, j \in DOMAIN s : s[i].m = m /\ s[j].m = m => i = j
States(s, m) == {s[i].st : i \in {j \in DOMAIN s : s[j].m = m}}
AllStates(s) == {s[i].st : i \in DOMAIN s}
Pushes(s) == UNION States(s, "push")
=============================================================================
