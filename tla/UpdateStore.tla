----------------------------- MODULE UpdateStore -----------------------------
(***************************************************************************)
(* What the relay promises to the replicas of one shared document, whatever *)
(* the hub that carries it: a set of CRDT updates that only grows, and      *)
(* replicas that learn from it nothing but what it already holds.           *)
(*                                                                         *)
(* An update is an opaque value: merging updates is set union, which is     *)
(* what a CRDT merge is to everything that does not look inside.            *)
(***************************************************************************)
CONSTANTS Client, \* the replicas
          Update, \* the updates users may make
          Seed    \* the updates made and stored in earlier sessions

VARIABLES made,    \* updates made by the users so far
          stored,  \* updates the store holds
          replica  \* [Client -> SUBSET Update]: what each replica shows

vars == <<made, stored, replica>>

Init == /\ made = Seed
        /\ stored = Seed
        /\ replica = [c \in Client |-> {}]

\* A user edits its own replica: the update is new to everyone.
Edit(c, u) ==
    /\ u \notin made
    /\ made' = made \cup {u}
    /\ replica' = [replica EXCEPT ![c] = @ \cup {u}]
    /\ UNCHANGED stored

\* The store takes updates in, and never lets one go.
Store(S) ==
    /\ stored' = stored \cup S
    /\ UNCHANGED <<made, replica>>

\* A replica learns updates, all of them already in the store.
Learn(c, S) ==
    /\ replica' = [replica EXCEPT ![c] = @ \cup S]
    /\ UNCHANGED <<made, stored>>

\* A replica is closed and forgets what it showed (nothing is kept locally).
Forget(c) ==
    /\ replica' = [replica EXCEPT ![c] = {}]
    /\ UNCHANGED <<made, stored>>

Next == \/ \E c \in Client, u \in Update : Edit(c, u)
        \/ \E S \in SUBSET made : Store(S)
        \/ \E c \in Client, S \in SUBSET stored : Learn(c, S)
        \/ \E c \in Client : Forget(c)

Spec == Init /\ [][Next]_vars
===============================================================================
