--------------------------- MODULE VaultDirectory ---------------------------
(***************************************************************************)
(* The directory of a vault (its file tree, a CRDT) on the SignalR hub      *)
(* /hubs/vault: the journal joined, pushed to and compacted by force        *)
(* (HubJournal), and the sessions that show it (VaultHubClient,             *)
(* SavoireServerVaultSession, YMapVaultDirectory).  JoinVault is sent on    *)
(* every connection, first or not; its InitVault is merged, a long journal   *)
(* is replaced by the directory's state, and after a reconnection flush()    *)
(* makes up for lost pushes (in detail in PushRecovery).                     *)
(***************************************************************************)
EXTENDS HubJournal

CONSTANTS Stable,        \* bound: clients that neither lose their connection nor close
          RetriesRunOut  \* automatic reconnection may give up

ASSUME RetryAssumption == RetriesRunOut \in BOOLEAN

VARIABLES
    phase,  \* the session: "closed", "opening" (not handed to the application),
            \* "on", "retry", "rejoin" (reconnected, vault being joined), "off"
    doc,    \* the directory's Y.Doc
    lossy,  \* lostPushes is not zero
    made    \* edits made so far, those of earlier sessions included

sessionVars == <<phase, doc, lossy, made>>
vars == <<journalVars, phase, doc, lossy, made>>

Linked == {c \in Client : phase[c] \in {"opening", "on", "rejoin"}}

TypeOK ==
    /\ JournalType
    /\ phase \in [Client -> {"closed", "opening", "on", "retry", "rejoin", "off"}]
    /\ doc \in [Client -> SUBSET Update]
    /\ lossy \in [Client -> BOOLEAN]
    /\ made \in SUBSET Update
    /\ alive = {Current(c) : c \in Linked}

Init ==
    /\ JournalInit
    /\ phase = [c \in Client |-> "closed"]
    /\ doc = [c \in Client |-> {}]
    /\ lossy = [c \in Client |-> FALSE]
    /\ made = Seed
-----------------------------------------------------------------------------
\* A connection of client c is up, and JoinVault is its first call.
Connect(c, next) ==
    LET k == <<c, conn[c] + 1>>
    IN  /\ conn[c] < MaxConn
        /\ phase' = [phase EXCEPT ![c] = next]
        /\ conn' = [conn EXCEPT ![c] = @ + 1]
        /\ alive' = alive \cup {k}
        /\ Send(k, <<JoinCall>>)
        /\ UNCHANGED <<journal, member, work, down, history, doc, lossy, made>>

\* connect(), called by open(), or by a later call once retries have run out.
Start(c) ==
    \/ phase[c] = "closed" /\ Connect(c, "opening")
    \/ phase[c] = "off" /\ Connect(c, "on")

\* The connection breaks.  open() goes on without it.  A push without an
\* answer is counted; so is one whose answer was on its way.
Drop(c) ==
    LET k == Current(c)
        pushing == work[k].m = "casting" \/ \E i \in DOMAIN up[k] : up[k][i].m = "push"
    IN  /\ c \in Linked \ Stable
        /\ phase' = [phase EXCEPT ![c] = "retry"]
        /\ alive' = alive \ {k}
        /\ down' = [down EXCEPT ![k] = <<>>]
        /\ \E l \in BOOLEAN : /\ lossy[c] \/ pushing => l
                              /\ lossy' = [lossy EXCEPT ![c] = l]
        /\ UNCHANGED <<journal, member, work, up, conn, history, doc, made>>

\* Mutant of Reconnect: the vault is not joined on the new connection.
ReconnectUnjoined(c) ==
    /\ phase[c] = "retry" /\ conn[c] < MaxConn
    /\ phase' = [phase EXCEPT ![c] = "on"]
    /\ conn' = [conn EXCEPT ![c] = @ + 1]
    /\ alive' = alive \cup {<<c, conn[c] + 1>>}
    /\ UNCHANGED <<journal, member, work, up, down, history, doc, lossy, made>>

\* Automatic reconnection: onreconnected invokes JoinVault ...
Reconnect(c) == phase[c] = "retry" /\ Connect(c, "rejoin")

\* ... or there is none: onclose.
GiveUp(c) ==
    /\ RetriesRunOut
    /\ phase[c] = "retry"
    /\ phase' = [phase EXCEPT ![c] = "off"]
    /\ UNCHANGED <<journalVars, doc, lossy, made>>

\* Mutant of Edit: a push that cannot be sent is not counted.
EditUncounted(c, u) ==
    /\ phase[c] \notin {"closed", "opening"} /\ u \notin made
    /\ made' = made \cup {u}
    /\ doc' = [doc EXCEPT ![c] = @ \cup {u}]
    /\ IF c \in Linked THEN Send(Current(c), <<PushCall({u})>>) ELSE UNCHANGED up
    /\ UNCHANGED <<journal, member, work, down, conn, alive, history, phase, lossy>>

\* A document added, renamed, removed: pushed at once, or counted.
Edit(c, u) ==
    /\ phase[c] \notin {"closed", "opening"} /\ u \notin made
    /\ made' = made \cup {u}
    /\ doc' = [doc EXCEPT ![c] = @ \cup {u}]
    /\ IF c \in Linked
       THEN Send(Current(c), <<PushCall({u})>>) /\ UNCHANGED lossy
       ELSE lossy' = [lossy EXCEPT ![c] = TRUE] /\ UNCHANGED up
    /\ UNCHANGED <<journal, member, work, down, conn, alive, history, phase>>

\* Mutant of Receive: the state is encoded before the ops are merged.
ReceiveEncodesFirst(c) ==
    LET k == Current(c)
        msg == Head(down[k])
        init == msg.m = "init"
    IN  /\ c \in Linked /\ down[k] # <<>>
        /\ down' = [down EXCEPT ![k] = Tail(@)]
        /\ doc' = [doc EXCEPT ![c] = @ \cup msg.st]
        /\ Send(k, IF init /\ msg.long THEN <<SnapCall(doc[c])>> ELSE <<>>)
        /\ phase' = IF init THEN [phase EXCEPT ![c] = "on"] ELSE phase
        /\ UNCHANGED <<journal, member, work, conn, alive, history, lossy, made>>

\* The next message: VaultOperationReceived is merged.  InitVault is merged, a
\* long journal compacted; it ends open(), and after a reconnection the state is
\* pushed if pushes were lost (rejoinIndexes, flush).
Receive(c) ==
    LET k == Current(c)
        msg == Head(down[k])
        merged == doc[c] \cup msg.st
        init == msg.m = "init"
        again == init /\ phase[c] = "rejoin" /\ lossy[c]
    IN  /\ c \in Linked /\ down[k] # <<>>
        /\ down' = [down EXCEPT ![k] = Tail(@)]
        /\ doc' = [doc EXCEPT ![c] = merged]
        /\ Send(k, (IF init /\ msg.long THEN <<SnapCall(merged)>> ELSE <<>>)
                   \o (IF again THEN <<PushCall(merged)>> ELSE <<>>))
        /\ lossy' = IF again THEN [lossy EXCEPT ![c] = FALSE] ELSE lossy
        /\ phase' = IF init THEN [phase EXCEPT ![c] = "on"] ELSE phase
        /\ UNCHANGED <<journal, member, work, conn, alive, history, made>>

\* Mutant of Close: the connection is not stopped.
CloseConnected(c) ==
    /\ phase[c] # "closed" /\ c \notin Stable
    /\ phase' = [phase EXCEPT ![c] = "closed"]
    /\ doc' = [doc EXCEPT ![c] = {}]
    /\ lossy' = [lossy EXCEPT ![c] = FALSE]
    /\ down' = [k \in Conn |-> IF k[1] = c THEN <<>> ELSE down[k]]
    /\ UNCHANGED <<journal, member, work, up, conn, alive, history, made>>

\* dispose(): the connection is stopped, nothing is kept locally.
Close(c) ==
    /\ phase[c] # "closed" /\ c \notin Stable
    /\ phase' = [phase EXCEPT ![c] = "closed"]
    /\ doc' = [doc EXCEPT ![c] = {}]
    /\ lossy' = [lossy EXCEPT ![c] = FALSE]
    /\ alive' = {k \in alive : k[1] # c}
    /\ down' = [k \in Conn |-> IF k[1] = c THEN <<>> ELSE down[k]]
    /\ UNCHANGED <<journal, member, work, up, conn, history, made>>

Server(k) ==
    /\ \/ JoinRead(k) \/ JoinAnswer(k) \/ PushAppend(k) \/ PushCast(k)
       \/ Snapshot(k) \/ Hangup(k)
    /\ UNCHANGED sessionVars

Next ==
    \/ \E c \in Client :
        \/ Start(c) \/ Drop(c) \/ Reconnect(c) \/ GiveUp(c) \/ Receive(c) \/ Close(c)
        \/ \E u \in Update : Edit(c, u)
    \/ \E k \in Conn : Server(k)

Spec == Init /\ [][Next]_vars
-----------------------------------------------------------------------------
\* Compaction, though it deletes every op, keeps what its author was sent when
\* it joined and what its author has pushed: only the others' later ops go.
CompactionKeepsKnown ==
    [][\A k \in Conn : Snapshot(k) => Known(k) \cap Content(journal) \subseteq Content(journal')]_vars

\* A session at rest: reconnected or never cut off, nothing on its way.
AtRest(c) == phase[c] = "on" /\ Settled(c)

\* What a session at rest shows has been stored, or losses are counted and the
\* next flush sends it ...
RestMeansSavedOrCounted == \A c \in Client : AtRest(c) => lossy[c] \/ doc[c] \subseteq Stored

\* A session at rest shows all of the file tree that was pushed, but for the
\* broadcasts sent between its JoinVault's read and its entry in the group, and
\* for what a compaction once deleted: a later snapshot may bring that back, and
\* nobody is told.  Reconnected by itself or by hand.
RestMissesOnlySlipped ==
    \A c \in Client : AtRest(c) /\ ~Casting =>
        Told \ doc[c] \subseteq slipped[Current(c)] \cup cut
=============================================================================
