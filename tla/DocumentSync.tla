---------------------------- MODULE DocumentSync ----------------------------
(***************************************************************************)
(* A CRDT document on the SignalR hub /hubs/sync, and the clients that edit  *)
(* it: SignalRTransport over its own connection, CollabOrchestrator between  *)
(* it and the Y.Doc.  Every local op is signed (asynchronously) and pushed;  *)
(* the ones made while the transport is not connected are kept, to be pushed *)
(* again when the document's initial state arrives.                          *)
(***************************************************************************)
EXTENDS HubJournal

CONSTANTS Stable  \* bound: clients that neither lose their connection nor close

VARIABLES
    phase,    \* the transport: "closed" (no document), "starting", "on",
              \* "retry" (automatic reconnection), "off" (offline mode)
    doc,      \* the Y.Doc
    signing,  \* ops being signed, to be pushed next
    early,    \* ops made while not connected, since the last initial state
    broken,   \* history: this transport has lost its connection, or never had it
    made      \* edits made so far, those of earlier sessions included

docVars == <<phase, doc, signing, early, broken, made>>
vars == <<journalVars,
          phase, doc, signing, early, broken, made>>

TypeOK ==
    /\ JournalType
    /\ phase \in [Client -> {"closed", "starting", "on", "retry", "off"}]
    /\ doc \in [Client -> SUBSET Update]
    /\ signing \in [Client -> SUBSET Update]
    /\ early \in [Client -> SUBSET Update]
    /\ broken \in [Client -> BOOLEAN]
    /\ made \in SUBSET Update
    /\ alive = {Current(c) : c \in {d \in Client : phase[d] = "on"}}

Init ==
    /\ JournalInit
    /\ phase = [c \in Client |-> "closed"]
    /\ doc = [c \in Client |-> {}]
    /\ signing = [c \in Client |-> {}]
    /\ early = [c \in Client |-> {}]
    /\ broken = [c \in Client |-> FALSE]
    /\ made = Seed
-----------------------------------------------------------------------------
\* openDocument: a new Y.Doc, and join() starts its transport.
Open(c) ==
    /\ phase[c] = "closed" /\ conn[c] < MaxConn
    /\ phase' = [phase EXCEPT ![c] = "starting"]
    /\ broken' = [broken EXCEPT ![c] = FALSE]
    /\ UNCHANGED <<journalVars, doc, signing, early, made>>

\* The connection is up: JoinDocument is invoked.
Started(c) ==
    LET k == <<c, conn[c] + 1>>
    IN  /\ phase[c] = "starting"
        /\ phase' = [phase EXCEPT ![c] = "on"]
        /\ conn' = [conn EXCEPT ![c] = @ + 1]
        /\ alive' = alive \cup {k}
        /\ Send(k, <<JoinCall>>)
        /\ UNCHANGED <<journal, member, work, down, history, doc, signing, early, broken, made>>

\* ... or fails: offline mode, join() is not tried again.
StartFails(c) ==
    /\ phase[c] = "starting" /\ c \notin Stable
    /\ phase' = [phase EXCEPT ![c] = "off"]
    /\ broken' = [broken EXCEPT ![c] = TRUE]
    /\ UNCHANGED <<journalVars, doc, signing, early, made>>

\* The connection breaks; the answers of the server are lost with it.
Drop(c) ==
    /\ phase[c] = "on" /\ c \notin Stable
    /\ phase' = [phase EXCEPT ![c] = "retry"]
    /\ broken' = [broken EXCEPT ![c] = TRUE]
    /\ alive' = alive \ {Current(c)}
    /\ down' = [down EXCEPT ![Current(c)] = <<>>]
    /\ UNCHANGED <<journal, member, work, up, conn, history, doc, signing, early, made>>

\* withAutomaticReconnect succeeds: the transport installs no handler, so
\* nothing joins the document on the new connection ...
Reconnect(c) ==
    LET k == <<c, conn[c] + 1>>
    IN  /\ phase[c] = "retry" /\ conn[c] < MaxConn
        /\ phase' = [phase EXCEPT ![c] = "on"]
        /\ conn' = [conn EXCEPT ![c] = @ + 1]
        /\ alive' = alive \cup {k}
        /\ UNCHANGED <<journal, member, work, up, down, history, doc, signing, early, broken, made>>

\* ... or gives up.
GiveUp(c) ==
    /\ phase[c] = "retry"
    /\ phase' = [phase EXCEPT ![c] = "off"]
    /\ UNCHANGED <<journalVars, doc, signing, early, broken, made>>

\* Mutant of Edit: the ops made while not connected are not kept.
EditUnkept(c, u) ==
    /\ phase[c] # "closed" /\ u \notin made
    /\ made' = made \cup {u}
    /\ doc' = [doc EXCEPT ![c] = @ \cup {u}]
    /\ signing' = [signing EXCEPT ![c] = @ \cup {u}]
    /\ UNCHANGED <<journalVars, phase, early, broken>>

\* A local op: pushOp keeps it if the transport is not connected, and signs it.
Edit(c, u) ==
    /\ phase[c] # "closed" /\ u \notin made
    /\ made' = made \cup {u}
    /\ doc' = [doc EXCEPT ![c] = @ \cup {u}]
    /\ signing' = [signing EXCEPT ![c] = @ \cup {u}]
    /\ early' = IF phase[c] = "on" THEN early ELSE [early EXCEPT ![c] = @ \cup {u}]
    /\ UNCHANGED <<journalVars, phase, broken>>

\* The signature is there: push() sends the op, or drops it silently when the
\* transport is not connected (any more).
Signed(c, u) ==
    /\ u \in signing[c]
    /\ signing' = [signing EXCEPT ![c] = @ \ {u}]
    /\ IF phase[c] = "on" THEN Send(Current(c), <<PushCall({u})>>) ELSE UNCHANGED up
    /\ UNCHANGED <<journal, member, work, down, conn, alive, history,
                   phase, doc, early, broken, made>>

\* Mutant of Receive: the snapshot is the state the server sent.
ReceiveEchoes(c) ==
    LET k == Current(c)
        msg == Head(down[k])
    IN  /\ phase[c] = "on" /\ down[k] # <<>>
        /\ down' = [down EXCEPT ![k] = Tail(@)]
        /\ doc' = [doc EXCEPT ![c] = @ \cup msg.st]
        /\ Send(k, IF msg.m = "init" /\ msg.long THEN <<SnapCall(msg.st)>> ELSE <<>>)
        /\ IF msg.m = "init"
           THEN /\ signing' = [signing EXCEPT ![c] = @ \cup early[c]]
                /\ early' = [early EXCEPT ![c] = {}]
           ELSE UNCHANGED <<signing, early>>
        /\ UNCHANGED <<journal, member, work, conn, alive, history, phase, broken, made>>

\* The transport receives the next message: ReceiveOperation is merged;
\* InitDocument is merged, a long journal is replaced by the document's state
\* (pushSnapshot), and the early ops are pushed again.
Receive(c) ==
    LET k == Current(c)
        msg == Head(down[k])
        merged == doc[c] \cup msg.st
    IN  /\ phase[c] = "on" /\ down[k] # <<>>
        /\ down' = [down EXCEPT ![k] = Tail(@)]
        /\ doc' = [doc EXCEPT ![c] = merged]
        /\ Send(k, IF msg.m = "init" /\ msg.long THEN <<SnapCall(merged)>> ELSE <<>>)
        /\ IF msg.m = "init"
           THEN /\ signing' = [signing EXCEPT ![c] = @ \cup early[c]]
                /\ early' = [early EXCEPT ![c] = {}]
           ELSE UNCHANGED <<signing, early>>
        /\ UNCHANGED <<journal, member, work, conn, alive, history, phase, broken, made>>

\* Mutant of Close: the connection is not stopped.
CloseConnected(c) ==
    /\ phase[c] # "closed" /\ c \notin Stable
    /\ phase' = [phase EXCEPT ![c] = "closed"]
    /\ doc' = [doc EXCEPT ![c] = {}]
    /\ signing' = [signing EXCEPT ![c] = {}]
    /\ early' = [early EXCEPT ![c] = {}]
    /\ down' = [k \in Conn |-> IF k[1] = c THEN <<>> ELSE down[k]]
    /\ UNCHANGED <<journal, member, work, up, conn, alive, history, broken, made>>

\* closeDocument: the orchestrator is unhooked, the transport disconnected and
\* the Y.Doc destroyed; an op still being signed will find no connection.
Close(c) ==
    /\ phase[c] # "closed" /\ c \notin Stable
    /\ phase' = [phase EXCEPT ![c] = "closed"]
    /\ doc' = [doc EXCEPT ![c] = {}]
    /\ signing' = [signing EXCEPT ![c] = {}]
    /\ early' = [early EXCEPT ![c] = {}]
    /\ alive' = {k \in alive : k[1] # c}
    /\ down' = [k \in Conn |-> IF k[1] = c THEN <<>> ELSE down[k]]
    /\ UNCHANGED <<journal, member, work, up, conn, history, broken, made>>

Server(k) ==
    /\ \/ JoinRead(k) \/ JoinAnswer(k) \/ PushAppend(k) \/ PushCast(k)
       \/ Snapshot(k) \/ Hangup(k)
    /\ UNCHANGED docVars

Next ==
    \/ \E c \in Client :
        \/ Open(c) \/ Started(c) \/ StartFails(c) \/ Drop(c) \/ Reconnect(c) \/ GiveUp(c)
        \/ Receive(c) \/ Close(c)
        \/ \E u \in Update : Edit(c, u) \/ Signed(c, u)
    \/ \E k \in Conn : Server(k)

Spec == Init /\ [][Next]_vars
-----------------------------------------------------------------------------
\* The journal is an append-only log (ICrdtOpRepository): what it once carried
\* it carries for ever, compaction included.
JournalKeeps == [][Content(journal) \subseteq Content(journal')]_vars

\* Compaction, though it deletes every op, keeps what its author was sent when
\* it joined and what its author has pushed: only the others' later ops go.
CompactionKeepsKnown ==
    [][\A k \in Conn : Snapshot(k) => Known(k) \cap Content(journal) \subseteq Content(journal')]_vars

\* A client at rest: joined, nothing on its way, nothing being signed.
AtRest(c) == phase[c] = "on" /\ Settled(c) /\ signing[c] = {}
Steady(c) == AtRest(c) /\ ~broken[c]

\* Ops made before the document was connected are pushed again when its initial
\* state arrives: what a client at rest shows, the server has stored ...
RestMeansSaved == \A c \in Client : AtRest(c) => doc[c] \subseteq Stored

\* ... which holds of a client whose transport has not lost its connection.
SteadySaved == \A c \in Client : Steady(c) => doc[c] \subseteq Stored

\* A client at rest whose transport has not lost its connection shows every op
\* pushed that the journal holds, but for the broadcasts sent between its join's
\* read and its entry in the group, and for what a compaction once deleted (a
\* later snapshot may bring that back, and nobody is told).
SteadyMissesOnlySlipped ==
    \A c \in Client : Steady(c) /\ ~Casting =>
        Told \ doc[c] \subseteq slipped[Current(c)] \cup cut

\* But for what compaction deletes, the document implements the grow-only store.
Store == INSTANCE UpdateStore WITH stored <- Stored, replica <- doc
ImplementsStore == Store!Spec
=============================================================================
