---------------------------- MODULE IndexChannel ----------------------------
(***************************************************************************)
(* One shared index channel of a vault on the SignalR hub /hubs/vault: the  *)
(* journal of opaque CRDT updates the server keeps (EfCrdtOpRepository),    *)
(* the hub's JoinIndex, PushIndexUpdate and SnapshotIndex (VaultHub), and   *)
(* the clients that join, edit, reconnect and compact (VaultHubClient,      *)
(* SavoireServerVaultSession.openIndex, YMapIndexChannel).                  *)
(*                                                                         *)
(* A CRDT update, and a document state, is the set of the edits it carries: *)
(* merging is union.  A connection is <<client, number>>: the server may    *)
(* still be working through the calls of a connection its client has lost.  *)
(* SignalR runs the calls of one connection one at a time, in order, and    *)
(* keeps the order of the messages it sends down one connection.            *)
(***************************************************************************)
EXTENDS Naturals, Sequences, FiniteSets

CONSTANTS Client,            \* the clients (one vault session each)
          Update,            \* the edits the users may make
          MaxConn,           \* bound: connections a client may open
          Stable,            \* bound: clients that neither lose their connection
                             \* nor close the channel
          CompactThreshold,  \* INDEX_COMPACT_THRESHOLD
          OpenDuringRejoin,  \* the application may open the channel while a
                             \* reconnection is still rejoining channels
          RetriesRunOut      \* starting the connection may fail: automatic
                             \* reconnection gives up, and a later call starts
                             \* the connection again by hand

ASSUME BoundsAssumption == MaxConn \in Nat \ {0} /\ CompactThreshold \in Nat
ASSUME ModeAssumption == OpenDuringRejoin \in BOOLEAN /\ RetriesRunOut \in BOOLEAN

Conn == Client \X (1..MaxConn)
NoWork == [m |-> "none"]

VARIABLES
    ops,      \* the journal: ops [id, st] of the Operations table
    nextId,   \* the next op id (ids are fresh GUIDs)
    member,   \* connections in the SignalR group idx:<vault>:<ns>
    covered,  \* Context.Items[idx-joined]: op ids returned to the connection
    work,     \* the call a connection's dispatcher is in the middle of
    up,       \* calls sent on a connection and not started by the server
    down,     \* messages sent down a connection and not received
    phase,    \* connection state of a client: "off", "retry", "rejoin", "on"
    conn,     \* number of the client's current, or last, connection
    open,     \* the session has the channel open (subscribed to the hub client)
    doc,      \* the Y.Doc of the channel
    lossy,    \* the hub client counted lost pushes since the last flush
    made,     \* edits made so far
    slipped   \* history: broadcasts a connection missed because its JoinIndex
              \* had read the journal and not yet entered the group

serverVars == <<ops, nextId, member, covered, work, slipped>>
clientVars == <<phase, conn, open, doc, lossy, made>>
vars == <<ops, nextId, member, covered, work, slipped, up, down,
          phase, conn, open, doc, lossy, made>>

Content(s) == UNION {o.st : o \in s}
Op == [id : Nat, st : SUBSET Update]
Call == [m : {"join"}, why : {"open", "rejoin"}] \cup [m : {"push", "snap"}, st : SUBSET Update]
Work == {NoWork} \cup [m : {"joining"}, why : {"open", "rejoin"}, seen : SUBSET Op]
                 \cup [m : {"casting"}, st : SUBSET Update]
Msg == [m : {"joined"}, why : {"open", "rejoin"}, st : SUBSET Update, long : BOOLEAN]
       \cup [m : {"update"}, st : SUBSET Update]

TypeOK ==
    /\ ops \in SUBSET Op
    /\ nextId \in Nat
    /\ member \in SUBSET Conn
    /\ covered \in [Conn -> SUBSET Nat]
    /\ work \in [Conn -> Work]
    /\ up \in [Conn -> Seq(Call)]
    /\ down \in [Conn -> Seq(Msg)]
    /\ phase \in [Client -> {"off", "retry", "rejoin", "on"}]
    /\ conn \in [Client -> 0..MaxConn]
    /\ open \in [Client -> BOOLEAN]
    /\ doc \in [Client -> SUBSET Update]
    /\ lossy \in [Client -> BOOLEAN]
    /\ made \in SUBSET Update
    /\ slipped \in [Conn -> SUBSET Update]

Init ==
    /\ ops = {} /\ nextId = 0
    /\ member = {}
    /\ covered = [k \in Conn |-> {}]
    /\ work = [k \in Conn |-> NoWork]
    /\ up = [k \in Conn |-> <<>>]
    /\ down = [k \in Conn |-> <<>>]
    /\ phase = [c \in Client |-> "off"]
    /\ conn = [c \in Client |-> 0]
    /\ open = [c \in Client |-> FALSE]
    /\ doc = [c \in Client |-> {}]
    /\ lossy = [c \in Client |-> FALSE]
    /\ made = {}
    /\ slipped = [k \in Conn |-> {}]

Current(c) == <<c, conn[c]>>
Connected(c) == phase[c] \in {"rejoin", "on"}
Live(k) == Connected(k[1]) /\ conn[k[1]] = k[2]
Send(k, call) == up' = [up EXCEPT ![k] = Append(@, call)]
-----------------------------------------------------------------------------
(* The client: VaultHubClient and the session's channel.                    *)

\* connect(): a first start, or a start by hand after automatic reconnection
\* has given up.  Only JoinVault is sent: nothing rejoins the index channels.
Start(c) ==
    /\ phase[c] = "off"
    /\ conn[c] < MaxConn
    /\ phase' = [phase EXCEPT ![c] = "on"]
    /\ conn' = [conn EXCEPT ![c] = @ + 1]
    /\ UNCHANGED <<serverVars, up, down, open, doc, lossy, made>>

\* The connection breaks: the calls without an answer are rejected, and the
\* pushes among them counted as lost; so is a push whose answer was on its way.
\* (Bound: the last connection allowed does not break.)
Drop(c) ==
    LET k == Current(c)
        pushing == \/ work[k].m = "casting"
                   \/ \E i \in DOMAIN up[k] : up[k][i].m = "push"
    IN  /\ Connected(c)
        /\ c \notin Stable /\ conn[c] < MaxConn
        /\ phase' = [phase EXCEPT ![c] = "retry"]
        /\ \E l \in BOOLEAN : /\ lossy[c] \/ pushing => l
                              /\ lossy' = [lossy EXCEPT ![c] = l]
        /\ down' = [down EXCEPT ![k] = <<>>]
        /\ UNCHANGED <<serverVars, up, conn, open, doc, made>>

\* Mutant of Reconnect: the onreconnected handler is not installed.
ReconnectUnnoticed(c) ==
    /\ phase[c] = "retry" /\ conn[c] < MaxConn
    /\ phase' = [phase EXCEPT ![c] = "on"]
    /\ conn' = [conn EXCEPT ![c] = @ + 1]
    /\ UNCHANGED <<serverVars, up, down, open, doc, lossy, made>>

\* withAutomaticReconnect succeeds: a new connection, in no group yet.
Reconnect(c) ==
    /\ phase[c] = "retry" /\ conn[c] < MaxConn
    /\ phase' = [phase EXCEPT ![c] = "rejoin"]
    /\ conn' = [conn EXCEPT ![c] = @ + 1]
    /\ UNCHANGED <<serverVars, up, down, open, doc, lossy, made>>

\* ... or stops trying (four attempts): onclose.
GiveUp(c) ==
    /\ RetriesRunOut
    /\ phase[c] = "retry"
    /\ phase' = [phase EXCEPT ![c] = "off"]
    /\ UNCHANGED <<serverVars, up, down, conn, open, doc, lossy, made>>

\* Mutant of RejoinIndexes: only the vault is joined again.
RejoinVaultOnly(c) ==
    /\ phase[c] = "rejoin"
    /\ phase' = [phase EXCEPT ![c] = "on"]
    /\ UNCHANGED <<serverVars, up, down, conn, open, doc, lossy, made>>

\* rejoinIndexes(), once JoinVault has answered: the channels with a
\* subscriber are joined again.  Without one there is nothing to rejoin.
RejoinIndexes(c) ==
    /\ phase[c] = "rejoin"
    /\ phase' = [phase EXCEPT ![c] = "on"]
    /\ IF open[c] THEN Send(Current(c), [m |-> "join", why |-> "rejoin"])
                  ELSE UNCHANGED up
    /\ UNCHANGED <<serverVars, down, conn, open, doc, lossy, made>>

\* openIndex(): subscribe, then joinIndex, which answers [] when the hub is
\* not connected.
OpenIndex(c) ==
    /\ ~open[c]
    /\ phase[c] = "rejoin" => OpenDuringRejoin
    /\ phase[c] = "off" => RetriesRunOut
    /\ open' = [open EXCEPT ![c] = TRUE]
    /\ IF Connected(c) THEN Send(Current(c), [m |-> "join", why |-> "open"])
                       ELSE UNCHANGED up
    /\ UNCHANGED <<serverVars, down, phase, conn, doc, lossy, made>>

\* Mutant of Edit: a push that cannot be sent is not counted.
EditUncounted(c, u) ==
    /\ open[c]
    /\ u \notin made
    /\ made' = made \cup {u}
    /\ doc' = [doc EXCEPT ![c] = @ \cup {u}]
    /\ IF Connected(c) THEN Send(Current(c), [m |-> "push", st |-> {u}]) ELSE UNCHANGED up
    /\ UNCHANGED <<serverVars, down, phase, conn, open, lossy>>

\* A user's edit: the Y.Doc's "update" event pushes it at once, or counts a
\* lost push when the hub is not connected.
Edit(c, u) ==
    /\ open[c]
    /\ u \notin made
    /\ made' = made \cup {u}
    /\ doc' = [doc EXCEPT ![c] = @ \cup {u}]
    /\ IF Connected(c)
       THEN Send(Current(c), [m |-> "push", st |-> {u}]) /\ UNCHANGED lossy
       ELSE lossy' = [lossy EXCEPT ![c] = TRUE] /\ UNCHANGED up
    /\ UNCHANGED <<serverVars, down, phase, conn, open>>

\* The hub client receives the next message of its connection.
\*  - "update" (IndexUpdateReceived): merged into the channel;
\*  - the answer to the first JoinIndex: merged, and a journal longer than the
\*    threshold is replaced by the channel's state (snapshotIndex);
\*  - the answer to a rejoin: merged, then the reconnection callbacks run, and
\*    flush() pushes the whole state if pushes were lost.
Receive(c) ==
    LET k == Current(c)
        msg == Head(down[k])
        merged == doc[c] \cup msg.st
    IN  /\ Connected(c)
        /\ down[k] # <<>>
        /\ down' = [down EXCEPT ![k] = Tail(@)]
        /\ doc' = [doc EXCEPT ![c] = merged]
        /\ \/ /\ msg.m = "joined" /\ msg.why = "open" /\ msg.long
              /\ Send(k, [m |-> "snap", st |-> merged])
              /\ UNCHANGED lossy
           \/ /\ msg.m = "joined" /\ msg.why = "rejoin" /\ lossy[c]
              /\ Send(k, [m |-> "push", st |-> merged])
              /\ lossy' = [lossy EXCEPT ![c] = FALSE]
           \/ /\ \/ msg.m = "update"
                 \/ msg.m = "joined" /\ msg.why = "open" /\ ~msg.long
                 \/ msg.m = "joined" /\ msg.why = "rejoin" /\ ~lossy[c]
              /\ UNCHANGED <<up, lossy>>
        /\ UNCHANGED <<serverVars, phase, conn, open, made>>

\* dispose(): the session stops its connection and destroys the Y.Doc.
Close(c) ==
    /\ open[c] /\ c \notin Stable
    /\ phase' = [phase EXCEPT ![c] = "off"]
    /\ open' = [open EXCEPT ![c] = FALSE]
    /\ doc' = [doc EXCEPT ![c] = {}]
    /\ lossy' = [lossy EXCEPT ![c] = FALSE]
    /\ down' = [down EXCEPT ![Current(c)] = <<>>]
    /\ UNCHANGED <<serverVars, up, conn, made>>
-----------------------------------------------------------------------------
(* The server: VaultHub and EfCrdtOpRepository.                             *)

Starts(k, m) == work[k] = NoWork /\ up[k] # <<>> /\ Head(up[k]).m = m
Pop(k) == up' = [up EXCEPT ![k] = Tail(@)]

\* JoinIndex, first half: the journal is read (JoinIndexQuery).
JoinRead(k) ==
    /\ Starts(k, "join")
    /\ Pop(k)
    /\ work' = [work EXCEPT ![k] = [m |-> "joining", why |-> Head(up[k]).why, seen |-> ops]]
    /\ UNCHANGED <<ops, nextId, member, covered, down, slipped, clientVars>>

\* Mutant of JoinAnswer: the ops are sent, not the updates they carry.
JoinAnswerSendsOps(k) ==
    LET seen == work[k].seen
    IN  /\ work[k].m = "joining"
        /\ work' = [work EXCEPT ![k] = NoWork]
        /\ member' = member \cup {k}
        /\ covered' = [covered EXCEPT ![k] = {o.id : o \in seen}]
        /\ down' = [down EXCEPT ![k] = Append(@,
                      [m |-> "joined", why |-> work[k].why, st |-> seen,
                       long |-> Cardinality(seen) > CompactThreshold])]
        /\ UNCHANGED <<ops, nextId, up, slipped, clientVars>>

\* JoinIndex, second half: enter the group, remember the op ids, answer.
JoinAnswer(k) ==
    LET seen == work[k].seen
    IN  /\ work[k].m = "joining"
        /\ work' = [work EXCEPT ![k] = NoWork]
        /\ member' = member \cup {k}
        /\ covered' = [covered EXCEPT ![k] = {o.id : o \in seen}]
        /\ down' = IF Live(k)
                   THEN [down EXCEPT ![k] = Append(@,
                           [m |-> "joined", why |-> work[k].why, st |-> Content(seen),
                            long |-> Cardinality(seen) > CompactThreshold])]
                   ELSE down
        /\ UNCHANGED <<ops, nextId, up, slipped, clientVars>>

\* Mutant of PushAppend: the hub relays without storing.
PushRelayOnly(k) ==
    /\ Starts(k, "push")
    /\ Pop(k)
    /\ work' = [work EXCEPT ![k] = [m |-> "casting", st |-> Head(up[k]).st]]
    /\ UNCHANGED <<ops, nextId, member, covered, down, slipped, clientVars>>

\* PushIndexUpdate, first half: the update is appended to the journal.
PushAppend(k) ==
    /\ Starts(k, "push")
    /\ Pop(k)
    /\ ops' = ops \cup {[id |-> nextId, st |-> Head(up[k]).st]}
    /\ nextId' = nextId + 1
    /\ work' = [work EXCEPT ![k] = [m |-> "casting", st |-> Head(up[k]).st]]
    /\ UNCHANGED <<member, covered, down, slipped, clientVars>>

\* PushIndexUpdate, second half: the others in the group are told.
PushCast(k) ==
    /\ work[k].m = "casting"
    /\ work' = [work EXCEPT ![k] = NoWork]
    /\ slipped' = [j \in Conn |-> IF work[j].m = "joining"
                                  THEN slipped[j] \cup (work[k].st \ Content(work[j].seen))
                                  ELSE slipped[j]]
    /\ down' = [j \in Conn |-> IF j \in member \ {k} /\ Live(j)
                               THEN Append(down[j], [m |-> "update", st |-> work[k].st])
                               ELSE down[j]]
    /\ UNCHANGED <<ops, nextId, member, covered, up, clientVars>>

\* Mutant of Replace: every op of the resource is deleted, as CompactAsync does.
ReplaceEverything(ids, st) ==
    /\ ops' = {[id |-> nextId, st |-> st]}
    /\ nextId' = nextId + 1

\* ReplaceAsync: the ops named are deleted; the snapshot is added only if one
\* of them was still there.
Replace(ids, st) ==
    LET hit == {o \in ops : o.id \in ids}
    IN  IF hit = {} THEN UNCHANGED <<ops, nextId>>
        ELSE /\ ops' = (ops \ hit) \cup {[id |-> nextId, st |-> st]}
             /\ nextId' = nextId + 1

\* SnapshotIndex: the remembered ids are taken and forgotten.
Snapshot(k) ==
    /\ Starts(k, "snap")
    /\ Pop(k)
    /\ covered' = [covered EXCEPT ![k] = {}]
    /\ Replace(covered[k], Head(up[k]).st)
    /\ UNCHANGED <<member, work, down, slipped, clientVars>>

\* The server notices that a connection is gone: its queued calls are
\* dropped, it leaves the group and its Context dies.
Hangup(k) ==
    /\ ~Live(k)
    /\ k \in member \/ up[k] # <<>> \/ covered[k] # {}
    /\ work[k] = NoWork
    /\ up' = [up EXCEPT ![k] = <<>>]
    /\ member' = member \ {k}
    /\ covered' = [covered EXCEPT ![k] = {}]
    /\ UNCHANGED <<ops, nextId, work, down, slipped, clientVars>>

ClientNext == \E c \in Client :
    \/ Start(c) \/ Drop(c) \/ Reconnect(c) \/ GiveUp(c) \/ RejoinIndexes(c)
    \/ OpenIndex(c) \/ Receive(c) \/ Close(c)
    \/ \E u \in Update : Edit(c, u)

ServerNext == \E k \in Conn :
    \/ JoinRead(k) \/ JoinAnswer(k) \/ PushAppend(k) \/ PushCast(k)
    \/ Snapshot(k) \/ Hangup(k)

Next == ClientNext \/ ServerNext
Spec == Init /\ [][Next]_vars

\* A connection's dispatcher keeps working, SignalR keeps delivering on a
\* connection that is up, and retries end by succeeding (RetriesRunOut is
\* FALSE where this specification is checked).
Fairness ==
    /\ \A k \in Conn : WF_vars(JoinRead(k) \/ JoinAnswer(k) \/ PushAppend(k)
                               \/ PushCast(k) \/ Snapshot(k))
    /\ \A c \in Client : WF_vars(Receive(c)) /\ WF_vars(Reconnect(c)) /\ WF_vars(RejoinIndexes(c))
FairSpec == Spec /\ Fairness
-----------------------------------------------------------------------------
(* Properties.                                                              *)

\* SnapshotIndexCommand.cs: replacing the ops a client has received by its
\* state "ne perd rien".  Whatever the journal once carried it carries for
\* ever, though compaction deletes ops while others append.
JournalKeeps == [][Content(ops) \subseteq Content(ops')]_vars

\* Nothing of client c is on its way, in either direction.
Quiet(c) == LET k == Current(c)
            IN  phase[c] = "on" /\ work[k] = NoWork /\ up[k] = <<>> /\ down[k] = <<>>

\* rejoinIndexes: after a reconnection every open channel is in its group
\* again, or updates of the others would never arrive.
QuietMeansJoined == \A c \in Client : Quiet(c) /\ open[c] => Current(c) \in member

\* Lost pushes are made up for at the reconnection: what a client at rest
\* shows is in the journal, where a client arriving later will find it.
QuietMeansSaved == \A c \in Client : Quiet(c) => doc[c] \subseteq Content(ops)

Casting == \E k \in Conn : work[k].m = "casting"

\* A client at rest shows everything the journal holds, except the broadcasts
\* sent between its JoinIndex's read of the journal and its entry in the group.
QuietMissesOnlySlipped ==
    \A c \in Client : Quiet(c) /\ open[c] /\ ~Casting =>
        Content(ops) \ doc[c] \subseteq slipped[Current(c)]

\* Whatever has been lost, a client that has come to rest after a reconnection has
\* nothing left to make up for: it is joined, what it shows is stored, and it misses
\* only what slipped by its join (onreconnected: rejoinIndexes, then flush).
QuietMeansSettled == QuietMeansJoined /\ QuietMeansSaved /\ QuietMissesOnlySlipped

\* An edit shown is in the end an edit saved, through lost connections and
\* lost pushes, unless its client closes the channel first.
EditsGetSaved == \A c \in Client, u \in Update :
    u \in doc[c] ~> u \in Content(ops) \/ ~open[c]

\* What the journal holds in the end reaches every open channel, but for a
\* broadcast that slipped by its JoinIndex.
UpdatesGetShown == \A c \in Client, u \in Update :
    u \in Content(ops) /\ open[c] ~>
        u \in doc[c] \/ (conn[c] > 0 /\ u \in slipped[Current(c)]) \/ ~open[c]

\* The channel implements the grow-only store of UpdateStore.
Store == INSTANCE UpdateStore WITH Seed <- {}, stored <- Content(ops), replica <- doc
ImplementsStore == Store!Spec
===============================================================================
