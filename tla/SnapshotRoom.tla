---------------------------- MODULE SnapshotRoom ----------------------------
(***************************************************************************)
(* One document without a CRDT (a table, a drawing): its last snapshot on   *)
(* the server (DocumentRoomHub), and each client's copy of it               *)
(* (SnapshotDocuments over the room channel of SavoireServerVaultSession    *)
(* over DocumentRoomClient).  The last writer wins; the edit lock           *)
(* (DocumentLocks) is what keeps writers apart, and nothing here does.      *)
(*                                                                         *)
(* A client has one connection, on which its calls are served in order.     *)
(* It opens the document several times in a row; each opening asks for a    *)
(* room and gets a handle, its own or one that is in the client's map.      *)
(* An opening is a number, a handle is the opening that made it.            *)
(***************************************************************************)
EXTENDS Naturals, Sequences, FiniteSets

CONSTANTS Client,
          None,      \* no snapshot
          Pending,   \* a promise that has not resolved
          MaxOpen,   \* bound: openings of a client; only one opens more than once
          MaxWrite,  \* bound: writes
          MaxDrop,   \* bound: connections of a client that break; only one's do
          Overlap    \* {"reopen"}: the document may be opened again while an
                     \* opening that was closed still waits for its room

ASSUME RoomBounds == MaxOpen \in Nat \ {0} /\ MaxWrite \in Nat /\ MaxDrop \in Nat
ASSUME RoomOverlap == Overlap \subseteq {"reopen"}

Write == 1..MaxWrite
Snap == Write \cup {None}
Opening == 1..MaxOpen
Conn == Client \X (1..MaxDrop + 1)
Idle == [m |-> "idle"]

VARIABLES
    stored,   \* the snapshot in the room's journal
    group,    \* connections in the room's group
    work,     \* how far a connection's handler has come
    up,       \* calls sent on a connection and not started
    down,     \* messages sent down a connection and not received
    conn,     \* number of a client's connection
    link,     \* "off", "up", or "lost" until the automatic reconnection
    opens,    \* openings of a client so far
    live,     \* the opening that is open, or 0
    rooms,    \* the handle in the client's map of rooms, or 0
    handle,   \* the handle of each opening, or 0
    shut,     \* handles closed
    initial,  \* initialSnapshot of each handle
    joined,   \* openings whose room has come
    failed,   \* openings whose room never will
    dying,    \* openings closed while they waited for their room
    waiting,  \* writes that wait for the room
    current,  \* what the document shows
    touched,  \* a write, own or other, has come
    ready,    \* load() has resolved
    writes,   \* writes made so far
    base,     \* history: what each writer saw when it wrote
    settled,  \* history: writes stored, whose caller was told of the failure, or made
              \* while the connection was lost
    blind,    \* history: a write stored replaced one its writer had not seen
    missed,   \* history: writes that slipped by a client's join
    late,     \* history: writes not sent to the group yet when a join or a write came after
    held      \* history: handles joined on the connection that still holds

hubVars == <<stored, group, work, blind, late>>
roomVars == <<rooms, handle, shut, initial, joined, failed, dying, held>>
docVars == <<opens, live, current, touched, ready, missed>>
writeVars == <<waiting, writes, base>>
vars == <<stored, group, work, up, down, conn, link, opens, live, rooms, handle, shut,
          initial, joined, failed, dying, waiting, current, touched, ready, writes,
          base, settled, blind, missed, late, held>>

Call == [m : {"join"}, h : Opening] \cup [m : {"push"}, v : Write] \cup [m : {"leave"}]
Work == {Idle} \cup [m : {"read", "entered"}, h : Opening, snap : Snap] \cup [m : {"stored"}, v : Write]
Msg == [m : {"roomJoined"}, snap : Snap] \cup [m : {"done"}, h : Opening] \cup [m : {"snapshot"}, v : Write]

TypeOK ==
    /\ stored \in Snap /\ group \subseteq Conn /\ work \in [Conn -> Work]
    /\ \A k \in Conn : \A i \in 1..Len(up[k]) : up[k][i] \in Call
    /\ \A k \in Conn : \A i \in 1..Len(down[k]) : down[k][i] \in Msg
    /\ conn \in [Client -> 1..MaxDrop + 1] /\ link \in [Client -> {"off", "up", "lost"}]
    /\ opens \in [Client -> 0..MaxOpen] /\ live \in [Client -> 0..MaxOpen]
    /\ rooms \in [Client -> 0..MaxOpen] /\ handle \in [Client -> [Opening -> 0..MaxOpen]]
    /\ \A p \in Client : UNION {shut[p], joined[p], failed[p], dying[p]} \subseteq Opening
    /\ initial \in [Client -> [Opening -> Snap \cup {Pending}]]
    /\ \A p \in Client : \A i \in 1..Len(waiting[p]) : waiting[p][i] \in Write
    /\ current \in [Client -> Snap] /\ touched \in [Client -> BOOLEAN] /\ ready \in [Client -> BOOLEAN]
    /\ writes \in 0..MaxWrite /\ base \in [Write -> Snap]
    /\ settled \subseteq Write /\ blind \in BOOLEAN
    /\ missed \in [Client -> SUBSET Write]
    /\ late \subseteq Write /\ held \in [Client -> SUBSET Opening]
    /\ \A p \in Client : rooms[p] \notin shut[p]

Init ==
    /\ stored = None /\ group = {} /\ work = [k \in Conn |-> Idle]
    /\ up = [k \in Conn |-> <<>>] /\ down = [k \in Conn |-> <<>>]
    /\ conn = [p \in Client |-> 1] /\ link = [p \in Client |-> "off"]
    /\ opens = [p \in Client |-> 0] /\ live = [p \in Client |-> 0]
    /\ rooms = [p \in Client |-> 0] /\ handle = [p \in Client |-> [n \in Opening |-> 0]]
    /\ shut = [p \in Client |-> {}] /\ initial = [p \in Client |-> [n \in Opening |-> Pending]]
    /\ joined = [p \in Client |-> {}] /\ failed = [p \in Client |-> {}] /\ dying = [p \in Client |-> {}]
    /\ waiting = [p \in Client |-> <<>>]
    /\ current = [p \in Client |-> None] /\ touched = [p \in Client |-> FALSE]
    /\ ready = [p \in Client |-> FALSE]
    /\ writes = 0 /\ base = [v \in Write |-> None]
    /\ settled = {} /\ blind = FALSE
    /\ missed = [p \in Client |-> {}] /\ late = {}
    /\ held = [p \in Client |-> {}]

Current(p) == <<p, conn[p]>>
Connected(p) == link[p] = "up"
Here(k) == k = Current(k[1]) /\ Connected(k[1])

(***************************************************************************)
(* The hub.                                                                 *)
(***************************************************************************)
clientVars == <<conn, link, roomVars, opens, live, current, touched, ready, writeVars>>

Sent(ks, msg) == [k \in Conn |-> IF k \in ks /\ Here(k) THEN Append(down[k], msg) ELSE down[k]]

\* Snapshots stored and not sent to the group yet.
Unsent == {work[k].v : k \in {j \in Conn : work[j].m = "stored"}}

Starts(k, m) == work[k] = Idle /\ up[k] # <<>> /\ Head(up[k]).m = m
Pop(k) == up' = [up EXCEPT ![k] = Tail(@)]

\* JoinRoom: the snapshot is read, ...
JoinRead(k) ==
    /\ Starts(k, "join") /\ Pop(k)
    /\ work' = [work EXCEPT ![k] = [m |-> "read", h |-> Head(up[k]).h, snap |-> stored]]
    /\ late' = late \cup Unsent
    /\ UNCHANGED <<stored, group, down, blind, settled, missed, clientVars>>

\* ... then the connection enters the group, ...
JoinEnter(k) ==
    /\ work[k].m = "read"
    /\ group' = group \cup {k}
    /\ work' = [work EXCEPT ![k] = [@ EXCEPT !.m = "entered"]]
    /\ UNCHANGED <<stored, up, down, blind, settled, missed, late, clientVars>>

\* ... then the snapshot is sent, and the call is answered.
JoinAnswer(k) ==
    /\ work[k].m = "entered"
    /\ down' = [down EXCEPT ![k] = IF Here(k) THEN @ \o <<[m |-> "roomJoined", snap |-> work[k].snap],
                                                         [m |-> "done", h |-> work[k].h]>> ELSE @]
    /\ work' = [work EXCEPT ![k] = Idle]
    /\ UNCHANGED <<stored, group, up, blind, settled, missed, late, clientVars>>

\* PushSnapshot: the snapshot replaces the one stored, ...
PushStore(k) ==
    /\ Starts(k, "push") /\ Pop(k)
    /\ LET v == Head(up[k]).v IN
        /\ stored' = v
        /\ blind' = (blind \/ base[v] # stored) /\ late' = late \cup Unsent
        /\ settled' = settled \cup {v}
        /\ work' = [work EXCEPT ![k] = [m |-> "stored", v |-> v]]
    /\ UNCHANGED <<group, down, missed, clientVars>>

\* ... then it is sent to the others of the group.
PushCast(k) ==
    /\ work[k].m = "stored"
    /\ LET v == work[k].v IN
        /\ down' = Sent(group \ {k}, [m |-> "snapshot", v |-> v])
        /\ missed' = [p \in Client |-> IF Current(p) # k /\ work[Current(p)].m = "read"
                                       THEN missed[p] \cup {v} ELSE missed[p]]
    /\ work' = [work EXCEPT ![k] = Idle]
    /\ UNCHANGED <<stored, group, up, blind, settled, late, clientVars>>

\* LeaveRoom.
Leave(k) ==
    /\ Starts(k, "leave") /\ Pop(k)
    /\ group' = group \ {k}
    /\ UNCHANGED <<stored, work, down, blind, settled, missed, late, clientVars>>

\* The hub learns that a connection has ended; calls not started are gone.
Hangup(k) ==
    /\ ~Here(k) /\ work[k] = Idle /\ (k \in group \/ up[k] # <<>>)
    /\ group' = group \ {k}
    /\ up' = [up EXCEPT ![k] = <<>>]
    /\ UNCHANGED <<stored, work, down, blind, settled, missed, late, clientVars>>

Hub(k) == JoinRead(k) \/ JoinEnter(k) \/ JoinAnswer(k) \/ PushStore(k) \/ PushCast(k) \/ Leave(k) \/ Hangup(k)

(***************************************************************************)
(* A client.                                                                *)
(***************************************************************************)
\* openRoom: a handle of the map is taken as it is; otherwise one is made, entered
\* in the map and joined, which fails at once on a connection that is lost.
Open(p) ==
    LET n == opens[p] + 1
        k == Current(p)
        shared == rooms[p] # 0
        lost == link[p] = "lost" /\ ~shared IN
    /\ live[p] = 0 /\ opens[p] < MaxOpen
    /\ opens[p] > 0 => \A q \in Client \ {p} : opens[q] < 2
    /\ "reopen" \in Overlap \/ dying[p] \subseteq joined[p] \cup failed[p]
    /\ opens' = [opens EXCEPT ![p] = n] /\ live' = [live EXCEPT ![p] = n]
    /\ link' = [link EXCEPT ![p] = IF @ = "off" THEN "up" ELSE @]
    /\ handle' = [handle EXCEPT ![p][n] = IF shared THEN rooms[p] ELSE IF lost THEN 0 ELSE n]
    /\ rooms' = [rooms EXCEPT ![p] = handle'[p][n]]
    /\ joined' = [joined EXCEPT ![p] = IF shared THEN @ \cup {n} ELSE @]
    /\ failed' = [failed EXCEPT ![p] = IF lost THEN @ \cup {n} ELSE @]
    /\ ready' = [ready EXCEPT ![p] = lost \/ (shared /\ initial[p][rooms[p]] # Pending)]
    /\ current' = [current EXCEPT ![p] = IF ready'[p] /\ shared THEN initial[p][rooms[p]] ELSE None]
    /\ up' = IF shared \/ lost THEN up ELSE [up EXCEPT ![k] = Append(@, [m |-> "join", h |-> n])]
    /\ UNCHANGED <<hubVars, down, conn, shut, initial, dying, held, touched, missed, settled, writeVars>>

\* pushSnapshot on handle h: nothing is sent, or said, on a closed handle or a lost
\* connection.
Pushed(p, h, vs) ==
    IF h \in shut[p] \/ ~Connected(p) THEN up[Current(p)]
    ELSE up[Current(p)] \o [i \in 1..Len(vs) |-> [m |-> "push", v |-> vs[i]]]

\* The document is written: shown at once, pushed when the room has come.
WriteDoc(p) ==
    LET n == live[p]
        v == writes + 1 IN
    /\ n # 0 /\ writes < MaxWrite
    /\ writes' = v
    /\ base' = [base EXCEPT ![v] = current[p]]
    /\ current' = [current EXCEPT ![p] = v] /\ touched' = [touched EXCEPT ![p] = TRUE]
    /\ waiting' = IF n \in joined[p] \cup failed[p] THEN waiting ELSE [waiting EXCEPT ![p] = Append(@, v)]
    /\ settled' = IF n \in failed[p] \/ (n \in joined[p] /\ ~Connected(p)) THEN settled \cup {v} ELSE settled
    /\ up' = IF n \in joined[p] THEN [up EXCEPT ![Current(p)] = Pushed(p, handle[p][n], <<v>>)] ELSE up
    /\ UNCHANGED <<hubVars, down, conn, link, opens, live, ready, missed, roomVars>>

\* Mutant of CloseHandle: the handle stays in the map until the hub has answered.
CloseLeavesEntry(p, h, calls) ==
    /\ shut' = [shut EXCEPT ![p] = @ \cup {h}]
    /\ UNCHANGED rooms
    /\ up' = [up EXCEPT ![Current(p)] = IF h \in shut[p] \/ ~Connected(p) THEN calls
                                        ELSE Append(calls, [m |-> "leave"])]

\* A handle is closed: it leaves the map, what waits for its initial snapshot gets
\* none, and the hub is told (calls are those sent before).
CloseHandle(p, h, calls) ==
    /\ shut' = [shut EXCEPT ![p] = @ \cup {h}]
    /\ rooms' = [rooms EXCEPT ![p] = IF @ = h THEN 0 ELSE @]
    /\ up' = [up EXCEPT ![Current(p)] = IF h \in shut[p] \/ ~Connected(p) THEN calls
                                        ELSE Append(calls, [m |-> "leave"])]

\* The last use of the document ends.  A room that has not come yet is closed when
\* it comes.
Close(p) ==
    LET n == live[p] IN
    /\ n # 0
    /\ live' = [live EXCEPT ![p] = 0]
    /\ current' = [current EXCEPT ![p] = None] /\ touched' = [touched EXCEPT ![p] = FALSE]
    /\ ready' = [ready EXCEPT ![p] = FALSE] /\ missed' = [missed EXCEPT ![p] = {}]
    /\ IF n \in joined[p]
       THEN /\ CloseHandle(p, handle[p][n], up[Current(p)])
            /\ initial' = [initial EXCEPT ![p][handle[p][n]] = None]
            /\ UNCHANGED dying
       ELSE dying' = [dying EXCEPT ![p] = @ \cup {n}] /\ UNCHANGED <<shut, rooms, up, initial>>
    /\ UNCHANGED <<hubVars, down, conn, link, opens, handle, joined, failed, held, settled, writeVars>>

\* Mutant of Loaded: the initial snapshot replaces what was written meanwhile.
LoadedOver(p, s) ==
    /\ ready' = [ready EXCEPT ![p] = TRUE]
    /\ current' = [current EXCEPT ![p] = IF ready[p] THEN @ ELSE s]

\* What load() gives when the initial snapshot s comes to the opening that is live.
Loaded(p, s) ==
    /\ ready' = [ready EXCEPT ![p] = TRUE]
    /\ current' = [current EXCEPT ![p] = IF touched[p] \/ ready[p] THEN @ ELSE s]

\* RoomJoined goes to the handle of the map; only the first counts.
RoomJoined(p, s) ==
    LET h == rooms[p]
        first == h # 0 /\ initial[p][h] = Pending IN
    /\ initial' = IF first THEN [initial EXCEPT ![p][h] = s] ELSE initial
    /\ IF first /\ live[p] \in joined[p] /\ handle[p][live[p]] = h THEN Loaded(p, s) ELSE UNCHANGED <<ready, current>>
    /\ UNCHANGED <<up, rooms, shut, joined, held, touched, missed, waiting>>

\* Mutant of JoinDone: a room that comes after its document was closed stays open.
JoinDoneKeeps(p, h) ==
    LET s == IF initial[p][h] = Pending THEN None ELSE initial[p][h]
        calls == Pushed(p, h, waiting[p]) IN
    /\ initial' = [initial EXCEPT ![p][h] = IF h \in dying[p] THEN None ELSE s]
    /\ joined' = [joined EXCEPT ![p] = @ \cup {h}]
    /\ held' = [held EXCEPT ![p] = @ \cup {h}]
    /\ waiting' = [waiting EXCEPT ![p] = <<>>]
    /\ up' = [up EXCEPT ![Current(p)] = calls] /\ UNCHANGED <<shut, rooms>>
    /\ IF live[p] = h \/ (live[p] # 0 /\ handle[p][live[p]] = h /\ ~ready[p])
       THEN Loaded(p, s) ELSE UNCHANGED <<ready, current>>
    /\ UNCHANGED <<touched, missed>>

\* JoinRoom is answered: the room has come for the opening that asked.  What waited
\* is pushed; then the document listens, or closes the handle if it was closed.
JoinDone(p, h) ==
    LET s == IF initial[p][h] = Pending THEN None ELSE initial[p][h]
        calls == Pushed(p, h, waiting[p]) IN
    /\ initial' = [initial EXCEPT ![p][h] = IF h \in dying[p] THEN None ELSE s]
    /\ joined' = [joined EXCEPT ![p] = @ \cup {h}]
    /\ held' = [held EXCEPT ![p] = @ \cup {h}]
    /\ waiting' = [waiting EXCEPT ![p] = <<>>]
    /\ IF h \in dying[p] THEN CloseHandle(p, h, calls)
       ELSE up' = [up EXCEPT ![Current(p)] = calls] /\ UNCHANGED <<shut, rooms>>
    /\ IF live[p] = h \/ (live[p] # 0 /\ handle[p][live[p]] = h /\ ~ready[p])
       THEN Loaded(p, s) ELSE UNCHANGED <<ready, current>>
    /\ UNCHANGED <<touched, missed>>

\* SnapshotReceived goes to the handle of the map, and from there to whoever
\* listens: an opening whose room has come.
SnapshotReceived(p, v) ==
    LET heard == live[p] \in joined[p] /\ handle[p][live[p]] = rooms[p] IN
    /\ current' = IF heard THEN [current EXCEPT ![p] = v] ELSE current
    /\ touched' = IF heard THEN [touched EXCEPT ![p] = TRUE] ELSE touched
    /\ missed' = IF heard THEN missed ELSE [missed EXCEPT ![p] = @ \cup {v}]
    /\ UNCHANGED <<up, rooms, shut, joined, held, initial, ready, waiting>>

\* The next message of the connection arrives.
Receive(p) ==
    LET k == Current(p) IN
    /\ Connected(p) /\ down[k] # <<>>
    /\ down' = [down EXCEPT ![k] = Tail(@)]
    /\ LET msg == Head(down[k]) IN
        \/ msg.m = "roomJoined" /\ RoomJoined(p, msg.snap)
        \/ msg.m = "done" /\ JoinDone(p, msg.h)
        \/ msg.m = "snapshot" /\ SnapshotReceived(p, msg.v)
    /\ UNCHANGED <<hubVars, conn, link, opens, live, handle, failed, dying, writes, base, settled>>

\* Pushes whose answer can no longer come.
Unanswered(k) ==
    {up[k][i].v : i \in {j \in 1..Len(up[k]) : up[k][j].m = "push"}}
        \cup (IF work[k].m = "stored" THEN {work[k].v} ELSE {})

\* Mutant of Drop: a room that never comes leaves load() waiting.
DropHangs(p) ==
    LET k == Current(p)
        lost == {n \in Opening : handle[p][n] = n /\ n \notin joined[p] \cup failed[p]} IN
    /\ Connected(p) /\ conn[p] <= MaxDrop
    /\ \A q \in Client \ {p} : conn[q] = 1 /\ link[q] # "lost"
    /\ link' = [link EXCEPT ![p] = "lost"]
    /\ down' = [down EXCEPT ![k] = <<>>]
    /\ held' = [held EXCEPT ![p] = {}]
    /\ failed' = [failed EXCEPT ![p] = @ \cup lost]
    /\ rooms' = [rooms EXCEPT ![p] = IF @ \in lost THEN 0 ELSE @]
        /\ settled' = settled \cup Unanswered(k) \cup {waiting[p][i] : i \in 1..Len(waiting[p])}
    /\ waiting' = [waiting EXCEPT ![p] = <<>>]
    /\ UNCHANGED <<hubVars, up, conn, handle, shut, initial, joined, dying, opens, live, current, ready,
                   touched, missed, writes, base>>

\* The connection breaks: its calls fail.  A room still waited for never comes: its
\* handle leaves the map, and the document counts as never written.
Drop(p) ==
    LET k == Current(p)
        lost == {n \in Opening : handle[p][n] = n /\ n \notin joined[p] \cup failed[p]} IN
    /\ Connected(p) /\ conn[p] <= MaxDrop
    /\ \A q \in Client \ {p} : conn[q] = 1 /\ link[q] # "lost"
    /\ link' = [link EXCEPT ![p] = "lost"]
    /\ down' = [down EXCEPT ![k] = <<>>]
    /\ held' = [held EXCEPT ![p] = {}]
    /\ failed' = [failed EXCEPT ![p] = @ \cup lost]
    /\ rooms' = [rooms EXCEPT ![p] = IF @ \in lost THEN 0 ELSE @]
    /\ ready' = [ready EXCEPT ![p] = @ \/ live[p] \in lost]
    /\ settled' = settled \cup Unanswered(k) \cup {waiting[p][i] : i \in 1..Len(waiting[p])}
    /\ waiting' = [waiting EXCEPT ![p] = <<>>]
    /\ UNCHANGED <<hubVars, up, conn, handle, shut, initial, joined, dying, opens, live, current,
                   touched, missed, writes, base>>

\* Automatic reconnection; no room is joined again.
Reconnect(p) ==
    /\ link[p] = "lost"
    /\ link' = [link EXCEPT ![p] = "up"] /\ conn' = [conn EXCEPT ![p] = @ + 1]
    /\ UNCHANGED <<hubVars, up, down, roomVars, docVars, settled, writeVars>>

ClientNext(p) == Open(p) \/ WriteDoc(p) \/ Close(p) \/ Receive(p) \/ Drop(p) \/ Reconnect(p)

Next == (\E k \in Conn : Hub(k)) \/ (\E p \in Client : ClientNext(p))

Spec == Init /\ [][Next]_vars

(***************************************************************************)
(* Properties.                                                              *)
(***************************************************************************)
\* Nothing is under way.
Rest ==
    /\ \A k \in Conn : work[k] = Idle /\ up[k] = <<>> /\ down[k] = <<>> /\ (k \in group => Here(k))
    /\ \A p \in Client : link[p] # "lost"

\* The document is open on a room joined on the connection that still holds.
Steady(p) == live[p] # 0 /\ live[p] \in joined[p] /\ handle[p][live[p]] \in held[p]

\* At rest every document open on a connection that has held since its join shows
\* what is stored, provided that every write replaced what its writer had seen --
\* which the edit lock is there for -- and crossed no join on its way to the group: the
\* hub stores and sends a connection's snapshots in order, and nothing older undoes a
\* newer one (DocumentRoomHub.PushSnapshot, SharedSnapshotDocument).
SeenWritesAgree ==
    Rest /\ ~blind => \A p \in Client : Steady(p) => current[p] = stored \/ stored \in missed[p] \/ current[p] \in late

\* At rest no write is lost in silence: each has been stored, or its caller was told,
\* but for those made while the connection was lost (SnapshotDocument.write, the room
\* that is waited for, pushSnapshot).
WritesStored == Rest => \A v \in 1..writes : v \in settled

\* At rest a document that is open has been loaded (SharedSnapshotDocument.load, a
\* join that fails, a connection that breaks during it).
RestMeansLoaded == Rest => \A p \in Client : live[p] # 0 => ready[p]

\* Whatever breaks, closes or crosses, nobody waits for a room that never comes: the
\* writes that wait for it are settled and the documents that wait for it are loaded.
NothingHangs == WritesStored /\ RestMeansLoaded

\* At rest the group holds the connection of every document open since it was joined,
\* and of nobody who has closed it: leaving and joining again in a row end well
\* (LeaveRoom, JoinRoom, a room closed before it came).
MembersMatch == Rest => \A p \in Client : Current(p) \in group <=> Steady(p)
=============================================================================
