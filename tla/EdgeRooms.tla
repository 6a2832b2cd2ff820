------------------------------ MODULE EdgeRooms ------------------------------
(***************************************************************************)
(* The peers of one edgesync vault, and the hub that introduces them.       *)
(*                                                                         *)
(* EdgeSyncHub keeps a registry of rooms (who is present), a claim (which   *)
(* connection may make the vault's first key) and forwards frames between   *)
(* two members.  A peer opens a session (EdgesyncVaultSession.open): it     *)
(* fetches the keys its account has in escrow, joins the room, claims the   *)
(* vault if it has no key, greets the peers it was told of, and is given    *)
(* the key by any of them that holds one (the edgesync protocol, external). *)
(*                                                                         *)
(* Handlers of two connections interleave at every shared dictionary they   *)
(* touch; those of one connection run one at a time.  What the hub sends    *)
(* down a connection arrives in order or is lost with it.  Frames between   *)
(* peers go over the relay or over a direct data channel                    *)
(* (EdgesyncWebRtcTransport), so in no order; one that could change nothing *)
(* -- sender and receiver both hold a key, or it is on its way already --   *)
(* is left out.                                                             *)
(***************************************************************************)
EXTENDS Naturals, Sequences, FiniteSets

CONSTANTS Peer,      \* devices
          Account,   \* their accounts, each with an escrow of its own
          AccountOf, \* the account of a device
          None,      \* no connection, room, key
          MaxConn,   \* bound: connections ever made
          MaxDrop,   \* bound: connections that break, or are closed, under a session
          MaxTick    \* retries of a greeting (HELLO_RETRY_DELAYS_MS has four)

ASSUME EdgeBounds == MaxConn \in Nat \ {0} /\ MaxDrop \in Nat /\ MaxTick \in Nat
ASSUME EdgeAccounts == AccountOf \in [Peer -> Account] /\ None \notin Nat

Conn == 1..MaxConn
Room == Conn   \* a room is named by the connection whose Join made it
Key == Conn    \* a key by the connection that claimed the right to make it

VARIABLES
    who,      \* the peer of each connection made so far
    status,   \* of a connection, to the hub: "up", "cut" (its end is not noticed
              \* yet) or "gone"
    asked,    \* the call sent on a connection and not started
    work,     \* how far a connection's handler has come
    room,     \* Rooms: the vault's room, or None
    members,  \* who is in each room made
    entered,  \* VaultsByConnection: connections that have entered the vault
    group,    \* the SignalR group of the vault
    owner,    \* Owners: the connection that holds the claim, or None
    down,     \* messages sent down a connection and not received
    mail,     \* frames between peers on their way
    phase,    \* of a peer: "closed", "joining", "claiming", "open",
              \* "failed" (a transport without a session)
    conn,     \* its connection, or None
    present,  \* the peers its transport believes to be there
    key,      \* the key its session holds
    ticks,    \* retries left
    saved,    \* escrowedThisSession
    saving,   \* keys on their way to the escrow
    escrow,   \* the key each account has in escrow
    drops,    \* bound: connections that broke or were closed
    crossed,  \* history: connections whose handlers ran at the same time
    released, \* history: claims released
    late,     \* history: the key came after the last retry
    unsaved   \* history: a save of the session's key has failed

hubVars == <<room, members, entered, group, owner, released>>
clientVars == <<phase, conn, present, key, ticks, saved, saving, escrow, late, unsaved>>
vars == <<who, status, asked, work, room, members, entered, group, owner, down, mail,
          phase, conn, present, key, ticks, saved, saving, escrow, drops,
          crossed, released, late, unsaved>>

Made == 1..Len(who)
Idle == [m |-> "idle"]
Work == {Idle} \cup [m : {"read"}, room : Room, existing : SUBSET Conn]
        \cup [m : {"left"}, room : Room \cup {None}]
Msg == [m : {"up", "down"}, from : Conn] \cup [m : {"joined"}, existing : SUBSET Conn]
       \cup [m : {"claimed"}, won : BOOLEAN]
Mail == [m : {"hello", "echo"}, from : Conn, to : Conn] \cup [m : {"key"}, key : Key, to : Conn]

TypeOK ==
    /\ who \in Seq(Peer) /\ Len(who) <= MaxConn
    /\ status \in [Conn -> {"up", "cut", "gone"}]
    /\ asked \in [Conn -> {"nothing", "join", "claim"}]
    /\ work \in [Conn -> Work]
    /\ room \in Room \cup {None} /\ members \in [Room -> SUBSET Conn]
    /\ entered \subseteq Conn /\ group \subseteq Conn /\ owner \in Conn \cup {None}
    /\ down \in [Conn -> Seq(Msg)]
    /\ mail \subseteq Mail
    /\ phase \in [Peer -> {"closed", "joining", "claiming", "open", "failed"}]
    /\ conn \in [Peer -> Conn \cup {None}] /\ present \in [Peer -> SUBSET Conn]
    /\ key \in [Peer -> Key \cup {None}] /\ ticks \in [Peer -> 0..MaxTick]
    /\ saved \in [Peer -> BOOLEAN] /\ saving \in [Peer -> SUBSET Key]
    /\ escrow \in [Account -> Key \cup {None}]
    /\ drops \in 0..MaxDrop /\ crossed \subseteq SUBSET Conn /\ released \in Nat
    /\ late \in [Peer -> BOOLEAN] /\ unsaved \in [Peer -> BOOLEAN]
    /\ \A p \in Peer : phase[p] \in {"joining", "open"} \/ key[p] = None

Init ==
    /\ who = <<>> /\ status = [c \in Conn |-> "gone"]
    /\ asked = [c \in Conn |-> "nothing"] /\ work = [c \in Conn |-> Idle]
    /\ room = None /\ members = [r \in Room |-> {}]
    /\ entered = {} /\ group = {} /\ owner = None
    /\ down = [c \in Conn |-> <<>>] /\ mail = {}
    /\ phase = [p \in Peer |-> "closed"] /\ conn = [p \in Peer |-> None]
    /\ present = [p \in Peer |-> {}] /\ key = [p \in Peer |-> None]
    /\ ticks = [p \in Peer |-> 0] /\ saved = [p \in Peer |-> FALSE]
    /\ saving = [p \in Peer |-> {}] /\ escrow = [a \in Account |-> None]
    /\ drops = 0 /\ crossed = {} /\ released = 0 /\ late = [p \in Peer |-> FALSE]
    /\ unsaved = [p \in Peer |-> FALSE]

(***************************************************************************)
(* The hub.                                                                 *)
(***************************************************************************)
\* What is sent to the connections of cs; a connection that is not up loses it.
Sent(d, cs, msg) == [c \in Conn |-> IF c \in cs /\ status[c] = "up" THEN Append(d[c], msg) ELSE d[c]]

Busy == {c \in Conn : work[c] # Idle}
Crosses(c) == crossed \cup {{c, d} : d \in Busy \ {c}}

\* Join, first half: the room is found or made, and those present are listed.
JoinRead(c) ==
    /\ asked[c] = "join" /\ work[c] = Idle
    /\ LET r == IF room = None THEN c ELSE room IN
        /\ room' = r
        /\ work' = [work EXCEPT ![c] = [m |-> "read", room |-> r, existing |-> members[r] \ {c}]]
    /\ asked' = [asked EXCEPT ![c] = "nothing"]
    /\ crossed' = Crosses(c)
    /\ UNCHANGED <<who, mail, status, members, entered, group, owner, released, down, drops, clientVars>>

\* Join, second half: the connection enters the room it found and the group, whose
\* other members are told, and the call is answered.
JoinEnter(c) ==
    /\ work[c].m = "read"
    /\ members' = [members EXCEPT ![work[c].room] = @ \cup {c}]
    /\ entered' = entered \cup {c} /\ group' = group \cup {c}
    /\ down' = Sent(Sent(down, group \ {c}, [m |-> "up", from |-> c]),
                    {c}, [m |-> "joined", existing |-> work[c].existing])
    /\ work' = [work EXCEPT ![c] = Idle]
    /\ UNCHANGED <<who, mail, status, asked, room, owner, released, drops, crossed, clientVars>>

\* Whether c is in the room that the registry knows.
InRoom(c) == room # None /\ c \in members[room]

\* Mutant of ClaimOwner: whoever is alone in the room founds the vault.
ClaimAlone(c) ==
    /\ asked[c] = "claim" /\ work[c] = Idle
    /\ LET won == InRoom(c) /\ members[room] = {c} IN
        /\ owner' = IF won THEN c ELSE owner
        /\ down' = Sent(down, {c}, [m |-> "claimed", won |-> won])
    /\ asked' = [asked EXCEPT ![c] = "nothing"]
    /\ UNCHANGED <<who, mail, status, work, room, members, entered, group, released, drops, crossed, clientVars>>

\* ClaimOwner: the first member to ask, as long as nobody holds the claim.
ClaimOwner(c) ==
    /\ asked[c] = "claim" /\ work[c] = Idle
    /\ LET won == InRoom(c) /\ owner = None IN
        /\ owner' = IF won THEN c ELSE owner
        /\ down' = Sent(down, {c}, [m |-> "claimed", won |-> won])
    /\ asked' = [asked EXCEPT ![c] = "nothing"]
    /\ UNCHANGED <<who, mail, status, work, room, members, entered, group, released, drops, crossed, clientVars>>

\* OnDisconnectedAsync, first half: the connection leaves the registered room.
Disconnect(c) ==
    /\ status[c] = "cut" /\ work[c] = Idle /\ asked[c] = "nothing"
    /\ IF c \in entered
       THEN /\ members' = [r \in Room |-> IF r = room THEN members[r] \ {c} ELSE members[r]]
            /\ work' = [work EXCEPT ![c] = [m |-> "left", room |-> room]]
            /\ crossed' = Crosses(c)
            /\ UNCHANGED status
       ELSE status' = [status EXCEPT ![c] = "gone"] /\ UNCHANGED <<members, work, crossed>>
    /\ entered' = entered \ {c}
    /\ UNCHANGED <<who, mail, asked, room, group, owner, released, down, drops, clientVars>>

\* Mutant of Left: the claim is released when the room empties.
LeftWhenEmpty(c) ==
    /\ work[c].m = "left"
    /\ LET empty == work[c].room # None /\ members[work[c].room] = {}
           freed == owner # None /\ empty IN
        /\ room' = IF empty THEN None ELSE room
        /\ owner' = IF freed THEN None ELSE owner
        /\ released' = IF freed THEN released + 1 ELSE released
    /\ group' = group \ {c}
    /\ down' = Sent(down, group \ {c}, [m |-> "down", from |-> c])
    /\ work' = [work EXCEPT ![c] = Idle]
    /\ status' = [status EXCEPT ![c] = "gone"]
    /\ UNCHANGED <<who, mail, asked, members, entered, drops, crossed, clientVars>>

\* OnDisconnectedAsync, second half: if the room it left is empty, the registry
\* forgets the vault's room; the claim of the connection is released, and the
\* others are told.
Left(c) ==
    /\ work[c].m = "left"
    /\ room' = IF work[c].room # None /\ members[work[c].room] = {} THEN None ELSE room
    /\ owner' = IF owner = c THEN None ELSE owner
    /\ released' = IF owner = c THEN released + 1 ELSE released
    /\ group' = group \ {c}
    /\ down' = Sent(down, group \ {c}, [m |-> "down", from |-> c])
    /\ work' = [work EXCEPT ![c] = Idle]
    /\ status' = [status EXCEPT ![c] = "gone"]
    /\ UNCHANGED <<who, mail, asked, members, entered, drops, crossed, clientVars>>

Hub(c) == JoinRead(c) \/ JoinEnter(c) \/ ClaimOwner(c) \/ Disconnect(c) \/ Left(c)

\* Relay: frames go between two members of the registered room, else nowhere.
Relayed(from, tos) == IF InRoom(from) /\ status[from] = "up"
                      THEN {d \in tos \cap members[room] : status[d] = "up"} ELSE {}

(***************************************************************************)
(* A peer: its transport and its session.                                   *)
(***************************************************************************)
\* A connection is made (its number is the next one) and Join is called on it.
Dial(p) ==
    LET c == Len(who) + 1 IN
    /\ Len(who) < MaxConn
    /\ who' = Append(who, p)
    /\ status' = [status EXCEPT ![c] = "up"]
    /\ asked' = [asked EXCEPT ![c] = "join"]
    /\ conn' = [conn EXCEPT ![p] = c]

\* open: the account's escrow is asked for the key, then the transport connects.
Open(p) ==
    /\ phase[p] = "closed" /\ Dial(p)
    /\ phase' = [phase EXCEPT ![p] = "joining"]
    /\ key' = [key EXCEPT ![p] = escrow[AccountOf[p]]]
    /\ UNCHANGED <<work, hubVars, down, mail, present, ticks, saved, saving, escrow, unsaved, drops, crossed, late>>

\* c greets the connections of ds.
Hello(c, ds) == {[m |-> "hello", from |-> c, to |-> d] : d \in Relayed(c, ds)}

\* Frames that may still change something, given who is connected (at) and who
\* holds which key (keys).
Useful(ms, at, keys) ==
    LET live(c) == at[who[c]] = c
        holds(c) == keys[who[c]] # None IN
    {f \in ms : live(f.to) /\ IF f.m = "key" THEN ~holds(f.to)
                              ELSE live(f.from) /\ ~(holds(f.to) /\ holds(f.from))}

\* finalize: a founder makes the key and sends it to the escrow; the session
\* greets those present, and will again a few times.
Finalize(p, founder, there) ==
    LET c == conn[p] IN
    /\ phase' = [phase EXCEPT ![p] = "open"]
    /\ key' = [key EXCEPT ![p] = IF founder THEN c ELSE @]
    /\ saved' = [saved EXCEPT ![p] = founder \/ key[p] # None]
    /\ saving' = [saving EXCEPT ![p] = IF founder THEN @ \cup {c} ELSE @]
    /\ ticks' = [ticks EXCEPT ![p] = MaxTick]
    /\ late' = [late EXCEPT ![p] = FALSE]
    /\ mail' = Useful(mail \cup Hello(c, there), conn, key')

\* Mutant of Joined: a reconnection joins again and leaves the list as it is.
JoinedOnce(p, existing) ==
    LET c == conn[p]
        first == phase[p] = "joining"
        there == IF first THEN present[p] \cup existing ELSE present[p] IN
    /\ present' = [present EXCEPT ![p] = there]
    /\ IF first /\ key[p] # None
       THEN Finalize(p, FALSE, there) /\ UNCHANGED asked
       ELSE /\ phase' = [phase EXCEPT ![p] = IF first THEN "claiming" ELSE @]
            /\ asked' = [asked EXCEPT ![c] = IF first THEN "claim" ELSE @]
            /\ UNCHANGED <<mail, key, ticks, saved, saving, late>>

\* Join is answered: a peer that opens claims the vault, unless its key came from
\* the escrow; one that was there before sets its list of peers right.
Joined(p, existing) ==
    LET c == conn[p]
        there == present[p] \cup existing IN
    IF phase[p] = "joining"
    THEN /\ present' = [present EXCEPT ![p] = there]
         /\ IF key[p] # None
            THEN Finalize(p, FALSE, there) /\ UNCHANGED asked
            ELSE /\ phase' = [phase EXCEPT ![p] = "claiming"]
                 /\ asked' = [asked EXCEPT ![c] = "claim"]
                 /\ UNCHANGED <<mail, key, ticks, saved, saving, late>>
    ELSE /\ present' = [present EXCEPT ![p] = existing]
         /\ mail' = IF phase[p] = "open" THEN Useful(mail \cup Hello(c, existing \ present[p]), conn, key) ELSE mail
         /\ UNCHANGED <<phase, asked, key, ticks, saved, saving, late>>

\* A PeerUp or a PeerDown arrives.
Seen(p, msg) ==
    /\ present' = [present EXCEPT ![p] = IF msg.m = "up" THEN @ \cup {msg.from} ELSE @ \ {msg.from}]
    /\ mail' = IF msg.m = "up" /\ phase[p] = "open" THEN Useful(mail \cup Hello(conn[p], {msg.from}), conn, key) ELSE mail
    /\ UNCHANGED <<phase, asked, key, ticks, saved, saving, late>>

\* The next message of the hub arrives.
Receive(p) ==
    LET c == conn[p] IN
    /\ c # None /\ down[c] # <<>>
    /\ down' = [down EXCEPT ![c] = Tail(@)]
    /\ LET msg == Head(down[c]) IN
        \/ msg.m = "joined" /\ Joined(p, msg.existing)
        \/ msg.m = "claimed" /\ Finalize(p, msg.won, present[p]) /\ UNCHANGED <<present, asked>>
        \/ msg.m \in {"up", "down"} /\ Seen(p, msg)
    /\ UNCHANGED <<who, status, work, hubVars, conn, escrow, unsaved, drops, crossed>>

\* A frame arrives.  Without a session nobody listens; with one, who holds the key
\* gives it to whoever greets, who does not greets back, and a first key is kept.
Frame(f) ==
    LET c == f.to
        p == who[c]
        heard == conn[p] = c /\ phase[p] = "open"
        taken == heard /\ f.m = "key" /\ key[p] = None
        back == IF key[p] # None THEN [m |-> "key", key |-> key[p], to |-> f.from]
                ELSE [m |-> "echo", from |-> c, to |-> f.from]
        answers == heard /\ (f.m = "hello" \/ (f.m = "echo" /\ key[p] # None)) IN
    /\ f \in mail
    /\ key' = [key EXCEPT ![p] = IF taken THEN f.key ELSE @]
    /\ mail' = Useful((mail \ {f}) \cup (IF answers /\ Relayed(c, {f.from}) # {} THEN {back} ELSE {}), conn, key')
    /\ late' = [late EXCEPT ![p] = IF taken THEN ticks[p] = 0 ELSE @]
    /\ UNCHANGED <<who, status, asked, work, hubVars, down, phase, conn, present, ticks, saved, saving,
                   escrow, unsaved, drops, crossed>>

\* Mutant of a retry: the escrow is crossed off before there is a key.
TickCrossesOff(p) ==
    /\ phase[p] = "open" /\ ticks[p] > 0
    /\ ticks' = [ticks EXCEPT ![p] = @ - 1]
    /\ mail' = IF conn[p] = None THEN mail ELSE Useful(mail \cup Hello(conn[p], present[p]), conn, key)
    /\ saved' = [saved EXCEPT ![p] = TRUE]
    /\ UNCHANGED <<who, status, asked, work, hubVars, down, phase, conn, present, key, saving, escrow, unsaved, drops, crossed, late>>

\* A retry of finalize: those present are greeted again, and a key that has come
\* since is sent to the escrow.
Tick(p) ==
    /\ phase[p] = "open" /\ ticks[p] > 0
    /\ ticks' = [ticks EXCEPT ![p] = @ - 1]
    /\ mail' = IF conn[p] = None THEN mail ELSE Useful(mail \cup Hello(conn[p], present[p]), conn, key)
    /\ saved' = [saved EXCEPT ![p] = @ \/ key[p] # None]
    /\ saving' = [saving EXCEPT ![p] = IF ~saved[p] /\ key[p] # None THEN @ \cup {key[p]} ELSE @]
    /\ UNCHANGED <<who, status, asked, work, hubVars, down, phase, conn, present, key, escrow, unsaved, drops, crossed, late>>

\* A key sent to the escrow gets there.
SaveDone(p) ==
    /\ \E k \in saving[p] :
        /\ escrow' = [escrow EXCEPT ![AccountOf[p]] = k]
        /\ saving' = [saving EXCEPT ![p] = @ \ {k}]
    /\ UNCHANGED <<who, status, asked, work, hubVars, down, mail, phase, conn, present, key, ticks, saved, drops, crossed, late, unsaved>>

\* ... or it does not: no user key to wrap it under (save returns), or a PUT that is
\* refused (it throws, and nobody listens).  It is crossed off all the same.
SaveFails(p) ==
    /\ \E k \in saving[p] : saving' = [saving EXCEPT ![p] = @ \ {k}]
    /\ unsaved' = [unsaved EXCEPT ![p] = TRUE]
    /\ UNCHANGED <<who, status, asked, work, hubVars, down, mail, phase, conn, present, key, ticks, saved, escrow, drops, crossed, late>>

\* A connection ends at the client's side.  A call just sent on it is served: one
\* that is lost leaves what an earlier end would.
Cut(p) ==
    LET c == conn[p] IN
    IF c = None THEN UNCHANGED <<status, down, mail, conn>>
    ELSE /\ status' = [status EXCEPT ![c] = "cut"]
         /\ down' = [down EXCEPT ![c] = <<>>]
         /\ conn' = [conn EXCEPT ![p] = None]
         /\ mail' = Useful(mail, conn', key)

\* A connection breaks under its client.  The call it was waiting for fails, and
\* open() with it: before Join nothing stays, after it the transport does.
Drop(p) ==
    /\ conn[p] # None /\ drops < MaxDrop
    /\ Cut(p)
    /\ drops' = drops + 1
    /\ phase' = [phase EXCEPT ![p] = CASE @ = "joining" -> "closed" [] @ = "claiming" -> "failed" [] OTHER -> @]
    /\ key' = [key EXCEPT ![p] = IF phase[p] = "joining" THEN None ELSE @]
    /\ present' = [present EXCEPT ![p] = IF phase[p] = "joining" THEN {} ELSE @]
    /\ UNCHANGED <<who, asked, work, hubVars, ticks, saved, saving, escrow, unsaved, crossed, late>>

\* Automatic reconnection: a new connection, and Join again.
Reconnect(p) ==
    /\ phase[p] \in {"open", "failed"} /\ conn[p] = None /\ Dial(p)
    /\ UNCHANGED <<work, hubVars, down, mail, phase, present, key, ticks, saved, saving, escrow, unsaved, drops, crossed, late>>

\* Mutant of Close: the keyring outlives the session.
CloseKeepsKey(p) ==
    /\ phase[p] # "closed" /\ drops < MaxDrop
    /\ Cut(p)
    /\ drops' = drops + 1
    /\ phase' = [phase EXCEPT ![p] = "closed"]
    /\ present' = [present EXCEPT ![p] = {}]
    /\ ticks' = [ticks EXCEPT ![p] = 0]
    /\ saved' = [saved EXCEPT ![p] = FALSE]
    /\ late' = [late EXCEPT ![p] = FALSE]
    /\ unsaved' = [unsaved EXCEPT ![p] = FALSE]
    /\ \E kept \in {saving[p], {}} : saving' = [saving EXCEPT ![p] = kept]
    /\ UNCHANGED <<who, asked, key, work, hubVars, escrow, crossed>>

\* The session is disposed of, or its tab closed, or its connection gives up for
\* good (which leaves a session that hears and says nothing); a save not landed yet may be lost.
Close(p) ==
    /\ phase[p] # "closed" /\ drops < MaxDrop
    /\ Cut(p)
    /\ drops' = drops + 1
    /\ phase' = [phase EXCEPT ![p] = "closed"]
    /\ key' = [key EXCEPT ![p] = None]
    /\ present' = [present EXCEPT ![p] = {}]
    /\ ticks' = [ticks EXCEPT ![p] = 0]
    /\ saved' = [saved EXCEPT ![p] = FALSE]
    /\ late' = [late EXCEPT ![p] = FALSE]
    /\ unsaved' = [unsaved EXCEPT ![p] = FALSE]
    /\ \E kept \in {saving[p], {}} : saving' = [saving EXCEPT ![p] = kept]
    /\ UNCHANGED <<who, asked, work, hubVars, escrow, crossed>>

Client(p) == Open(p) \/ Receive(p) \/ Tick(p) \/ SaveDone(p) \/ SaveFails(p)
             \/ Drop(p) \/ Reconnect(p) \/ Close(p)

Next == (\E c \in Conn : Hub(c)) \/ (\E p \in Peer : Client(p)) \/ (\E f \in mail : Frame(f))

Spec == Init /\ [][Next]_vars

(***************************************************************************)
(* Properties.                                                              *)
(***************************************************************************)
\* Nothing is under way: no call, handler, message, save or retry, no connection
\* the hub still believes in.
Quiet ==
    /\ \A c \in Conn : work[c] = Idle /\ asked[c] = "nothing" /\ status[c] # "cut" /\ down[c] = <<>>
    /\ mail = {} /\ \A p \in Peer : saving[p] = {} /\ ticks[p] = 0

Linked(p) == conn[p] # None
Apart(c, d) == {c, d} \in crossed \/ ~InRoom(c) \/ ~InRoom(d)

\* At rest a peer that is connected believes there exactly those who are: the list
\* Join answers with, the PeerUps and PeerDowns and what a reconnection sets right
\* leave no ghost and miss nobody -- but for a peer whose Join or disconnection ran
\* at the same time as its own Join, and a connection in a room that the registry
\* forgot, which takes such a crossing too (EdgeSyncHub.Join,
\* EdgesyncRelayTransport.connect).
PresenceAgrees ==
    Quiet => \A p \in {q \in Peer : Linked(q)} :
        /\ InRoom(conn[p]) \/ \E d \in Conn : {conn[p], d} \in crossed
        /\ \A d \in Conn \ {conn[p]} :
            LET there == \E q \in Peer : conn[q] = d IN
            (d \in present[p] <=> there) \/ {conn[p], d} \in crossed \/ (there /\ Apart(conn[p], d))

\* Every key has its own claim: as long as no claim has been released, all keys held,
\* saved or on their way are the same one, and each further one takes another
\* release (EdgeSyncHub.ClaimOwner; the keys of two founders never merge).
OneGenesis ==
    LET keys == ({key[p] : p \in Peer} \cup {escrow[a] : a \in Account} \cup UNION {saving[p] : p \in Peer}) \ {None}
    IN Cardinality(keys) <= released + 1

\* No connection that is gone holds the claim: a dead claim would bar everybody
\* from making the key for ever (the release in EdgeSyncHub.OnDisconnectedAsync).
NoDeadClaim == owner # None => status[owner] # "gone"

\* At rest nobody in the room lacks the key while another, who had it before its last
\* retry, holds it, unless their calls crossed (the greetings of finalize and of the
\* PeerUp handlers).
KeyReaches ==
    Quiet => \A p, q \in {r \in Peer : phase[r] = "open" /\ Linked(r)} :
        key[q] # None /\ ~late[q] /\ ~Apart(conn[p], conn[q]) => key[p] # None

\* Nobody waits for a key in vain: neither for one that another peer holds, nor for
\* one that only a connection that is gone might make (finalize: claim, greet, wait).
KeyComes == NoDeadClaim /\ KeyReaches

\* At rest whoever holds the key can come back with one: its account has one in
\* escrow, unless the key came after the last retry, or a save has failed since the
\* session was opened, which no retry makes good (finalize: the escrow of a founder and
\* the late one of a joiner; VaultKeyEscrow.save).
EscrowFollows ==
    Quiet => \A p \in {r \in Peer : phase[r] = "open"} :
        key[p] # None /\ ~late[p] /\ ~unsaved[p] => escrow[AccountOf[p]] # None
=============================================================================
