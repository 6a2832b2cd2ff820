--------------------------- MODULE EdgeRoomsProofs ---------------------------
(***************************************************************************)
(* The peers of an edgesync vault, for any number of devices, accounts,      *)
(* connections and retries: the hub's claim bounds the keys that were ever   *)
(* made, a dead connection never keeps it, who knows a key will have it in   *)
(* escrow unless a save fails, and at rest two peers whose calls have not    *)
(* crossed know of each other and both have the key, if one has.             *)
(*                                                                         *)
(* Crossing is what the hub's two-step handlers do wrong; two connections   *)
(* that have not crossed see each other's handlers as single steps.  The    *)
(* inductive invariant follows what a peer will believe once it has heard   *)
(* all that is under way to it.                                             *)
(***************************************************************************)
EXTENDS EdgeRooms, Queues, TLAPS, FiniteSetTheorems

Reading(c) == work[c].m = "read"
Leaving(c) == work[c].m = "left"
Crossed(c, d) == {c, d} \in crossed

\* Message msg says that d is there, or that it is not; what a peer believes once it
\* has received the messages s, if b says whether it believes d there.
Affirms(msg, d) == \/ msg.m = "up" /\ msg.from = d
                   \/ msg.m = "joined" /\ d \in msg.existing
Denies(msg, d) == \/ msg.m = "down" /\ msg.from = d
                  \/ msg.m = "joined" /\ d \notin msg.existing
WillSee(s, b, d) ==
    \/ \E i \in DOMAIN s : Affirms(s[i], d) /\ \A j \in DOMAIN s : j > i => ~Denies(s[j], d)
    \/ b /\ \A j \in DOMAIN s : ~Denies(s[j], d)

\* The life of a connection: made, Join called, entered, left, gone.
ConnInv(c) ==
    /\ c > Len(who) => status[c] = "gone"
    /\ status[c] = "up" => conn[who[c]] = c
    /\ status[c] = "gone" => asked[c] = "nothing" /\ work[c] = Idle /\ c \notin entered
    /\ status[c] # "up" => down[c] = <<>>
    /\ c \notin entered => down[c] = <<>>
    /\ status[c] = "up" /\ c \notin entered => asked[c] = "join" \/ Reading(c)
    /\ asked[c] = "join" => work[c] = Idle /\ c \notin entered
    /\ asked[c] = "claim" => c \in entered
    /\ Reading(c) => asked[c] = "nothing" /\ c \notin entered
    /\ Leaving(c) => status[c] = "cut" /\ asked[c] = "nothing" /\ c \notin entered
    /\ c \in group <=> c \in entered \/ Leaving(c)

\* Nothing is sent down a connection before the answer to its Join.
JoinedFirst(s) == \A i \in DOMAIN s : s[i].m = "joined" => i = 1

\* A peer and its connection: what is under way to it is what its phase waits for.
PeerInv(p) ==
    /\ phase[p] \in {"closed", "joining"} => present[p] = {}
    /\ phase[p] \in {"joining", "claiming"} => conn[p] # None
    /\ conn[p] # None =>
        LET c == conn[p] IN
        /\ phase[p] # "closed"
        /\ c <= Len(who) /\ status[c] = "up" /\ who[c] = p
        /\ JoinedFirst(down[c])
        /\ phase[p] = "joining" /\ c \in entered => Has(down[c], "joined")
        /\ phase[p] = "claiming" => c \in entered /\ ~Has(down[c], "joined")
        /\ asked[c] = "claim" \/ Has(down[c], "claimed") => phase[p] = "claiming"
        /\ asked[c] = "claim" => ~Has(down[c], "claimed")
        /\ Once(down[c], "claimed")

\* A room once forgotten is never the registered one again.
MadeRoom(r) == r <= Len(who) /\ asked[r] # "join"
RoomInv ==
    /\ room # None => MadeRoom(room) /\ members[room] \subseteq entered
    /\ \A r \in Room : members[r] # {} => MadeRoom(r)
    /\ \A c \in Conn : Reading(c) => MadeRoom(work[c].room)
OwnerInv == owner # None => owner \in entered \/ Leaving(owner)

\* Whose handlers are running at the same time have crossed.  A connection that has
\* crossed nobody is in the registered room, which nobody is about to forget.
Alone(c) == \A d \in Conn : ~Crossed(c, d)
BusyInv == \A c, d \in Busy : c # d => Crossed(c, d)
AloneInv(c) ==
    Alone(c) /\ (Reading(c) \/ c \in entered) =>
        /\ room # None
        /\ IF Reading(c) THEN work[c].room = room ELSE c \in members[room]
        /\ \A d \in Conn : Leaving(d) => work[d].room = room

\* What a connection is about to be answered of another that it has not crossed, and
\* what its peer is going to believe.
ReadInv(c, d) ==
    Reading(c) /\ c # d /\ ~Crossed(c, d) =>
        /\ work[c].room = room /\ d \in members[room] => d \in work[c].existing
        /\ d \in work[c].existing => d \in group
SeeInv(p, d) ==
    LET c == conn[p]
        sees == WillSee(down[c], d \in present[p], d)
    IN  c # None /\ c \in entered /\ c # d /\ ~Crossed(c, d) =>
            /\ InRoom(c) /\ InRoom(d) => sees
            /\ sees => d \in group

\* A peer that knows of A and has the messages s to receive will greet d: it is still
\* to be told of it.  A frame that gets the key to c, now or in the end, if d holds it.
Pending(s, A, d) ==
    \E i \in DOMAIN s : \/ s[i].m = "up" /\ s[i].from = d
                        \/ s[i].m = "joined" /\ d \in s[i].existing /\ d \notin A
WillGreet(p, d) == Pending(down[conn[p]], present[p], d)
Carries(f, c, d) == \/ f.m = "key" /\ f.to = c
                    \/ f.m = "hello" /\ {f.from, f.to} = {c, d}
                    \/ f.m = "echo" /\ f.from = c /\ f.to = d
OnItsWay(c, d) == \E f \in mail : Carries(f, c, d)

\* While p misses the key that q holds, something that brings it is still to come.
Session(p) == phase[p] = "open" /\ Linked(p)
Misses(p, q) == /\ p # q /\ Session(p) /\ Session(q)
                /\ key[q] # None /\ key[p] = None /\ ~late[q] /\ ~Apart(conn[p], conn[q])
Reaching(p, q) == \/ ticks[q] > 0
                  \/ OnItsWay(conn[p], conn[q])
                  \/ WillGreet(p, conn[q]) \/ WillGreet(q, conn[p])
ReachInv(p, q) == Misses(p, q) => Reaching(p, q)

\* A session that holds a key has it in escrow, or on its way there, or will send it,
\* or has failed to.
EscrowInv(p) ==
    /\ phase[p] = "joining" /\ key[p] # None => escrow[AccountOf[p]] # None
    /\ phase[p] = "open" =>
        /\ key[p] # None /\ ~late[p] => saved[p] \/ ticks[p] > 0
        /\ saved[p] => saving[p] # {} \/ escrow[AccountOf[p]] # None \/ unsaved[p]

\* A key leaves a trace; each trace but the claimant's has cost a release.
Trace(k) ==
    \/ \E p \in Peer : key[p] = k \/ k \in saving[p]
    \/ \E a \in Account : escrow[a] = k
    \/ \E f \in mail : f.m = "key" /\ f.key = k
    \/ \E i \in DOMAIN down[k] : down[k][i].m = "claimed" /\ down[k][i].won
    \/ owner = k
Traces == {k \in Conn : Trace(k)}
GenesisInv == Cardinality(Traces) <= released + (IF owner = None THEN 0 ELSE 1)

\* Frames travel between connections that were made.
MailInv == \A f \in mail : f.to \in Made /\ (f.m # "key" => f.from \in Made)

LinkInv == MailInv /\ (\A c \in Conn : ConnInv(c)) /\ (\A p \in Peer : PeerInv(p))
HubInv == RoomInv /\ OwnerInv /\ BusyInv /\ \A c \in Conn : AloneInv(c)
SightInv == (\A c, d \in Conn : ReadInv(c, d)) /\ (\A p \in Peer, d \in Conn : SeeInv(p, d))
IInv == /\ TypeOK /\ LinkInv /\ HubInv /\ SightInv
        /\ \A p, q \in Peer : ReachInv(p, q)
        /\ \A p \in Peer : EscrowInv(p)
        /\ GenesisInv
-----------------------------------------------------------------------------
(* Sequences: what appending to a queue and taking its head do to it.       *)

LEMMA AppendFacts ==
    ASSUME NEW T, NEW s \in Seq(T), NEW e \in T
    PROVE  /\ Append(s, e) \in Seq(T)
           /\ \A i \in DOMAIN Append(s, e) :
                 (i \in DOMAIN s /\ Append(s, e)[i] = s[i]) \/ (i = Len(s) + 1 /\ Append(s, e)[i] = e)
           /\ \A i \in DOMAIN s : i \in DOMAIN Append(s, e) /\ Append(s, e)[i] = s[i] /\ i # Len(s) + 1
    OBVIOUS

LEMMA TailFacts ==
    ASSUME NEW T, NEW s \in Seq(T), s # <<>>
    PROVE  /\ Tail(s) \in Seq(T)
           /\ 1 \in DOMAIN s /\ Head(s) = s[1] /\ Head(s) \in T
           /\ \A i \in DOMAIN Tail(s) : i + 1 \in DOMAIN s /\ Tail(s)[i] = s[i + 1] /\ i + 1 # 1
    OBVIOUS

LEMMA KindsAfterAppend ==
    ASSUME NEW T, NEW s \in Seq(T), NEW e \in T, NEW m
    PROVE  /\ Has(Append(s, e), m) => Has(s, m) \/ e.m = m
           /\ Once(s, m) /\ (e.m # m \/ ~Has(s, m)) => Once(Append(s, e), m)
           /\ e.m # m => States(Append(s, e), m) \subseteq States(s, m)
           /\ States(Append(s, e), m) \subseteq States(s, m) \cup {e.st}
    BY AppendFacts DEF Has, Once, States

LEMMA KindsAfterTail ==
    ASSUME NEW T, NEW s \in Seq(T), s # <<>>, NEW m
    PROVE  /\ Has(Tail(s), m) => Has(s, m)
           /\ Once(s, m) => Once(Tail(s), m)
           /\ Once(s, m) /\ Head(s).m = m => ~Has(Tail(s), m)
           /\ States(Tail(s), m) \subseteq States(s, m)
           /\ Head(s).m = m => Has(s, m) /\ Head(s).st \in States(s, m)
    BY TailFacts DEF Has, Once, States

LEMMA NoKinds ==
    /\ \A m : ~Has(<<>>, m) /\ Once(<<>>, m) /\ States(<<>>, m) = {}
    /\ \A s, m : ~Has(s, m) => States(s, m) = {}
    BY DEF Has, Once, States
-----------------------------------------------------------------------------
(* What the hub sends, and which frames remain.                             *)

LEMMA ConnFacts == /\ Conn \subseteq Nat /\ None \notin Conn
                   /\ IsFiniteSet(Conn) /\ Room = Conn /\ Key = Conn
<1>1. Conn \subseteq Nat
    BY EdgeBounds DEF Conn
<1>2. IsFiniteSet(Conn)
    BY EdgeBounds, FS_Interval DEF Conn
<1> QED BY <1>1, <1>2, EdgeAccounts DEF Room, Key

LEMMA SentFacts ==
    ASSUME NEW d \in [Conn -> Seq(Msg)], NEW cs, NEW msg \in Msg
    PROVE  /\ Sent(d, cs, msg) \in [Conn -> Seq(Msg)]
           /\ \A c \in Conn : /\ c \in cs /\ status[c] = "up" => Sent(d, cs, msg)[c] = Append(d[c], msg)
                              /\ c \notin cs \/ status[c] # "up" => Sent(d, cs, msg)[c] = d[c]
<1>1. \A c \in Conn : Append(d[c], msg) \in Seq(Msg)
    OBVIOUS
<1> QED BY <1>1 DEF Sent

LEMMA SentWhere ==
    ASSUME NEW e, NEW cs, NEW msg, NEW d \in Conn
    PROVE  /\ d \in cs /\ status[d] = "up" => Sent(e, cs, msg)[d] = Append(e[d], msg)
           /\ d \notin cs \/ status[d] # "up" => Sent(e, cs, msg)[d] = e[d]
    BY DEF Sent

LEMMA UsefulFacts ==
    ASSUME NEW ms, NEW at, NEW keys
    PROVE  Useful(ms, at, keys) \subseteq ms
    BY DEF Useful

LEMMA HelloFacts ==
    ASSUME TypeOK, NEW c \in Conn, NEW ds
    PROVE  Hello(c, ds) \subseteq Mail /\ \A f \in Hello(c, ds) : f.m = "hello"
<1>1. Relayed(c, ds) \subseteq Conn
    BY DEF Relayed, InRoom, TypeOK, Room
<1> QED BY <1>1 DEF Hello, Mail

LEMMA MsgFacts ==
    /\ \A c \in Conn : [m |-> "up", from |-> c] \in Msg /\ [m |-> "down", from |-> c] \in Msg
    /\ \A S \in SUBSET Conn : [m |-> "joined", existing |-> S] \in Msg
    /\ \A b \in BOOLEAN : [m |-> "claimed", won |-> b] \in Msg
    /\ \A msg \in Msg : /\ msg.m \in {"up", "down", "joined", "claimed"}
                        /\ msg.m \in {"up", "down"} => msg.from \in Conn
                        /\ msg.m = "joined" => msg.existing \subseteq Conn
                        /\ msg.m = "claimed" => msg.won \in BOOLEAN
    BY DEF Msg

LEMMA WorkFacts ==
    ASSUME TypeOK, NEW c \in Conn
    PROVE  /\ work[c] = Idle \/ Reading(c) \/ Leaving(c)
           /\ work[c] = Idle => ~Reading(c) /\ ~Leaving(c)
           /\ Reading(c) => work[c].room \in Room /\ work[c].existing \subseteq Conn /\ ~Leaving(c)
           /\ Leaving(c) => work[c].room \in Room \cup {None}
    BY DEF TypeOK, Work, Idle, Reading, Leaving
LEMMA CrossesFacts ==
    ASSUME TypeOK, NEW c \in Conn
    PROVE  /\ Crosses(c) \subseteq SUBSET Conn /\ crossed \subseteq Crosses(c)
           /\ \A d \in Conn : work[d] # Idle /\ d # c => {c, d} \in Crosses(c)
<1>1. ASSUME NEW x \in Crosses(c) PROVE x \subseteq Conn
    <2>1. CASE x \in crossed
        BY <2>1 DEF TypeOK
    <2>2. CASE \E d \in Conn : x = {c, d}
        BY <2>2
    <2> QED BY <1>1, <2>1, <2>2 DEF Crosses, Busy
<1>2. ASSUME NEW d \in Conn, work[d] # Idle, d # c PROVE {c, d} \in Crosses(c)
    <2>1. d \in Busy \ {c}
        BY <1>2 DEF Busy
    <2> QED BY <2>1 DEF Crosses
<1>3. crossed \subseteq Crosses(c)
    BY DEF Crosses
<1> QED BY <1>1, <1>2, <1>3
-----------------------------------------------------------------------------
(* Types.                                                                   *)

LEMMA HubTypes ==
    ASSUME TypeOK, NEW c \in Conn, Hub(c)
    PROVE  TypeOK'
<1>1. CASE JoinRead(c)
    <2> DEFINE r == IF room = None THEN c ELSE room
    <2>1. r \in Room /\ members[r] \ {c} \subseteq Conn
        BY DEF TypeOK, Room
    <2>2. [m |-> "read", room |-> r, existing |-> members[r] \ {c}] \in Work
        BY <2>1 DEF Work
    <2>3. Crosses(c) \subseteq SUBSET Conn
        BY CrossesFacts
    <2> QED BY <1>1, <2>1, <2>2, <2>3 DEF JoinRead, TypeOK, clientVars
<1>2. CASE JoinEnter(c)
    <2>1. work[c].room \in Room /\ work[c].existing \subseteq Conn
        BY <1>2, WorkFacts DEF JoinEnter, Reading
    <2>2. Idle \in Work
        BY DEF Work
    <2>3. down' \in [Conn -> Seq(Msg)]
        BY <1>2, <2>1, SentFacts, MsgFacts DEF JoinEnter, TypeOK
    <2>4. members' \in [Room -> SUBSET Conn] /\ work' \in [Conn -> Work]
        BY <1>2, <2>1, <2>2 DEF JoinEnter, TypeOK
    <2>5. entered' \subseteq Conn /\ group' \subseteq Conn
        BY <1>2 DEF JoinEnter, TypeOK
    <2>6. UNCHANGED <<who, mail, status, asked, room, owner, released, drops, crossed, clientVars>>
        BY <1>2 DEF JoinEnter
    <2> QED BY <2>3, <2>4, <2>5, <2>6 DEF TypeOK, clientVars
<1>3. CASE ClaimOwner(c)
    <2>1. down' \in [Conn -> Seq(Msg)]
        BY <1>3, SentFacts, MsgFacts DEF ClaimOwner, TypeOK
    <2> QED BY <1>3, <2>1 DEF ClaimOwner, TypeOK, clientVars
<1>4. CASE Disconnect(c)
    <2>1. [m |-> "left", room |-> room] \in Work
        BY DEF Work, TypeOK
    <2>2. Crosses(c) \subseteq SUBSET Conn
        BY CrossesFacts
    <2>3. work' \in [Conn -> Work] /\ status' \in [Conn -> {"up", "cut", "gone"}]
        <3>1. work \in [Conn -> Work] /\ status \in [Conn -> {"up", "cut", "gone"}]
            BY DEF TypeOK
        <3>2. work' = work \/ work' = [work EXCEPT ![c] = [m |-> "left", room |-> room]]
            BY <1>4 DEF Disconnect
        <3>3. status' = status \/ status' = [status EXCEPT ![c] = "gone"]
            BY <1>4 DEF Disconnect
        <3> QED BY <2>1, <3>1, <3>2, <3>3
    <2>4. members' \in [Room -> SUBSET Conn] /\ entered' \subseteq Conn /\ crossed' \subseteq SUBSET Conn
        <3>1. [r \in Room |-> IF r = room THEN members[r] \ {c} ELSE members[r]] \in [Room -> SUBSET Conn]
            BY DEF TypeOK
        <3>2. members' \in [Room -> SUBSET Conn]
            BY <1>4, <3>1 DEF Disconnect, TypeOK
        <3>3. crossed' \subseteq SUBSET Conn
            BY <1>4, <2>2 DEF Disconnect, TypeOK
        <3> QED BY <1>4, <3>2, <3>3 DEF Disconnect, TypeOK
    <2>5. UNCHANGED <<who, mail, asked, room, group, owner, released, down, drops, clientVars>>
        BY <1>4 DEF Disconnect
    <2> QED BY <2>3, <2>4, <2>5 DEF TypeOK, clientVars
<1>5. CASE Left(c)
    <2>1. down' \in [Conn -> Seq(Msg)]
        BY <1>5, SentFacts, MsgFacts DEF Left, TypeOK
    <2>2. work' \in [Conn -> Work] /\ status' \in [Conn -> {"up", "cut", "gone"}]
        BY <1>5 DEF Left, TypeOK, Work
    <2>3. room' \in Room \cup {None} /\ owner' \in Conn \cup {None} /\ released' \in Nat
        BY <1>5 DEF Left, TypeOK
    <2>4. group' \subseteq Conn
        BY <1>5 DEF Left, TypeOK
    <2>5. UNCHANGED <<who, mail, asked, members, entered, drops, crossed, clientVars>>
        BY <1>5 DEF Left
    <2> QED BY <2>1, <2>2, <2>3, <2>4, <2>5 DEF TypeOK, clientVars
<1> QED BY <1>1, <1>2, <1>3, <1>4, <1>5 DEF Hub

LEMMA DialTypes ==
    ASSUME TypeOK, NEW p \in Peer, Dial(p)
    PROVE  /\ who' \in Seq(Peer) /\ Len(who') <= MaxConn
           /\ Len(who) + 1 \in Conn /\ Len(who') = Len(who) + 1 /\ who'[Len(who) + 1] = p
           /\ \A c \in Conn : c <= Len(who) => who'[c] = who[c]
           /\ status' \in [Conn -> {"up", "cut", "gone"}]
           /\ asked' \in [Conn -> {"nothing", "join", "claim"}]
           /\ conn' \in [Peer -> Conn \cup {None}]
<1>1. Len(who) \in Nat /\ Len(who) + 1 \in Conn
    BY EdgeBounds DEF Dial, TypeOK, Conn
<1>2. /\ who' \in Seq(Peer) /\ Len(who') = Len(who) + 1 /\ who'[Len(who) + 1] = p
      /\ \A c \in Conn : c <= Len(who) => who'[c] = who[c]
    BY DEF Dial, TypeOK, Conn
<1>3. Len(who') <= MaxConn
    BY <1>1, <1>2, EdgeBounds DEF Dial, Conn
<1>4. /\ status' \in [Conn -> {"up", "cut", "gone"}]
      /\ asked' \in [Conn -> {"nothing", "join", "claim"}]
      /\ conn' \in [Peer -> Conn \cup {None}]
    BY <1>1 DEF Dial, TypeOK
<1> QED BY <1>1, <1>2, <1>3, <1>4

LEMMA FinalizeTypes ==
    ASSUME TypeOK, NEW p \in Peer, conn[p] \in Conn, NEW founder \in BOOLEAN, NEW there,
           Finalize(p, founder, there)
    PROVE  /\ phase' \in [Peer -> {"closed", "joining", "claiming", "open", "failed"}]
           /\ key' \in [Peer -> Key \cup {None}] /\ saved' \in [Peer -> BOOLEAN]
           /\ saving' \in [Peer -> SUBSET Key] /\ ticks' \in [Peer -> 0..MaxTick]
           /\ late' \in [Peer -> BOOLEAN] /\ mail' \subseteq Mail
           /\ \A q \in Peer : phase'[q] \in {"joining", "open"} \/ key'[q] = None
<1>1. mail' \subseteq Mail
    <2>1. mail' \subseteq mail \cup Hello(conn[p], there)
        BY UsefulFacts DEF Finalize
    <2> QED BY <2>1, HelloFacts DEF TypeOK
<1>2. MaxTick \in 0..MaxTick
    BY EdgeBounds
<1>3. /\ phase' \in [Peer -> {"closed", "joining", "claiming", "open", "failed"}]
      /\ saved' \in [Peer -> BOOLEAN] /\ late' \in [Peer -> BOOLEAN]
    BY DEF Finalize, TypeOK
<1>4. ticks' \in [Peer -> 0..MaxTick]
    BY <1>2 DEF Finalize, TypeOK
<1>5. conn[p] \in Key
    BY ConnFacts
<1>6. key' \in [Peer -> Key \cup {None}] /\ saving' \in [Peer -> SUBSET Key]
    BY <1>5 DEF Finalize, TypeOK
<1>7. \A q \in Peer : phase'[q] \in {"joining", "open"} \/ key'[q] = None
    BY DEF Finalize, TypeOK
<1> QED BY <1>1, <1>3, <1>4, <1>6, <1>7

LEMMA CutTypes ==
    ASSUME TypeOK, NEW p \in Peer, Cut(p)
    PROVE  /\ status' \in [Conn -> {"up", "cut", "gone"}] /\ down' \in [Conn -> Seq(Msg)]
           /\ mail' \subseteq mail /\ conn' \in [Peer -> Conn \cup {None}]
           /\ conn'[p] = None /\ \A q \in Peer : q # p => conn'[q] = conn[q]
<1>1. <<>> \in Seq(Msg) /\ conn[p] \in Conn \cup {None}
    BY DEF TypeOK
<1>2. CASE conn[p] = None
    BY <1>2 DEF Cut, TypeOK
<1>3. CASE conn[p] \in Conn /\ conn[p] # None
    <2>1. mail' \subseteq mail
        BY <1>3, UsefulFacts DEF Cut
    <2>2. /\ status' = [status EXCEPT ![conn[p]] = "cut"] /\ down' = [down EXCEPT ![conn[p]] = <<>>]
          /\ conn' = [conn EXCEPT ![p] = None]
        BY <1>3 DEF Cut
    <2> QED BY <1>1, <1>3, <2>1, <2>2 DEF TypeOK
<1> QED BY <1>1, <1>2, <1>3

\* What a peer hears: the message is one the hub has sent on its connection.
LEMMA ReceiveFacts ==
    ASSUME TypeOK, NEW p \in Peer, Receive(p)
    PROVE  /\ conn[p] \in Conn /\ conn[p] # None /\ down[conn[p]] # <<>>
           /\ Head(down[conn[p]]) \in Msg
           /\ down' = [down EXCEPT ![conn[p]] = Tail(@)] /\ down' \in [Conn -> Seq(Msg)]
           /\ Tail(down[conn[p]]) \in Seq(Msg)
<1>1. conn[p] \in Conn /\ conn[p] # None /\ down[conn[p]] # <<>>
    BY DEF Receive, TypeOK
<1>2. down[conn[p]] \in Seq(Msg)
    BY <1>1 DEF TypeOK
<1>3. Head(down[conn[p]]) \in Msg /\ Tail(down[conn[p]]) \in Seq(Msg)
    BY <1>1, <1>2
<1>4. down' = [down EXCEPT ![conn[p]] = Tail(@)]
    BY DEF Receive
<1> QED BY <1>1, <1>3, <1>4 DEF TypeOK

LEMMA ReceiveTypes ==
    ASSUME TypeOK, NEW p \in Peer, Receive(p)
    PROVE  TypeOK'
<1> DEFINE c == conn[p]
           msg == Head(down[c])
<1>1. /\ c \in Conn /\ msg \in Msg /\ down' \in [Conn -> Seq(Msg)]
      /\ UNCHANGED <<who, status, work, hubVars, conn, escrow, unsaved, drops, crossed>>
    BY ReceiveFacts DEF Receive
<1>2. CASE msg.m = "joined" /\ Joined(p, msg.existing)
    <2> DEFINE there == present[p] \cup msg.existing
    <2>1. there \subseteq Conn /\ msg.existing \subseteq Conn
        BY <1>1, <1>2, MsgFacts DEF TypeOK
    <2>2. CASE phase[p] = "joining" /\ key[p] # None
        <3>1. Finalize(p, FALSE, there) /\ UNCHANGED asked /\ present' = [present EXCEPT ![p] = there]
            BY <1>2, <2>2 DEF Joined
        <3>2. present' \in [Peer -> SUBSET Conn]
            BY <2>1, <3>1 DEF TypeOK
        <3> QED BY <1>1, <3>1, <3>2, FinalizeTypes DEF TypeOK, hubVars
    <2>3. CASE phase[p] = "joining" /\ ~(key[p] # None)
        <3>1. /\ present' = [present EXCEPT ![p] = there] /\ phase' = [phase EXCEPT ![p] = "claiming"]
              /\ asked' = [asked EXCEPT ![c] = "claim"]
              /\ UNCHANGED <<mail, key, ticks, saved, saving, late>>
            BY <1>2, <2>3 DEF Joined
        <3> QED BY <1>1, <2>1, <2>3, <3>1 DEF TypeOK, hubVars
    <2>4. CASE phase[p] # "joining"
        <3>1. /\ present' = [present EXCEPT ![p] = msg.existing]
              /\ UNCHANGED <<phase, asked, key, ticks, saved, saving, late>>
            BY <1>2, <2>4 DEF Joined
        <3>2. mail' \subseteq mail \cup Hello(c, msg.existing \ present[p])
            <4>1. mail' = IF phase[p] = "open" THEN Useful(mail \cup Hello(c, msg.existing \ present[p]), conn, key)
                          ELSE mail
                BY <1>2, <2>4 DEF Joined
            <4> QED BY <4>1, UsefulFacts
        <3>3. mail' \subseteq Mail
            BY <1>1, <3>2, HelloFacts DEF TypeOK
        <3>4. present' \in [Peer -> SUBSET Conn]
            BY <2>1, <3>1 DEF TypeOK
        <3> QED BY <1>1, <3>1, <3>3, <3>4 DEF TypeOK, hubVars
    <2> QED BY <2>2, <2>3, <2>4
<1>3. CASE msg.m = "claimed" /\ Finalize(p, msg.won, present[p]) /\ UNCHANGED <<present, asked>>
    <2>1. msg.won \in BOOLEAN
        BY <1>1, <1>3, MsgFacts
    <2> QED BY <1>1, <1>3, <2>1, FinalizeTypes DEF TypeOK, hubVars
<1>4. CASE msg.m \in {"up", "down"} /\ Seen(p, msg)
    <2>1. msg.from \in Conn /\ UNCHANGED <<phase, asked, key, ticks, saved, saving, late>>
        BY <1>1, <1>4, MsgFacts DEF Seen
    <2>2. mail' \subseteq mail \cup Hello(c, {msg.from})
        BY <1>4, UsefulFacts DEF Seen
    <2>3. mail' \subseteq Mail
        BY <1>1, <2>2, HelloFacts DEF TypeOK
    <2>4. present' \in [Peer -> SUBSET Conn]
        BY <1>4, <2>1 DEF Seen, TypeOK
    <2> QED BY <1>1, <2>1, <2>3, <2>4 DEF TypeOK, hubVars
<1> QED BY <1>2, <1>3, <1>4 DEF Receive

LEMMA ClientTypes ==
    ASSUME TypeOK, NEW p \in Peer, Client(p)
    PROVE  TypeOK'
<1>1. CASE Open(p)
    <2>1. escrow[AccountOf[p]] \in Key \cup {None}
        BY EdgeAccounts DEF TypeOK
    <2>2. Dial(p)
        BY <1>1 DEF Open
    <2> QED BY <1>1, <2>1, <2>2, DialTypes DEF Open, TypeOK, hubVars
<1>2. CASE Receive(p)
    BY <1>2, ReceiveTypes
<1>3. CASE Tick(p)
    <2>1. mail' \subseteq Mail
        <3>1. CASE conn[p] = None
            BY <1>3, <3>1 DEF Tick, TypeOK
        <3>2. CASE conn[p] # None
            <4>1. mail' \subseteq mail \cup Hello(conn[p], present[p])
                BY <1>3, <3>2, UsefulFacts DEF Tick
            <4> QED BY <3>2, <4>1, HelloFacts DEF TypeOK
        <3> QED BY <3>1, <3>2
    <2>2. ticks' \in [Peer -> 0..MaxTick]
        <3>1. ticks[p] \in 0..MaxTick /\ ticks[p] > 0 /\ ticks' = [ticks EXCEPT ![p] = @ - 1]
            BY <1>3 DEF Tick, TypeOK
        <3>2. ticks[p] - 1 \in 0..MaxTick
            BY <3>1, EdgeBounds
        <3> QED BY <3>1, <3>2 DEF TypeOK
    <2>3. saved' \in [Peer -> BOOLEAN] /\ saving' \in [Peer -> SUBSET Key]
        BY <1>3 DEF Tick, TypeOK
    <2> QED BY <1>3, <2>1, <2>2, <2>3 DEF Tick, TypeOK, hubVars
<1>4. CASE SaveDone(p)
    <2>1. AccountOf[p] \in Account
        BY EdgeAccounts
    <2> QED BY <1>4, <2>1 DEF SaveDone, TypeOK, hubVars
<1>4a. CASE SaveFails(p)
    BY <1>4a DEF SaveFails, TypeOK, hubVars
<1>5. CASE Drop(p)
    <2>1. Cut(p) /\ drops' \in 0..MaxDrop
        BY <1>5, EdgeBounds DEF Drop, TypeOK
    <2>2. /\ phase' \in [Peer -> {"closed", "joining", "claiming", "open", "failed"}]
          /\ key' \in [Peer -> Key \cup {None}] /\ present' \in [Peer -> SUBSET Conn]
          /\ \A q \in Peer : phase'[q] \in {"joining", "open"} \/ key'[q] = None
        BY <1>5 DEF Drop, TypeOK
    <2>3. UNCHANGED <<who, asked, work, hubVars, ticks, saved, saving, escrow, unsaved, crossed, late>>
        BY <1>5 DEF Drop
    <2> QED BY <2>1, <2>2, <2>3, CutTypes DEF TypeOK, hubVars
<1>6. CASE Reconnect(p)
    BY <1>6, DialTypes DEF Reconnect, TypeOK, hubVars
<1>7. CASE Close(p)
    <2>1. Cut(p) /\ drops' \in 0..MaxDrop
        BY <1>7, EdgeBounds DEF Close, TypeOK
    <2>2. /\ phase' \in [Peer -> {"closed", "joining", "claiming", "open", "failed"}]
          /\ key' \in [Peer -> Key \cup {None}] /\ present' \in [Peer -> SUBSET Conn]
          /\ \A q \in Peer : phase'[q] \in {"joining", "open"} \/ key'[q] = None
        BY <1>7 DEF Close, TypeOK
    <2>3. /\ ticks' \in [Peer -> 0..MaxTick] /\ saved' \in [Peer -> BOOLEAN]
          /\ late' \in [Peer -> BOOLEAN] /\ unsaved' \in [Peer -> BOOLEAN]
        BY <1>7, EdgeBounds DEF Close, TypeOK
    <2>4. saving' \in [Peer -> SUBSET Key]
        BY <1>7 DEF Close, TypeOK
    <2>5. UNCHANGED <<who, asked, work, hubVars, escrow, crossed>>
        BY <1>7 DEF Close
    <2> QED BY <2>1, <2>2, <2>3, <2>4, <2>5, CutTypes DEF TypeOK, hubVars
<1> QED BY <1>1, <1>2, <1>3, <1>4, <1>4a, <1>5, <1>6, <1>7 DEF Client

LEMMA FrameTypes ==
    ASSUME TypeOK, MailInv, NEW f \in mail, Frame(f)
    PROVE  TypeOK'
<1> DEFINE c == f.to
           p == who[c]
           taken == conn[p] = c /\ phase[p] = "open" /\ f.m = "key" /\ key[p] = None
           answers == conn[p] = c /\ phase[p] = "open" /\ (f.m = "hello" \/ (f.m = "echo" /\ key[p] # None))
           back == IF key[p] # None THEN [m |-> "key", key |-> key[p], to |-> f.from]
                   ELSE [m |-> "echo", from |-> c, to |-> f.from]
<1>1. /\ f \in Mail /\ c \in Conn /\ p \in Peer /\ f.m \in {"hello", "echo", "key"}
      /\ f.m \in {"hello", "echo"} => f.from \in Conn
      /\ f.m = "key" => f.key \in Key
    BY DEF TypeOK, Mail, MailInv, Made
<1>2. mail' \subseteq mail \cup (IF answers THEN {back} ELSE {})
    BY UsefulFacts DEF Frame
<1>3. answers => back \in Mail
    BY <1>1 DEF Mail, TypeOK
<1>4. mail' \subseteq Mail
    BY <1>2, <1>3 DEF TypeOK
<1>5. key' = [key EXCEPT ![p] = IF taken THEN f.key ELSE @] /\ late' = [late EXCEPT ![p] = IF taken THEN ticks[p] = 0 ELSE @]
    BY DEF Frame
<1>6. key' \in [Peer -> Key \cup {None}] /\ \A q \in Peer : phase[q] \in {"joining", "open"} \/ key'[q] = None
    BY <1>1, <1>5 DEF TypeOK
<1>7. late' \in [Peer -> BOOLEAN]
    BY <1>5 DEF TypeOK
<1> QED BY <1>4, <1>6, <1>7 DEF Frame, TypeOK, hubVars
-----------------------------------------------------------------------------
(* Keys and claims: who makes a key has been told so, and no two connections *)
(* are told so without a release in between.                                 *)

\* The hub tells k on the queue s that it may make the key.
Told(s) == \E i \in DOMAIN s : s[i].m = "claimed" /\ s[i].won

LEMMA ToldSteps ==
    ASSUME NEW s \in Seq(Msg)
    PROVE  /\ \A msg \in Msg : Told(Append(s, msg)) => Told(s) \/ (msg.m = "claimed" /\ msg.won)
           /\ s # <<>> => (Told(Tail(s)) => Told(s))
           /\ s # <<>> /\ Head(s).m = "claimed" /\ Head(s).won => Told(s)
           /\ ~Told(<<>>)
<1>1. ASSUME NEW msg \in Msg, Told(Append(s, msg)) PROVE Told(s) \/ (msg.m = "claimed" /\ msg.won)
    BY <1>1, AppendFacts DEF Told
<1>2. ASSUME s # <<>>
      PROVE  (Told(Tail(s)) => Told(s)) /\ (Head(s).m = "claimed" /\ Head(s).won => Told(s))
    BY <1>2, TailFacts DEF Told
<1>3. ~Told(<<>>)
    BY DEF Told
<1> QED BY <1>1, <1>2, <1>3

LEMMA HubTraces ==
    ASSUME TypeOK, NEW c \in Conn, Hub(c), NEW k \in Conn, Trace(k)'
    PROVE  Trace(k) \/ (owner = None /\ owner' = c /\ released' = released /\ k = c)
<1>1. ASSUME NEW e \in [Conn -> Seq(Msg)], NEW cs, NEW msg \in Msg, msg.m # "claimed" \/ ~msg.won
      PROVE  Told(Sent(e, cs, msg)[k]) => Told(e[k])
    <2>1. Sent(e, cs, msg)[k] = e[k] \/ Sent(e, cs, msg)[k] = Append(e[k], msg)
        BY SentFacts
    <2> QED BY <1>1, <2>1, ToldSteps
<1>1a. ASSUME NEW cs, NEW msg \in Msg, k \notin cs PROVE Sent(down, cs, msg)[k] = down[k]
    BY <1>1a DEF Sent
<1>2. CASE JoinRead(c)
    BY <1>2 DEF JoinRead, clientVars, Trace
<1>3. CASE JoinEnter(c)
    <2> DEFINE up == [m |-> "up", from |-> c]
               joined == [m |-> "joined", existing |-> work[c].existing]
    <2>1. up \in Msg /\ joined \in Msg
        BY <1>3, MsgFacts, WorkFacts DEF JoinEnter, Reading
    <2>2. Sent(down, group \ {c}, up) \in [Conn -> Seq(Msg)]
        BY <2>1, SentFacts DEF TypeOK
    <2>3. Told(down'[k]) => Told(down[k])
        <3> DEFINE e == Sent(down, group \ {c}, up)
        <3>1. down' = Sent(e, {c}, joined)
            BY <1>3 DEF JoinEnter
        <3>2. down \in [Conn -> Seq(Msg)] /\ up.m # "claimed" /\ joined.m # "claimed"
            BY DEF TypeOK
        <3>3. Told(e[k]) => Told(down[k])
            BY <1>1, <2>1, <3>2
        <3> HIDE DEF joined, e
        <3>4. Told(Sent(e, {c}, joined)[k]) => Told(e[k])
            BY <1>1, <2>1, <2>2, <3>2 DEF e
        <3> QED BY <3>1, <3>3, <3>4
    <2>4. UNCHANGED <<key, saving, escrow, mail, owner>>
        BY <1>3 DEF JoinEnter, clientVars
    <2> QED BY <2>3, <2>4 DEF Trace, Told
<1>4. CASE ClaimOwner(c)
    <2> DEFINE won == InRoom(c) /\ owner = None
               msg == [m |-> "claimed", won |-> won]
    <2>1. msg \in Msg /\ down' = Sent(down, {c}, msg) /\ owner' = IF won THEN c ELSE owner
        BY <1>4, MsgFacts DEF ClaimOwner
    <2>2. CASE won
        <3>1. k # c => down'[k] = down[k]
            <4> HIDE DEF msg
            <4> QED BY <2>1, <1>1a
        <3> QED BY <1>4, <2>1, <2>2, <3>1 DEF ClaimOwner, clientVars, Trace
    <2>3. CASE ~won
        <3>1. Told(down'[k]) => Told(down[k])
            BY <1>1, <2>1, <2>3 DEF TypeOK
        <3> QED BY <1>4, <2>1, <2>3, <3>1 DEF ClaimOwner, clientVars, Trace, Told
    <2> QED BY <2>2, <2>3
<1>5. CASE Disconnect(c)
    BY <1>5 DEF Disconnect, clientVars, Trace
<1>6. CASE Left(c)
    <2>1. Told(down'[k]) => Told(down[k])
        BY <1>1, <1>6, MsgFacts DEF Left, TypeOK
    <2>2. owner' = k => owner = k
        BY <1>6, ConnFacts DEF Left
    <2> QED BY <1>6, <2>1, <2>2 DEF Left, clientVars, Trace, Told
<1> QED BY <1>2, <1>3, <1>4, <1>5, <1>6 DEF Hub

\* A founder has been told to make the key.
LEMMA FinalizeTraces ==
    ASSUME TypeOK, NEW p \in Peer, conn[p] \in Conn, NEW founder \in BOOLEAN, NEW there,
           Finalize(p, founder, there), founder => Trace(conn[p]), NEW k \in Conn
    PROVE  /\ \A q \in Peer : key'[q] = k \/ k \in saving'[q] => Trace(k)
           /\ \A f \in mail' : f.m = "key" /\ f.key = k => Trace(k)
<1>1. ASSUME NEW q \in Peer, key'[q] = k \/ k \in saving'[q] PROVE Trace(k)
    <2>1. (key[q] = k \/ k \in saving[q]) \/ (founder /\ k = conn[p])
        BY <1>1 DEF Finalize, TypeOK
    <2> QED BY <2>1 DEF Trace
<1>2. ASSUME NEW f \in mail', f.m = "key", f.key = k PROVE Trace(k)
    <2>1. mail' \subseteq mail \cup Hello(conn[p], there)
        BY UsefulFacts DEF Finalize
    <2>2. f \in mail
        BY <1>2, <2>1, HelloFacts
    <2> QED BY <1>2, <2>2 DEF Trace
<1> QED BY <1>1, <1>2

LEMMA ReceiveTraces ==
    ASSUME TypeOK, NEW p \in Peer, Receive(p), NEW k \in Conn, Trace(k)'
    PROVE  Trace(k)
<1> DEFINE c == conn[p]
           msg == Head(down[c])
<1>1. /\ c \in Conn /\ msg \in Msg /\ down[c] # <<>> /\ down' = [down EXCEPT ![c] = Tail(@)]
      /\ UNCHANGED <<owner, escrow>>
    BY ReceiveFacts DEF Receive, hubVars
<1>2. Told(down'[k]) => Told(down[k])
    BY <1>1, ToldSteps DEF TypeOK
<1>3. SUFFICES /\ \A q \in Peer : key'[q] = k \/ k \in saving'[q] => Trace(k)
               /\ \A f \in mail' : f.m = "key" /\ f.key = k => Trace(k)
    BY <1>1, <1>2 DEF Trace, Told
<1>4. CASE msg.m = "joined" /\ Joined(p, msg.existing)
    <2>1. CASE phase[p] = "joining" /\ key[p] # None
        <3>1. Finalize(p, FALSE, present[p] \cup msg.existing)
            BY <1>4, <2>1 DEF Joined
        <3> QED BY <1>1, <3>1, FinalizeTraces
    <2>2. CASE phase[p] # "joining" \/ ~(key[p] # None)
        <3>1. /\ UNCHANGED <<key, saving>>
              /\ mail' = mail \/ mail' = Useful(mail \cup Hello(c, msg.existing \ present[p]), conn, key)
            BY <1>4, <2>2 DEF Joined
        <3>2. \A f \in mail' : f.m = "key" => f \in mail
            BY <1>1, <3>1, UsefulFacts, HelloFacts
        <3> QED BY <3>1, <3>2 DEF Trace
    <2> QED BY <2>1, <2>2
<1>5. CASE msg.m = "claimed" /\ Finalize(p, msg.won, present[p])
    <2>1. msg.won \in BOOLEAN /\ down[c] \in Seq(Msg)
        BY <1>1, <1>5, MsgFacts DEF TypeOK
    <2>2. msg.won => Told(down[c])
        BY <1>1, <1>5, <2>1, ToldSteps
    <2>3. msg.won => Trace(c)
        BY <2>2 DEF Trace, Told
    <2> QED BY <1>1, <1>5, <2>1, <2>3, FinalizeTraces
<1>6. CASE Seen(p, msg)
    <2>1. /\ UNCHANGED <<key, saving>>
          /\ mail' = mail \/ mail' = Useful(mail \cup Hello(c, {msg.from}), conn, key)
        BY <1>6 DEF Seen
    <2>2. \A f \in mail' : f.m = "key" => f \in mail
        BY <1>1, <2>1, UsefulFacts, HelloFacts
    <2> QED BY <2>1, <2>2 DEF Trace
<1> QED BY <1>4, <1>5, <1>6 DEF Receive

LEMMA CutTraces ==
    ASSUME TypeOK, NEW p \in Peer, Cut(p), NEW k \in Conn
    PROVE  (Told(down'[k]) => Told(down[k])) /\ mail' \subseteq mail
<1>1. down'[k] = down[k] \/ down'[k] = <<>>
    BY DEF Cut, TypeOK
<1> QED BY <1>1, CutTypes, ToldSteps DEF TypeOK

LEMMA ClientTraces ==
    ASSUME TypeOK, NEW p \in Peer, Client(p), NEW k \in Conn, Trace(k)'
    PROVE  Trace(k)
<1>1. CASE Open(p)
    <2>1. \A q \in Peer : key'[q] = key[q] \/ (q = p /\ key'[q] = escrow[AccountOf[p]])
        BY <1>1 DEF Open, TypeOK
    <2>2. AccountOf[p] \in Account
        BY EdgeAccounts
    <2> QED BY <1>1, <2>1, <2>2 DEF Open, hubVars, Trace
<1>2. CASE Receive(p)
    BY <1>2, ReceiveTraces
<1>3. CASE Tick(p)
    <2>1. \A q \in Peer : k \in saving'[q] => k \in saving[q] \/ key[q] = k
        BY <1>3 DEF Tick, TypeOK
    <2>2. mail' = mail \/ (conn[p] \in Conn /\ mail' = Useful(mail \cup Hello(conn[p], present[p]), conn, key))
        BY <1>3 DEF Tick, TypeOK
    <2>3. \A f \in mail' : f.m = "key" => f \in mail
        BY <2>2, UsefulFacts, HelloFacts
    <2> QED BY <1>3, <2>1, <2>3 DEF Tick, hubVars, Trace
<1>4. CASE SaveDone(p)
    <2>1. PICK s \in saving[p] : escrow' = [escrow EXCEPT ![AccountOf[p]] = s] /\ saving' = [saving EXCEPT ![p] = @ \ {s}]
        BY <1>4 DEF SaveDone
    <2>2. \A a \in Account : escrow'[a] = k => escrow[a] = k \/ k \in saving[p]
        BY <2>1 DEF TypeOK
    <2>3. \A q \in Peer : k \in saving'[q] => k \in saving[q]
        BY <2>1 DEF TypeOK
    <2> QED BY <1>4, <2>2, <2>3 DEF SaveDone, hubVars, Trace
<1>4a. CASE SaveFails(p)
    <2>1. \A q \in Peer : k \in saving'[q] => k \in saving[q]
        BY <1>4a DEF SaveFails, TypeOK
    <2> QED BY <1>4a, <2>1 DEF SaveFails, hubVars, Trace
<1>5. CASE Drop(p)
    <2>1. \A q \in Peer : key'[q] = k => key[q] = k
        BY <1>5, ConnFacts DEF Drop, TypeOK
    <2>2. Cut(p) /\ UNCHANGED <<hubVars, saving, escrow>>
        BY <1>5 DEF Drop
    <2>3. (Told(down'[k]) => Told(down[k])) /\ mail' \subseteq mail
        BY <2>2, CutTraces
    <2> QED BY <2>1, <2>2, <2>3 DEF hubVars, Trace, Told
<1>6. CASE Reconnect(p)
    BY <1>6 DEF Reconnect, hubVars, Trace
<1>7. CASE Close(p)
    <2>1. \A q \in Peer : (key'[q] = k => key[q] = k) /\ (k \in saving'[q] => k \in saving[q])
        BY <1>7, ConnFacts DEF Close, TypeOK
    <2>2. Cut(p) /\ UNCHANGED <<hubVars, escrow>>
        BY <1>7 DEF Close
    <2>3. (Told(down'[k]) => Told(down[k])) /\ mail' \subseteq mail
        BY <2>2, CutTraces
    <2> QED BY <2>1, <2>2, <2>3 DEF hubVars, Trace, Told
<1> QED BY <1>1, <1>2, <1>3, <1>4, <1>4a, <1>5, <1>6, <1>7 DEF Client

LEMMA FrameTraces ==
    ASSUME TypeOK, MailInv, NEW f \in mail, Frame(f), NEW k \in Conn, Trace(k)'
    PROVE  Trace(k)
<1> DEFINE p == who[f.to]
           back == IF key[p] # None THEN [m |-> "key", key |-> key[p], to |-> f.from]
                   ELSE [m |-> "echo", from |-> f.to, to |-> f.from]
<1>1. f \in Mail /\ p \in Peer
    BY DEF TypeOK, MailInv, Made
<1>2. \A q \in Peer : key'[q] = k => key[q] = k \/ (f.m = "key" /\ f.key = k)
    BY <1>1 DEF Frame, TypeOK
<1>3. mail' \subseteq mail \cup {back}
    BY UsefulFacts DEF Frame
<1>4. back.m = "key" => back.key = key[p]
    OBVIOUS
<1>5. \A g \in mail' : g.m = "key" /\ g.key = k => g \in mail \/ key[p] = k
    BY <1>3, <1>4
<1> QED BY <1>1, <1>2, <1>5 DEF Frame, hubVars, Trace

LEMMA NextTypes ==
    ASSUME TypeOK, MailInv, [Next]_vars
    PROVE  TypeOK'
<1>1. CASE UNCHANGED vars
    BY <1>1 DEF vars, TypeOK
<1> QED BY <1>1, HubTypes, ClientTypes, FrameTypes DEF Next

LEMMA GenesisStep ==
    ASSUME TypeOK, MailInv, GenesisInv, [Next]_vars
    PROVE  GenesisInv'
<1>1. IsFiniteSet(Traces) /\ TypeOK'
    BY ConnFacts, FS_Subset, NextTypes DEF Traces
<1>2. ASSUME Traces' \subseteq Traces,
             \/ UNCHANGED <<owner, released>>
             \/ owner' = None /\ owner # None /\ released' = released + 1
      PROVE  GenesisInv'
    <2>1. Cardinality(Traces') <= Cardinality(Traces) /\ Cardinality(Traces') \in Nat /\ Cardinality(Traces) \in Nat
        BY <1>1, <1>2, FS_Subset, FS_CardinalityType
    <2> QED BY <1>2, <2>1 DEF GenesisInv, TypeOK
<1>3. CASE UNCHANGED vars
    <2>1. Traces' = Traces /\ UNCHANGED <<owner, released>>
        BY <1>3 DEF vars, Traces, Trace
    <2> QED BY <1>2, <2>1
<1>4. CASE \E p \in Peer : Client(p)
    <2>1. UNCHANGED <<owner, released>>
        BY <1>4 DEF Client, Open, Receive, Tick, SaveDone, SaveFails, Drop, Reconnect, Close, hubVars
    <2>2. Traces' \subseteq Traces
        BY <1>4, ClientTraces DEF Traces
    <2> QED BY <1>2, <2>1, <2>2
<1>5. CASE \E f \in mail : Frame(f)
    <2>1. UNCHANGED <<owner, released>>
        BY <1>5 DEF Frame, hubVars
    <2>2. Traces' \subseteq Traces
        BY <1>5, FrameTraces DEF Traces
    <2> QED BY <1>2, <2>1, <2>2
<1>6. ASSUME NEW c \in Conn, Hub(c) PROVE GenesisInv'
    <2>1. CASE owner = None /\ owner' = c /\ released' = released
        <3>1. Traces' \subseteq Traces \cup {c}
            BY <1>6, HubTraces DEF Traces
        <3>2. /\ IsFiniteSet(Traces \cup {c})
              /\ Cardinality(Traces \cup {c}) <= Cardinality(Traces) + 1
            BY <1>1, FS_AddElement, FS_CardinalityType
        <3>3. Cardinality(Traces') <= Cardinality(Traces \cup {c}) /\ Cardinality(Traces') \in Nat
              /\ Cardinality(Traces \cup {c}) \in Nat /\ Cardinality(Traces) \in Nat
            BY <1>1, <3>1, <3>2, FS_Subset, FS_CardinalityType
        <3>4. owner' # None
            BY <2>1, ConnFacts
        <3> QED BY <2>1, <3>2, <3>3, <3>4 DEF GenesisInv, TypeOK
    <2>2. CASE ~(owner = None /\ owner' = c /\ released' = released)
        <3>1. Traces' \subseteq Traces
            BY <1>6, <2>2, HubTraces DEF Traces
        <3>2. \/ UNCHANGED <<owner, released>>
              \/ owner' = None /\ owner # None /\ released' = released + 1
            BY <1>6, <2>2, ConnFacts DEF Hub, JoinRead, JoinEnter, ClaimOwner, Disconnect, Left
        <3> QED BY <1>2, <3>1, <3>2
    <2> QED BY <2>1, <2>2
<1> QED BY <1>3, <1>4, <1>5, <1>6 DEF Next
-----------------------------------------------------------------------------
(* The life of a connection.                                                *)

LEMMA HubSends ==
    ASSUME TypeOK, \A d \in Conn : ConnInv(d), NEW c \in Conn, Hub(c), NEW d \in Conn, down'[d] # <<>>
    PROVE  down[d] # <<>> \/ (status[d] = "up" /\ d \in entered')
<1>1. d \in group /\ status[d] = "up" => d \in entered /\ ~Leaving(d)
    BY DEF ConnInv
<1>2. CASE JoinRead(c)
    BY <1>2 DEF JoinRead
<1>3. CASE JoinEnter(c)
    <2> DEFINE e == Sent(down, group \ {c}, [m |-> "up", from |-> c])
    <2>1. e[d] # down[d] => d \in group /\ status[d] = "up"
        BY SentWhere
    <2>2. down' = Sent(e, {c}, [m |-> "joined", existing |-> work[c].existing]) /\ entered' = entered \cup {c}
        BY <1>3 DEF JoinEnter
    <2> HIDE DEF e
    <2>3. down'[d] # e[d] => d = c /\ status[d] = "up"
        BY <2>2, SentWhere
    <2> QED BY <1>1, <2>1, <2>2, <2>3
<1>4. CASE ClaimOwner(c)
    <2>1. c \in entered /\ entered' = entered
        BY <1>4 DEF ClaimOwner, ConnInv
    <2>2. down'[d] # down[d] => d = c /\ status[d] = "up"
        BY <1>4, SentWhere DEF ClaimOwner
    <2> QED BY <2>1, <2>2
<1>5. CASE Disconnect(c)
    BY <1>5 DEF Disconnect
<1>6. CASE Left(c)
    <2>1. down'[d] # down[d] => d \in group /\ status[d] = "up"
        BY <1>6, SentWhere DEF Left
    <2> QED BY <1>1, <1>6, <2>1 DEF Left
<1> QED BY <1>2, <1>3, <1>4, <1>5, <1>6 DEF Hub

LEMMA HubConns ==
    ASSUME TypeOK, \A d \in Conn : ConnInv(d), NEW c \in Conn, Hub(c), NEW d \in Conn
    PROVE  ConnInv(d)'
<1>1. down'[d] # <<>> => down[d] # <<>> \/ (status[d] = "up" /\ d \in entered')
    BY HubSends
<1>2. ConnInv(d) /\ ConnInv(c) /\ UNCHANGED <<who, conn>>
    BY DEF Hub, JoinRead, JoinEnter, ClaimOwner, Disconnect, Left, clientVars
<1>3. /\ work[d] = Idle => ~Reading(d) /\ ~Leaving(d)
      /\ Reading(d) => ~Leaving(d) /\ work[d] # Idle
      /\ Leaving(d) => work[d] # Idle
    BY WorkFacts
<1>4. CASE JoinRead(c)
    <2>1. d # c => work'[d] = work[d] /\ asked'[d] = asked[d]
        BY <1>4 DEF JoinRead, TypeOK
    <2>2. work'[c].m = "read" /\ work'[c].m # "left" /\ work'[c] # Idle /\ asked'[c] = "nothing"
        BY <1>4 DEF JoinRead, TypeOK, Idle
    <2> QED BY <1>1, <1>2, <1>3, <1>4, <2>1, <2>2 DEF JoinRead, ConnInv, Reading, Leaving
<1>5. CASE JoinEnter(c)
    <2>1. d # c => work'[d] = work[d]
        BY <1>5 DEF JoinEnter, TypeOK
    <2>2. work'[c] = Idle /\ work'[c].m # "read" /\ work'[c].m # "left"
        BY <1>5 DEF JoinEnter, TypeOK, Idle
    <2> QED BY <1>1, <1>2, <1>3, <1>5, <2>1, <2>2 DEF JoinEnter, ConnInv, Reading, Leaving
<1>6. CASE ClaimOwner(c)
    <2>1. (d # c => asked'[d] = asked[d]) /\ asked'[c] = "nothing"
        BY <1>6 DEF ClaimOwner, TypeOK
    <2> QED BY <1>1, <1>2, <1>3, <1>6, <2>1 DEF ClaimOwner, ConnInv, Reading, Leaving
<1>7. CASE Disconnect(c)
    <2>1. d # c => work'[d] = work[d] /\ status'[d] = status[d] /\ (d \in entered' <=> d \in entered)
        BY <1>7 DEF Disconnect, TypeOK
    <2>2. CASE c \in entered
        <3>1. work'[c].m = "left" /\ work'[c].m # "read" /\ work'[c] # Idle /\ status'[c] = "cut"
            BY <1>7, <2>2 DEF Disconnect, TypeOK, Idle
        <3> QED BY <1>1, <1>2, <1>3, <1>7, <2>1, <3>1 DEF Disconnect, ConnInv, Reading, Leaving
    <2>3. CASE c \notin entered
        <3>1. work'[c] = Idle /\ work'[c] = work[c] /\ status'[c] = "gone"
            BY <1>7, <2>3 DEF Disconnect, TypeOK
        <3> QED BY <1>1, <1>2, <1>3, <1>7, <2>1, <2>3, <3>1 DEF Disconnect, ConnInv, Reading, Leaving
    <2> QED BY <2>2, <2>3
<1>8. CASE Left(c)
    <2>1. d # c => work'[d] = work[d] /\ status'[d] = status[d]
        BY <1>8 DEF Left, TypeOK
    <2>2. work'[c] = Idle /\ work'[c].m # "read" /\ work'[c].m # "left" /\ status'[c] = "gone"
        BY <1>8 DEF Left, TypeOK, Idle
    <2> QED BY <1>1, <1>2, <1>3, <1>8, <2>1, <2>2 DEF Left, ConnInv, Reading, Leaving
<1> QED BY <1>4, <1>5, <1>6, <1>7, <1>8 DEF Hub

LEMMA DialConns ==
    ASSUME TypeOK, \A d \in Conn : ConnInv(d), NEW p \in Peer, Dial(p), conn[p] = None,
           UNCHANGED <<work, entered, group, down>>, NEW d \in Conn
    PROVE  ConnInv(d)'
<1> DEFINE c == Len(who) + 1
<1>1. /\ c \in Conn /\ Len(who') = c /\ who'[c] = p /\ d \in Nat /\ Len(who) \in Nat
      /\ status' = [status EXCEPT ![c] = "up"] /\ asked' = [asked EXCEPT ![c] = "join"]
      /\ conn' = [conn EXCEPT ![p] = c]
      /\ d <= Len(who) => who'[d] = who[d] /\ who[d] \in Peer
    <2>1. c \in Conn /\ Len(who') = c /\ who'[c] = p /\ (d <= Len(who) => who'[d] = who[d])
        BY DialTypes
    <2>2. d \in Nat /\ Len(who) \in Nat /\ (d <= Len(who) => who[d] \in Peer)
        BY EdgeBounds DEF TypeOK, Conn
    <2>3. /\ status' = [status EXCEPT ![c] = "up"] /\ asked' = [asked EXCEPT ![c] = "join"]
          /\ conn' = [conn EXCEPT ![p] = c]
        BY DEF Dial
    <2> QED BY <2>1, <2>2, <2>3
<1>2. ConnInv(d) /\ UNCHANGED <<Reading(d), Leaving(d)>> /\ (work[d] = Idle => ~Reading(d) /\ ~Leaving(d))
    BY WorkFacts DEF Reading, Leaving
<1>3. CASE d = c
    <2>1. status[d] = "gone"
        BY <1>1, <1>2, <1>3 DEF ConnInv
    <2>2. status'[d] = "up" /\ asked'[d] = "join" /\ conn'[who'[d]] = d
        BY <1>1, <1>3 DEF TypeOK
    <2> QED BY <1>1, <1>2, <1>3, <2>1, <2>2 DEF ConnInv
<1>4. CASE d # c
    <2>1. status'[d] = status[d] /\ asked'[d] = asked[d]
        BY <1>1, <1>4 DEF TypeOK
    <2>2. status[d] = "up" => conn'[who'[d]] = d
        <3>1. ASSUME status[d] = "up" PROVE d <= Len(who) /\ conn[who[d]] = d /\ who[d] # p
            BY <1>1, <1>2, <3>1, ConnFacts DEF ConnInv
        <3> QED BY <1>1, <3>1 DEF TypeOK
    <2>3. d > Len(who') => d > Len(who)
        BY <1>1
    <2> QED BY <1>2, <2>1, <2>2, <2>3 DEF ConnInv
<1> QED BY <1>3, <1>4

LEMMA CutConns ==
    ASSUME TypeOK, \A d \in Conn : ConnInv(d), \A q \in Peer : PeerInv(q), NEW p \in Peer, Cut(p),
           UNCHANGED <<who, asked, work, entered, group>>, NEW d \in Conn
    PROVE  ConnInv(d)'
<1>1. ConnInv(d) /\ PeerInv(p) /\ UNCHANGED <<Reading(d), Leaving(d)>>
    BY DEF Reading, Leaving
<1>2. CASE conn[p] = None
    BY <1>1, <1>2 DEF Cut, ConnInv
<1>3. CASE conn[p] # None
    <2>1. /\ status' = [status EXCEPT ![conn[p]] = "cut"] /\ down' = [down EXCEPT ![conn[p]] = <<>>]
          /\ conn' = [conn EXCEPT ![p] = None]
        BY <1>3 DEF Cut
    <2>2. CASE d = conn[p]
        <3>1. status'[d] = "cut" /\ down'[d] = <<>> /\ status[d] = "up"
            BY <1>1, <2>1, <2>2, <1>3 DEF TypeOK, PeerInv
        <3>2. d <= Len(who) /\ d \in Nat /\ Len(who) \in Nat
            BY <1>1, <2>2, <1>3, ConnFacts DEF PeerInv, TypeOK
        <3> QED BY <1>1, <3>1, <3>2 DEF ConnInv
    <2>3. CASE d # conn[p]
        <3>1. status'[d] = status[d] /\ down'[d] = down[d]
            BY <2>1, <2>3 DEF TypeOK
        <3>2. status[d] = "up" => conn'[who[d]] = d
            <4>1. ASSUME status[d] = "up" PROVE who[d] \in Peer /\ conn[who[d]] = d
                BY <1>1, <4>1, ConnFacts DEF ConnInv, TypeOK, Conn
            <4> QED BY <2>1, <2>3, <4>1 DEF TypeOK
        <3> QED BY <1>1, <3>1, <3>2 DEF ConnInv
    <2> QED BY <2>2, <2>3
<1> QED BY <1>2, <1>3

LEMMA ReceiveAsks ==
    ASSUME TypeOK, NEW p \in Peer, Receive(p)
    PROVE  \/ asked' = asked
           \/ /\ phase[p] = "joining" /\ phase' = [phase EXCEPT ![p] = "claiming"]
              /\ asked' = [asked EXCEPT ![conn[p]] = "claim"]
<1> DEFINE msg == Head(down[conn[p]])
<1>1. CASE Joined(p, msg.existing)
    BY <1>1 DEF Joined
<1>2. CASE UNCHANGED asked \/ Seen(p, msg)
    BY <1>2 DEF Seen
<1> QED BY <1>1, <1>2 DEF Receive

LEMMA ReceiveConns ==
    ASSUME TypeOK, \A d \in Conn : ConnInv(d), NEW p \in Peer, PeerInv(p), Receive(p), NEW d \in Conn
    PROVE  ConnInv(d)'
<1> DEFINE c == conn[p]
<1>1. /\ c \in Conn /\ c # None /\ down[c] # <<>> /\ down' = [down EXCEPT ![c] = Tail(@)]
      /\ UNCHANGED <<who, status, work, entered, group, conn>>
    BY ReceiveFacts DEF Receive, hubVars
<1>2. asked' = asked \/ asked' = [asked EXCEPT ![c] = "claim"]
    BY ReceiveAsks
<1>3. ConnInv(d) /\ UNCHANGED <<Reading(d), Leaving(d)>> /\ (work[d] = Idle => ~Reading(d) /\ ~Leaving(d))
    BY <1>1, WorkFacts DEF Reading, Leaving
<1>4. CASE d = c
    <2>1. status[d] = "up" /\ d \in entered
        BY <1>1, <1>3, <1>4 DEF ConnInv, PeerInv
    <2>2. asked'[d] = asked[d] \/ asked'[d] = "claim"
        BY <1>2 DEF TypeOK
    <2> QED BY <1>1, <1>3, <2>1, <2>2 DEF ConnInv
<1>5. CASE d # c
    <2>1. asked'[d] = asked[d] /\ down'[d] = down[d]
        BY <1>1, <1>2, <1>5 DEF TypeOK
    <2> QED BY <1>1, <1>3, <2>1 DEF ConnInv
<1> QED BY <1>4, <1>5

LEMMA SameConns ==
    ASSUME \A d \in Conn : ConnInv(d), UNCHANGED <<who, status, asked, work, entered, group, down, conn>>
    PROVE  \A d \in Conn : ConnInv(d)'
    BY DEF ConnInv, Reading, Leaving

LEMMA ClientConns ==
    ASSUME TypeOK, \A d \in Conn : ConnInv(d), \A q \in Peer : PeerInv(q), NEW p \in Peer, Client(p)
    PROVE  \A d \in Conn : ConnInv(d)'
<1>1. CASE Open(p)
    BY <1>1, DialConns DEF Open, hubVars, PeerInv
<1>2. CASE Receive(p)
    BY <1>2, ReceiveConns
<1>3. CASE Tick(p)
    BY <1>3, SameConns DEF Tick, hubVars
<1>4. CASE SaveDone(p)
    BY <1>4, SameConns DEF SaveDone, hubVars
<1>4a. CASE SaveFails(p)
    BY <1>4a, SameConns DEF SaveFails, hubVars
<1>5. CASE Drop(p)
    BY <1>5, CutConns DEF Drop, hubVars
<1>6. CASE Reconnect(p)
    BY <1>6, DialConns DEF Reconnect, hubVars
<1>7. CASE Close(p)
    BY <1>7, CutConns DEF Close, hubVars
<1> QED BY <1>1, <1>2, <1>3, <1>4, <1>4a, <1>5, <1>6, <1>7 DEF Client

LEMMA ConnStep ==
    ASSUME TypeOK, LinkInv, [Next]_vars
    PROVE  \A d \in Conn : ConnInv(d)'
<1>1. CASE UNCHANGED vars
    BY <1>1, SameConns DEF vars, LinkInv
<1>2. CASE \E f \in mail : Frame(f)
    BY <1>2, SameConns DEF Frame, hubVars, LinkInv
<1> QED BY <1>1, <1>2, HubConns, ClientConns DEF Next, LinkInv
-----------------------------------------------------------------------------
(* Rooms, and the frames between those who are in one.                       *)

LEMMA EnteredMade ==
    ASSUME TypeOK, \A d \in Conn : ConnInv(d)
    PROVE  \A d \in Conn : status[d] # "gone" \/ d \in entered \/ asked[d] # "nothing" \/ work[d] # Idle
                           => d \in Made /\ d <= Len(who)
<1>1. ASSUME NEW d \in Conn, ~(d > Len(who)) PROVE d \in Made /\ d <= Len(who)
    <2>1. d \in Nat /\ d >= 1 /\ Len(who) \in Nat
        BY EdgeBounds DEF TypeOK, Conn
    <2> QED BY <1>1, <2>1 DEF Made
<1> QED BY <1>1 DEF ConnInv

\* A room that was made stays made, whatever a step does to the calls asked.
LEMMA MadeStays ==
    ASSUME TypeOK, [Next]_vars
    PROVE  /\ Len(who) <= Len(who') /\ Made \subseteq Made'
           /\ \A r \in Conn : MadeRoom(r) => MadeRoom(r)'
<1>1. Len(who) \in Nat
    BY DEF TypeOK
<1>2. ASSUME UNCHANGED who, \A d \in Conn : asked'[d] # "join" \/ asked'[d] = asked[d]
      PROVE  /\ Len(who) <= Len(who') /\ Made \subseteq Made'
             /\ \A r \in Conn : MadeRoom(r) => MadeRoom(r)'
    BY <1>1, <1>2 DEF MadeRoom, Made
<1>3. CASE UNCHANGED vars \/ \E f \in mail : Frame(f)
    BY <1>2, <1>3 DEF vars, Frame
<1>4. ASSUME NEW c \in Conn, Hub(c)
      PROVE  UNCHANGED who /\ \A d \in Conn : asked'[d] # "join" \/ asked'[d] = asked[d]
    BY <1>4 DEF Hub, JoinRead, JoinEnter, ClaimOwner, Disconnect, Left, TypeOK
<1>5. ASSUME NEW p \in Peer, Receive(p)
      PROVE  UNCHANGED who /\ \A d \in Conn : asked'[d] # "join" \/ asked'[d] = asked[d]
    BY <1>5, ReceiveAsks DEF Receive, TypeOK
<1>6. ASSUME NEW p \in Peer, Dial(p)
      PROVE  /\ Len(who) <= Len(who') /\ Made \subseteq Made'
             /\ \A r \in Conn : MadeRoom(r) => MadeRoom(r)'
    <2>1. Len(who') = Len(who) + 1 /\ asked' = [asked EXCEPT ![Len(who) + 1] = "join"]
        BY <1>6, DialTypes DEF Dial
    <2>2. \A r \in Conn : r \in Nat
        BY ConnFacts
    <2> QED BY <1>1, <2>1, <2>2 DEF MadeRoom, Made, TypeOK
<1> QED BY <1>2, <1>3, <1>4, <1>5, <1>6 DEF Next, Client, Open, Tick, SaveDone, SaveFails, Drop, Reconnect, Close

\* A step that adds nobody to a room, and makes none.
LEMMA SameRooms ==
    ASSUME TypeOK, RoomInv, [Next]_vars,
           \A r \in Conn : members'[r] \subseteq members[r],
           room' = None \/ (room' = room /\ members'[room] \subseteq entered'),
           \A d \in Conn : Reading(d)' => Reading(d) /\ work'[d] = work[d]
    PROVE  RoomInv'
<1>1. room' # None => room' = room /\ room \in Conn /\ MadeRoom(room)
    BY ConnFacts DEF RoomInv, TypeOK
<1>2. \A d \in Conn : Reading(d)' => \E r \in Conn : work'[d].room = r /\ MadeRoom(r)
    BY ConnFacts, WorkFacts DEF RoomInv
<1>3. \A r \in Conn : members'[r] # {} => MadeRoom(r)
    BY ConnFacts DEF RoomInv
<1>4. \A r \in Conn : MadeRoom(r) => r <= Len(who') /\ asked'[r] # "join"
    BY MadeStays DEF MadeRoom
<1> QED BY <1>1, <1>2, <1>3, <1>4, ConnFacts DEF RoomInv, MadeRoom

LEMMA HubRooms ==
    ASSUME TypeOK, LinkInv, RoomInv, NEW c \in Conn, Hub(c), [Next]_vars
    PROVE  RoomInv'
<1>1. \A r \in Conn : MadeRoom(r) => r <= Len(who') /\ asked'[r] # "join"
    BY MadeStays DEF MadeRoom
<1>2. Room = Conn /\ None \notin Conn
    BY ConnFacts
<1>3. \A d \in Conn : Reading(d) => work[d].room \in Conn /\ MadeRoom(work[d].room)
    BY <1>2, WorkFacts DEF RoomInv
<1>4. CASE JoinRead(c)
    <2>1. PICK r \in Conn : r = IF room = None THEN c ELSE room
        BY <1>2 DEF TypeOK
    <2>2. /\ room' = r /\ UNCHANGED <<who, members, entered>>
          /\ work' = [work EXCEPT ![c] = [m |-> "read", room |-> r, existing |-> members[r] \ {c}]]
          /\ asked[c] = "join" /\ asked' = [asked EXCEPT ![c] = "nothing"]
        BY <1>4, <2>1 DEF JoinRead
    <2>3. r <= Len(who') /\ asked'[r] # "join" /\ members[r] \subseteq entered
        <3>1. CASE room = None
            <4>1. c <= Len(who) /\ members[c] = {} /\ asked'[c] = "nothing"
                BY <1>2, <2>2, EnteredMade DEF LinkInv, RoomInv, MadeRoom, TypeOK
            <4> QED BY <2>1, <2>2, <3>1, <4>1
        <3>2. CASE room # None
            BY <1>1, <2>1, <3>2 DEF RoomInv
        <3> QED BY <3>1, <3>2
    <2>4. \A d \in Conn : Reading(d)' => work'[d].room = r \/ (Reading(d) /\ work'[d] = work[d])
        <3>1. \A d \in Conn : d # c => work'[d] = work[d]
            BY <2>2 DEF TypeOK
        <3>2. work'[c].room = r
            BY <2>2 DEF TypeOK
        <3> QED BY <3>1, <3>2 DEF Reading
    <2>5. \A d \in Conn : Reading(d)' => \E s \in Conn : work'[d].room = s /\ s <= Len(who') /\ asked'[s] # "join"
        BY <1>1, <1>3, <2>3, <2>4
    <2>6. \A s \in Conn : members'[s] # {} => s <= Len(who') /\ asked'[s] # "join"
        BY <1>1, <1>2, <2>2 DEF RoomInv
    <2> QED BY <1>2, <2>2, <2>3, <2>5, <2>6 DEF RoomInv, MadeRoom
<1>5. CASE JoinEnter(c)
    <2>1. PICK r \in Conn : Reading(c) /\ work[c].room = r /\ MadeRoom(r)
        BY <1>3, <1>5 DEF JoinEnter, Reading
    <2>2. /\ members' = [members EXCEPT ![r] = @ \cup {c}]
          /\ entered' = entered \cup {c} /\ room' = room
          /\ work' = [work EXCEPT ![c] = Idle]
        BY <1>5, <2>1 DEF JoinEnter
    <2>3. \A d \in Conn : Reading(d)' => Reading(d) /\ work'[d] = work[d]
        BY <2>2 DEF Reading, TypeOK, Idle
    <2>4. \A s \in Conn : members'[s] # {} => s <= Len(who') /\ asked'[s] # "join"
        <3>1. \A s \in Conn : members'[s] # {} => s = r \/ members[s] # {}
            BY <1>2, <2>2 DEF TypeOK
        <3> QED BY <1>1, <1>2, <2>1, <3>1 DEF RoomInv
    <2>5. room # None => members'[room] \subseteq entered'
        BY <1>2, <2>2 DEF TypeOK, RoomInv
    <2>6. \A d \in Conn : Reading(d)' => \E s \in Conn : work'[d].room = s /\ s <= Len(who') /\ asked'[s] # "join"
        BY <1>1, <1>3, <2>3
    <2>7. room # None => room \in Conn /\ room <= Len(who') /\ asked'[room] # "join"
        BY <1>1, <1>2 DEF RoomInv, TypeOK
    <2> QED BY <1>2, <2>2, <2>4, <2>5, <2>6, <2>7 DEF RoomInv, MadeRoom
<1>6. CASE ClaimOwner(c)
    BY <1>6, SameRooms DEF ClaimOwner, Reading, RoomInv
<1>7. CASE Left(c)
    <2>1. \A d \in Conn : Reading(d)' => Reading(d) /\ work'[d] = work[d]
        BY <1>7 DEF Left, Reading, TypeOK, Idle
    <2>2. (room' = None \/ room' = room) /\ UNCHANGED <<members, entered>>
        BY <1>7 DEF Left
    <2> QED BY <2>1, <2>2, SameRooms DEF RoomInv
<1>8. CASE Disconnect(c)
    <2>1. \A d \in Conn : Reading(d)' => Reading(d) /\ work'[d] = work[d]
        <3>1. \A d \in Conn : d # c => work'[d] = work[d]
            BY <1>8 DEF Disconnect, TypeOK
        <3>2. work'[c] = work[c] \/ work'[c].m = "left"
            BY <1>8 DEF Disconnect, TypeOK
        <3> QED BY <3>1, <3>2 DEF Reading
    <2>2. UNCHANGED room /\ entered' = entered \ {c}
        BY <1>8 DEF Disconnect
    <2>3. \A s \in Conn : members'[s] \subseteq members[s]
        <3>1. CASE c \in entered
            <4>1. members' = [s \in Conn |-> IF s = room THEN members[s] \ {c} ELSE members[s]]
                BY <1>2, <1>8, <3>1 DEF Disconnect
            <4> QED BY <4>1
        <3>2. CASE c \notin entered
            BY <1>8, <3>2 DEF Disconnect
        <3> QED BY <3>1, <3>2
    <2>4. room # None => members'[room] \subseteq entered'
        <3>1. CASE c \in entered
            BY <1>2, <1>8, <2>2, <3>1 DEF Disconnect, RoomInv, TypeOK
        <3>2. CASE c \notin entered
            BY <1>8, <2>2, <3>2 DEF Disconnect, RoomInv
        <3> QED BY <3>1, <3>2
    <2> QED BY <2>1, <2>2, <2>3, <2>4, SameRooms
<1> QED BY <1>4, <1>5, <1>6, <1>7, <1>8 DEF Hub

LEMMA RoomStep ==
    ASSUME TypeOK, LinkInv, RoomInv, [Next]_vars
    PROVE  RoomInv'
<1>1. ASSUME UNCHANGED <<room, members, entered, work>> PROVE RoomInv'
    BY <1>1, SameRooms DEF RoomInv, Reading
<1>2. CASE UNCHANGED vars \/ \E f \in mail : Frame(f)
    BY <1>1, <1>2 DEF vars, Frame, hubVars
<1>3. CASE \E p \in Peer : Client(p)
    BY <1>1, <1>3 DEF Client, Open, Receive, Tick, SaveDone, SaveFails, Drop, Reconnect, Close, hubVars
<1> QED BY <1>2, <1>3, HubRooms DEF Next

\* What a step of a peer puts on its way.
LEMMA ClientMail ==
    ASSUME TypeOK, NEW p \in Peer, Client(p), NEW f \in mail'
    PROVE  f \in mail \/ (conn[p] \in Conn /\ \E ds : f \in Hello(conn[p], ds))
<1>1. CASE Receive(p)
    <2> DEFINE msg == Head(down[conn[p]])
    <2>1. conn[p] \in Conn
        BY <1>1, ReceiveFacts
    <2>2. CASE Joined(p, msg.existing)
        <3>1. CASE phase[p] = "joining" /\ key[p] # None
            BY <2>1, <2>2, <3>1, UsefulFacts DEF Joined, Finalize
        <3>2. CASE phase[p] = "joining" /\ ~(key[p] # None)
            BY <2>2, <3>2 DEF Joined
        <3>3. CASE phase[p] # "joining"
            BY <2>1, <2>2, <3>3, UsefulFacts DEF Joined
        <3> QED BY <3>1, <3>2, <3>3
    <2>3. CASE Finalize(p, msg.won, present[p])
        BY <2>1, <2>3, UsefulFacts DEF Finalize
    <2>4. CASE Seen(p, msg)
        BY <2>1, <2>4, UsefulFacts DEF Seen
    <2> QED BY <1>1, <2>2, <2>3, <2>4 DEF Receive
<1>2. CASE Tick(p)
    BY <1>2, UsefulFacts DEF Tick, TypeOK
<1>3. CASE Drop(p) \/ Close(p)
    BY <1>3, CutTypes DEF Drop, Close
<1> QED BY <1>1, <1>2, <1>3 DEF Client, Open, SaveDone, SaveFails, Reconnect

LEMMA MailStep ==
    ASSUME TypeOK, LinkInv, RoomInv, [Next]_vars
    PROVE  MailInv'
<1>1. Made \subseteq Made'
    BY MadeStays
<1>2. ASSUME NEW c \in Conn, NEW ds, NEW f \in Hello(c, ds) PROVE f.to \in Made /\ f.from \in Made
    <2>1. PICK d \in Relayed(c, ds) : f = [m |-> "hello", from |-> c, to |-> d]
        BY <1>2 DEF Hello
    <2>2. c \in members[room] /\ d \in members[room] /\ room # None
        BY <2>1 DEF Relayed, InRoom
    <2>3. c \in entered /\ d \in entered
        BY <2>2 DEF RoomInv
    <2> QED BY <2>1, <2>3, EnteredMade DEF LinkInv, TypeOK
<1>3. SUFFICES ASSUME NEW f \in mail', f \notin mail PROVE f.to \in Made /\ (f.m # "key" => f.from \in Made)
    BY <1>1 DEF MailInv, LinkInv
<1>4. CASE UNCHANGED vars \/ \E c \in Conn : Hub(c)
    BY <1>3, <1>4 DEF vars, Hub, JoinRead, JoinEnter, ClaimOwner, Disconnect, Left
<1>5. CASE \E p \in Peer : Client(p)
    BY <1>2, <1>3, <1>5, ClientMail
<1>6. ASSUME NEW g \in mail, Frame(g) PROVE f.to \in Made /\ (f.m # "key" => f.from \in Made)
    <2>1. g.to \in Made /\ (g.m # "key" => g.from \in Made) /\ g \in Mail
        BY DEF LinkInv, MailInv, TypeOK
    <2>2. /\ g.m = "hello" \/ g.m = "echo"
          /\ \/ f = [m |-> "key", key |-> key[who[g.to]], to |-> g.from]
             \/ f = [m |-> "echo", from |-> g.to, to |-> g.from]
        BY <1>3, <1>6, UsefulFacts DEF Frame
    <2> QED BY <2>1, <2>2
<1> QED BY <1>4, <1>5, <1>6 DEF Next
-----------------------------------------------------------------------------
(* A peer and what it is waiting for.                                       *)

LEMMA JoinedFacts ==
    /\ JoinedFirst(<<>>)
    /\ \A s \in Seq(Msg), msg \in Msg :
          /\ JoinedFirst(s) /\ msg.m # "joined" => JoinedFirst(Append(s, msg))
          /\ s = <<>> => JoinedFirst(Append(s, msg))
          /\ msg.m = "joined" => Has(Append(s, msg), "joined")
    /\ \A s \in Seq(Msg) :
          s # <<>> /\ JoinedFirst(s) => /\ JoinedFirst(Tail(s)) /\ ~Has(Tail(s), "joined")
                                        /\ Has(s, "joined") => Head(s).m = "joined"
<1>1. JoinedFirst(<<>>)
    BY DEF JoinedFirst
<1>2. ASSUME NEW s \in Seq(Msg), NEW msg \in Msg
      PROVE  /\ JoinedFirst(s) /\ msg.m # "joined" => JoinedFirst(Append(s, msg))
             /\ s = <<>> => JoinedFirst(Append(s, msg))
             /\ msg.m = "joined" => Has(Append(s, msg), "joined")
    <2>1. JoinedFirst(s) /\ msg.m # "joined" => JoinedFirst(Append(s, msg))
        BY AppendFacts DEF JoinedFirst
    <2>2. s = <<>> => JoinedFirst(Append(s, msg))
        BY DEF JoinedFirst
    <2>3. Len(s) + 1 \in DOMAIN Append(s, msg) /\ Append(s, msg)[Len(s) + 1] = msg
        OBVIOUS
    <2> QED BY <2>1, <2>2, <2>3 DEF Has
<1>3. ASSUME NEW s \in Seq(Msg), s # <<>>, JoinedFirst(s)
      PROVE  /\ JoinedFirst(Tail(s)) /\ ~Has(Tail(s), "joined")
             /\ Has(s, "joined") => Head(s).m = "joined"
    BY <1>3, TailFacts DEF JoinedFirst, Has
<1> QED BY <1>1, <1>2, <1>3

LEMMA HeardFacts ==
    /\ \A m : ~Has(<<>>, m) /\ Once(<<>>, m)
    /\ \A s \in Seq(Msg), msg \in Msg, m \in {"joined", "claimed"} :
          /\ Has(Append(s, msg), m) => Has(s, m) \/ msg.m = m
          /\ Once(s, m) /\ (msg.m # m \/ ~Has(s, m)) => Once(Append(s, msg), m)
    /\ \A s \in Seq(Msg), m \in {"joined", "claimed"} :
          s # <<>> => /\ Has(Tail(s), m) => Has(s, m)
                      /\ Once(s, m) => Once(Tail(s), m) /\ (Head(s).m = m => ~Has(Tail(s), m))
                      /\ Head(s).m = m => Has(s, m)
    BY KindsAfterAppend, KindsAfterTail, NoKinds

\* What the hub does to the connection of a peer.
LEMMA HubPeers ==
    ASSUME TypeOK, LinkInv, NEW c \in Conn, Hub(c), NEW p \in Peer
    PROVE  PeerInv(p)'
<1>1. PeerInv(p) /\ UNCHANGED <<who, conn, phase, present>>
    BY DEF LinkInv, Hub, JoinRead, JoinEnter, ClaimOwner, Disconnect, Left, clientVars
<1>2. CASE conn[p] = None
    BY <1>1, <1>2 DEF PeerInv
<1>3. ASSUME NEW d \in Conn, conn[p] = d, d # None PROVE PeerInv(p)'
    <2>1. d \in Conn /\ status[d] = "up" /\ ConnInv(d) /\ ConnInv(c) /\ down[d] \in Seq(Msg)
        BY <1>1, <1>3 DEF PeerInv, TypeOK, LinkInv
    <2>2. ASSUME status'[d] = "up", asked'[d] = asked[d], d \in entered' <=> d \in entered,
                 \/ down'[d] = down[d]
                 \/ \E msg \in Msg : msg.m \notin {"joined", "claimed"} /\ down'[d] = Append(down[d], msg)
          PROVE  PeerInv(p)'
        <3>1. /\ \A m \in {"joined", "claimed"} : Has(down'[d], m) <=> Has(down[d], m)
              /\ Once(down[d], "claimed") => Once(down'[d], "claimed")
              /\ JoinedFirst(down[d]) => JoinedFirst(down'[d])
            <4>1. CASE down'[d] = down[d]
                BY <4>1
            <4>2. CASE \E msg \in Msg : msg.m \notin {"joined", "claimed"} /\ down'[d] = Append(down[d], msg)
                <5>1. PICK msg \in Msg : msg.m \notin {"joined", "claimed"} /\ down'[d] = Append(down[d], msg)
                    BY <4>2
                <5>2. \A m : Has(down[d], m) => Has(down'[d], m)
                    BY <2>1, <5>1, AppendFacts DEF Has
                <5>3. \A m \in {"joined", "claimed"} : Has(down'[d], m) => Has(down[d], m)
                    BY <2>1, <5>1, KindsAfterAppend
                <5>4. Once(down[d], "claimed") => Once(down'[d], "claimed")
                    BY <2>1, <5>1, KindsAfterAppend
                <5> QED BY <2>1, <5>1, <5>2, <5>3, <5>4, JoinedFacts
            <4> QED BY <2>2, <4>1, <4>2
        <3> QED BY <1>1, <1>3, <2>2, <3>1 DEF PeerInv
    <2>3. \A e, cs, msg : msg.m \notin {"joined", "claimed"} =>
              Sent(e, cs, msg)[d] = e[d] \/ Sent(e, cs, msg)[d] = Append(e[d], msg)
        BY <2>1, SentWhere
    <2>4. CASE JoinRead(c)
        <3>1. d # c => asked'[d] = asked[d]
            BY <2>4 DEF JoinRead, TypeOK
        <3>2. d # c => PeerInv(p)'
            BY <2>1, <2>2, <2>4, <3>1 DEF JoinRead
        <3>3. asked[c] = "join" /\ asked'[c] = "nothing" /\ UNCHANGED <<status, entered, down>>
            BY <2>4 DEF JoinRead, TypeOK
        <3>4. d = c => PeerInv(p)'
            BY <1>1, <1>3, <3>3 DEF PeerInv
        <3> QED BY <3>2, <3>4
    <2>5. CASE JoinEnter(c)
        <3> DEFINE up == [m |-> "up", from |-> c]
                   joined == [m |-> "joined", existing |-> work[c].existing]
                   e == Sent(down, group \ {c}, up)
        <3>1. up \in Msg /\ joined \in Msg /\ Reading(c)
            BY <2>5, MsgFacts, WorkFacts DEF JoinEnter, Reading
        <3>2. down' = Sent(e, {c}, joined) /\ entered' = entered \cup {c} /\ UNCHANGED <<status, asked>>
            BY <2>5 DEF JoinEnter
        <3>3. /\ d \in group \ {c} => e[d] = Append(down[d], up)
              /\ d \notin group \ {c} => e[d] = down[d]
            BY <2>1, SentWhere
        <3>4. CASE d # c
            <4>1. down'[d] = e[d]
                <5> HIDE DEF e, joined
                <5> QED BY <2>1, <3>2, <3>4, SentWhere
            <4>2. up.m \notin {"joined", "claimed"}
                OBVIOUS
            <4> HIDE DEF up, e
            <4> QED BY <2>1, <2>2, <3>1, <3>2, <3>3, <3>4, <4>1, <4>2
        <3>5. CASE d = c
            <4>1. down[d] = <<>> /\ c \notin entered /\ asked[c] = "nothing"
                BY <2>1, <3>1, <3>5 DEF ConnInv
            <4>2. down'[d] = Append(<<>>, joined)
                <5> HIDE DEF joined
                <5>1. down'[d] = Append(e[d], joined)
                    BY <2>1, <3>2, <3>5, SentWhere
                <5> QED BY <3>3, <3>5, <4>1, <5>1
            <4>3. joined.m = "joined"
                OBVIOUS
            <4> HIDE DEF joined
            <4>4. /\ JoinedFirst(down'[d]) /\ Has(down'[d], "joined") /\ ~Has(down'[d], "claimed")
                  /\ Once(down'[d], "claimed")
                <5>1. <<>> \in Seq(Msg)
                    OBVIOUS
                <5>2. JoinedFirst(down'[d]) /\ Has(down'[d], "joined")
                    BY <3>1, <4>2, <4>3, <5>1, JoinedFacts
                <5>3. ~Has(down'[d], "claimed")
                    BY <3>1, <4>2, <4>3, <5>1, HeardFacts
                <5>4. Once(down'[d], "claimed")
                    BY <3>1, <4>2, <4>3, <5>1, HeardFacts
                <5> QED BY <5>2, <5>3, <5>4
            <4> QED BY <1>1, <1>3, <3>2, <3>5, <4>1, <4>4 DEF PeerInv
        <3> QED BY <3>4, <3>5
    <2>6. CASE ClaimOwner(c)
        <3>1. PICK msg \in Msg : down' = Sent(down, {c}, msg) /\ msg.m = "claimed"
            BY <2>6, MsgFacts DEF ClaimOwner
        <3>1a. msg \in Msg /\ msg.m = "claimed" /\ msg.m # "joined"
            BY <3>1
        <3>2. asked[c] = "claim" /\ asked' = [asked EXCEPT ![c] = "nothing"] /\ UNCHANGED <<status, entered>>
            BY <2>6 DEF ClaimOwner
        <3>3. CASE d # c
            <4>1. down'[d] = down[d]
                BY <3>1, <3>3, SentWhere
            <4>2. asked'[d] = asked[d]
                BY <3>2, <3>3 DEF TypeOK
            <4> QED BY <2>1, <2>2, <3>2, <4>1, <4>2
        <3>4. CASE d = c
            <4>0. down'[d] = Append(down[d], msg)
                BY <2>1, <3>1, <3>4, SentWhere
            <4>1. down'[d] = Append(down[d], msg) /\ asked'[d] = "nothing"
                BY <3>2, <3>4, <4>0 DEF TypeOK
            <4>2. phase[p] = "claiming" /\ ~Has(down[d], "claimed") /\ ~Has(down[d], "joined") /\ d \in entered
                BY <1>1, <1>3, <3>2, <3>4 DEF PeerInv
            <4>3. Once(down'[d], "claimed") /\ ~Has(down'[d], "joined") /\ JoinedFirst(down'[d])
                <5>1. Once(down[d], "claimed") /\ JoinedFirst(down[d])
                    BY <1>1, <1>3 DEF PeerInv
                <5>2. Once(down'[d], "claimed")
                    BY <2>1, <3>1a, <4>1, <4>2, <5>1, HeardFacts
                <5>3. ~Has(down'[d], "joined")
                    BY <2>1, <3>1a, <4>1, <4>2, HeardFacts
                <5>4. JoinedFirst(down'[d])
                    BY <2>1, <3>1, <4>1, <5>1, JoinedFacts
                <5> QED BY <5>2, <5>3, <5>4
            <4> QED BY <1>1, <1>3, <3>2, <4>1, <4>2, <4>3 DEF PeerInv
        <3> QED BY <3>3, <3>4
    <2>7. CASE Disconnect(c)
        <3>1. c # d /\ UNCHANGED <<asked, down>> /\ entered' = entered \ {c}
            BY <2>1, <2>7 DEF Disconnect
        <3>2. status'[d] = status[d]
            BY <2>1, <2>7, <3>1 DEF Disconnect, TypeOK
        <3> QED BY <2>1, <2>2, <3>1, <3>2
    <2>8. CASE Left(c)
        <3>1. c # d /\ UNCHANGED <<asked, entered>> /\ status'[d] = status[d]
            BY <2>1, <2>8 DEF Left, ConnInv, Leaving, TypeOK
        <3>2. PICK msg \in Msg : down' = Sent(down, group \ {c}, msg) /\ msg.m = "down"
            BY <2>8, MsgFacts DEF Left
        <3>3. down'[d] = down[d] \/ down'[d] = Append(down[d], msg)
            BY <2>3, <3>2
        <3> QED BY <2>1, <2>2, <3>1, <3>2, <3>3
    <2> QED BY <2>4, <2>5, <2>6, <2>7, <2>8 DEF Hub
<1> QED BY <1>2, <1>3 DEF TypeOK

\* A peer changes nothing of another's, nor of its connection.
LEMMA OthersStay ==
    ASSUME TypeOK, LinkInv, NEW p \in Peer, Client(p), NEW q \in Peer, q # p
    PROVE  /\ conn'[q] = conn[q] /\ phase'[q] = phase[q] /\ present'[q] = present[q] /\ key'[q] = key[q]
           /\ ticks'[q] = ticks[q] /\ saved'[q] = saved[q] /\ saving'[q] = saving[q] /\ late'[q] = late[q]
           /\ unsaved'[q] = unsaved[q]
<1>1. CASE Open(p)
    BY <1>1 DEF Open, Dial, TypeOK
<1>2. CASE Receive(p)
    <2> DEFINE msg == Head(down[conn[p]])
    <2>1. UNCHANGED <<conn, unsaved>>
        BY <1>2 DEF Receive
    <2>2. CASE Joined(p, msg.existing)
        BY <2>1, <2>2 DEF Joined, Finalize, TypeOK
    <2>3. CASE Finalize(p, msg.won, present[p]) /\ UNCHANGED <<present, asked>>
        BY <2>1, <2>3 DEF Finalize, TypeOK
    <2>4. CASE Seen(p, msg)
        BY <2>1, <2>4 DEF Seen, TypeOK
    <2> QED BY <1>2, <2>2, <2>3, <2>4 DEF Receive
<1>3. CASE Tick(p)
    BY <1>3 DEF Tick, TypeOK
<1>4. CASE SaveDone(p)
    BY <1>4 DEF SaveDone, TypeOK
<1>4a. CASE SaveFails(p)
    BY <1>4a DEF SaveFails, TypeOK
<1>5. CASE Drop(p)
    <2>1. conn'[q] = conn[q]
        BY <1>5, CutTypes DEF Drop
    <2> QED BY <1>5, <2>1 DEF Drop, TypeOK
<1>6. CASE Reconnect(p)
    BY <1>6 DEF Reconnect, Dial, TypeOK
<1>7. CASE Close(p)
    <2>1. conn'[q] = conn[q]
        BY <1>7, CutTypes DEF Close
    <2> QED BY <1>7, <2>1 DEF Close, TypeOK
<1> QED BY <1>1, <1>2, <1>3, <1>4, <1>4a, <1>5, <1>6, <1>7 DEF Client

LEMMA DialStays ==
    ASSUME TypeOK, NEW p \in Peer, Dial(p), NEW d \in Conn, d <= Len(who)
    PROVE  who'[d] = who[d] /\ status'[d] = status[d] /\ asked'[d] = asked[d]
<1>1. d # Len(who) + 1
    BY ConnFacts DEF TypeOK
<1>2. who'[d] = who[d]
    BY DialTypes
<1>3. status'[d] = status[d] /\ asked'[d] = asked[d]
    BY <1>1 DEF Dial, TypeOK
<1> QED BY <1>2, <1>3

LEMMA ConnsStay ==
    ASSUME TypeOK, LinkInv, NEW p \in Peer, Client(p), NEW d \in Conn, d # conn[p], d <= Len(who)
    PROVE  who'[d] = who[d] /\ status'[d] = status[d] /\ asked'[d] = asked[d] /\ down'[d] = down[d]
<1>1. CASE Open(p)
    BY <1>1, DialStays DEF Open
<1>2. CASE Receive(p)
    <2>1. down' = [down EXCEPT ![conn[p]] = Tail(@)] /\ UNCHANGED <<who, status>>
        BY <1>2 DEF Receive
    <2>2. down'[d] = down[d]
        BY <2>1 DEF TypeOK
    <2>3. asked'[d] = asked[d]
        <3>1. asked' = asked \/ asked' = [asked EXCEPT ![conn[p]] = "claim"]
            BY <1>2, ReceiveAsks
        <3> QED BY <3>1 DEF TypeOK
    <2> QED BY <2>1, <2>2, <2>3
<1>3. CASE Tick(p)
    BY <1>3 DEF Tick
<1>4. CASE SaveDone(p)
    BY <1>4 DEF SaveDone
<1>4a. CASE SaveFails(p)
    BY <1>4a DEF SaveFails
<1>5. CASE Drop(p)
    BY <1>5 DEF Drop, Cut, TypeOK
<1>6. CASE Reconnect(p)
    BY <1>6, DialStays DEF Reconnect
<1>7. CASE Close(p)
    BY <1>7 DEF Close, Cut, TypeOK
<1> QED BY <1>1, <1>2, <1>3, <1>4, <1>4a, <1>5, <1>6, <1>7 DEF Client

LEMMA OtherPeers ==
    ASSUME TypeOK, LinkInv, NEW p \in Peer, Client(p), NEW q \in Peer, q # p, [Next]_vars
    PROVE  PeerInv(q)'
<1>1. PeerInv(q) /\ PeerInv(p) /\ UNCHANGED entered
    BY DEF LinkInv, Client, Open, Receive, Tick, SaveDone, SaveFails, Drop, Reconnect, Close, hubVars
<1>2. conn'[q] = conn[q] /\ phase'[q] = phase[q] /\ present'[q] = present[q]
    BY OthersStay
<1>3. CASE conn[q] = None
    BY <1>1, <1>2, <1>3 DEF PeerInv
<1>4. ASSUME NEW d \in Conn, d = conn[q], d # None PROVE PeerInv(q)'
    <2>1. d # conn[p] /\ d <= Len(who)
        BY <1>1, <1>4 DEF PeerInv
    <2>2. who'[d] = who[d] /\ status'[d] = status[d] /\ asked'[d] = asked[d] /\ down'[d] = down[d]
        BY <2>1, ConnsStay
    <2>3. d <= Len(who')
        <3>1. Len(who) <= Len(who')
            BY MadeStays
        <3>2. Len(who) \in Nat /\ d \in Nat
            <4>1. d \in Conn
                OBVIOUS
            <4>2. Len(who) \in Nat
                BY DEF TypeOK
            <4> QED BY <4>1, <4>2, ConnFacts
        <3>3. TypeOK'
            BY NextTypes DEF LinkInv
        <3>4. Len(who') \in Nat
            BY <3>3 DEF TypeOK
        <3> QED BY <2>1, <3>1, <3>2, <3>4
    <2> QED BY <1>1, <1>2, <1>4, <2>2, <2>3 DEF PeerInv
<1> QED BY <1>3, <1>4 DEF TypeOK

LEMMA DialPeer ==
    ASSUME TypeOK, LinkInv, NEW p \in Peer, Dial(p), phase'[p] # "closed",
           phase'[p] = "joining" => present'[p] = {}, phase'[p] # "claiming", UNCHANGED <<entered, down>>
    PROVE  PeerInv(p)'
<1>1. PICK c \in Conn : c = Len(who) + 1
    BY DialTypes
<1>2. c = Len(who') /\ who'[c] = p /\ status'[c] = "up" /\ asked'[c] = "join" /\ conn'[p] = c
    BY <1>1, DialTypes DEF Dial, TypeOK
<1>3. down[c] = <<>> /\ c \notin entered
    <2>1. c > Len(who) /\ ConnInv(c)
        BY <1>1 DEF TypeOK, LinkInv
    <2> QED BY <2>1 DEF ConnInv
<1>4. down'[c] = <<>> /\ c \notin entered'
    BY <1>3
<1>5. JoinedFirst(<<>>) /\ ~Has(<<>>, "joined") /\ ~Has(<<>>, "claimed") /\ Once(<<>>, "claimed")
    BY DEF JoinedFirst, Has, Once
<1>6. c <= Len(who')
    BY <1>2, ConnFacts
<1>7. asked'[c] # "claim" /\ conn'[p] # None
    BY <1>2, ConnFacts
<1>8. /\ JoinedFirst(down'[c]) /\ ~Has(down'[c], "joined") /\ ~Has(down'[c], "claimed")
      /\ Once(down'[c], "claimed")
    BY <1>4, <1>5
<1> QED BY <1>2, <1>4, <1>6, <1>7, <1>8 DEF PeerInv

LEMMA ReceivePeer ==
    ASSUME TypeOK, LinkInv, NEW p \in Peer, Receive(p)
    PROVE  PeerInv(p)'
<1>1. PICK c \in Conn : c = conn[p]
    BY ReceiveFacts
<1>2. PICK msg \in Msg : msg = Head(down[c])
    BY <1>1, ReceiveFacts
<1>3. /\ down[c] # <<>> /\ down[c] \in Seq(Msg) /\ down'[c] = Tail(down[c]) /\ c # None
      /\ UNCHANGED <<who, status, entered, conn>>
    BY <1>1, ReceiveFacts DEF TypeOK, Receive, hubVars
<1>4. /\ PeerInv(p) /\ ConnInv(c) /\ status[c] = "up" /\ c \in entered
      /\ JoinedFirst(down[c]) /\ Once(down[c], "claimed")
    BY <1>1, <1>3 DEF PeerInv, ConnInv, LinkInv
<1>5. /\ JoinedFirst(down'[c]) /\ ~Has(down'[c], "joined") /\ Once(down'[c], "claimed")
      /\ Has(down[c], "joined") => msg.m = "joined"
    BY <1>2, <1>3, <1>4, JoinedFacts, HeardFacts
<1>6. /\ Has(down'[c], "claimed") => Has(down[c], "claimed")
      /\ msg.m = "claimed" => Has(down[c], "claimed") /\ ~Has(down'[c], "claimed")
      /\ msg.m = "joined" => Has(down[c], "joined")
    BY <1>2, <1>3, <1>4, HeardFacts
<1>7. SUFFICES /\ phase'[p] \notin {"closed", "joining"}
               /\ asked'[c] = "claim" \/ Has(down'[c], "claimed") => phase'[p] = "claiming"
               /\ asked'[c] = "claim" => ~Has(down'[c], "claimed")
    BY <1>1, <1>3, <1>4, <1>5 DEF PeerInv
<1>8. CASE msg.m = "joined" /\ Joined(p, msg.existing)
    <2>1. asked[c] # "claim" /\ ~Has(down[c], "claimed")
        BY <1>1, <1>3, <1>4, <1>6, <1>8 DEF PeerInv
    <2>2. phase[p] = "joining" /\ key[p] = None => phase'[p] = "claiming"
        BY <1>8 DEF Joined, TypeOK
    <2>3. ~(phase[p] = "joining" /\ key[p] = None) => phase'[p] \notin {"closed", "joining"} /\ UNCHANGED asked
        BY <1>1, <1>3, <1>4, <1>8 DEF Joined, Finalize, TypeOK, PeerInv
    <2> QED BY <1>6, <2>1, <2>2, <2>3
<1>9. CASE msg.m = "claimed" /\ Finalize(p, msg.won, present[p]) /\ UNCHANGED <<present, asked>>
    <2>1. phase'[p] = "open"
        BY <1>9 DEF Finalize, TypeOK
    <2>2. asked[c] # "claim"
        BY <1>1, <1>3, <1>4, <1>6, <1>9 DEF PeerInv
    <2> QED BY <1>6, <1>9, <2>1, <2>2
<1>10. CASE msg.m \in {"up", "down"} /\ Seen(p, msg)
    <2>1. UNCHANGED <<phase, asked>>
        BY <1>10 DEF Seen
    <2>2. phase[p] # "joining" /\ phase[p] # "closed"
        BY <1>1, <1>3, <1>4, <1>5, <1>10 DEF PeerInv
    <2> QED BY <1>1, <1>3, <1>4, <1>6, <2>1, <2>2 DEF PeerInv
<1> QED BY <1>1, <1>2, <1>8, <1>9, <1>10 DEF Receive

LEMMA SelfPeer ==
    ASSUME TypeOK, LinkInv, NEW p \in Peer, Client(p), [Next]_vars
    PROVE  PeerInv(p)'
<1>0. PeerInv(p)
    BY DEF LinkInv
<1>1. CASE Open(p)
    <2>1. phase'[p] = "joining" /\ present'[p] = {} /\ Dial(p) /\ UNCHANGED <<entered, down>>
        BY <1>0, <1>1 DEF Open, PeerInv, TypeOK, hubVars
    <2> QED BY <2>1, DialPeer
<1>2. CASE Receive(p)
    BY <1>2, ReceivePeer
<1>3. CASE Tick(p)
    BY <1>0, <1>3 DEF Tick, PeerInv, hubVars
<1>4. CASE SaveDone(p)
    BY <1>0, <1>4 DEF SaveDone, PeerInv, hubVars
<1>4a. CASE SaveFails(p)
    BY <1>0, <1>4a DEF SaveFails, PeerInv, hubVars
<1>5. CASE Drop(p)
    <2>1. conn'[p] = None /\ conn[p] # None
        BY <1>5, CutTypes DEF Drop
    <2>2. phase[p] # "closed"
        BY <1>0, <2>1 DEF PeerInv
    <2>3. phase'[p] \notin {"joining", "claiming"} /\ (phase'[p] = "closed" => present'[p] = {})
        BY <1>5, <2>2 DEF Drop, TypeOK
    <2> QED BY <2>1, <2>3 DEF PeerInv
<1>6. CASE Reconnect(p)
    <2>1. Dial(p) /\ UNCHANGED <<entered, down, phase, present>> /\ phase[p] \in {"open", "failed"}
        BY <1>6 DEF Reconnect, hubVars
    <2> QED BY <2>1, DialPeer
<1>7. CASE Close(p)
    <2>1. conn'[p] = None
        BY <1>7, CutTypes DEF Close
    <2>2. phase'[p] = "closed" /\ present'[p] = {}
        BY <1>7 DEF Close, TypeOK
    <2> QED BY <2>1, <2>2 DEF PeerInv
<1> QED BY <1>1, <1>2, <1>3, <1>4, <1>4a, <1>5, <1>6, <1>7 DEF Client

LEMMA LinkStep ==
    ASSUME TypeOK, LinkInv, RoomInv, [Next]_vars
    PROVE  LinkInv'
<1>1. ASSUME UNCHANGED <<who, status, asked, entered, down, conn, phase, present>> PROVE \A p \in Peer : PeerInv(p)'
    BY <1>1 DEF LinkInv, PeerInv
<1>2. CASE UNCHANGED vars \/ \E f \in mail : Frame(f)
    BY <1>1, <1>2, ConnStep, MailStep DEF vars, Frame, hubVars, LinkInv
<1>3. CASE \E c \in Conn : Hub(c)
    BY <1>3, HubPeers, ConnStep, MailStep DEF LinkInv
<1>4. CASE \E p \in Peer : Client(p)
    BY <1>4, SelfPeer, OtherPeers, ConnStep, MailStep DEF LinkInv
<1> QED BY <1>2, <1>3, <1>4 DEF Next
-----------------------------------------------------------------------------
(* Who holds the claim, who is busy, and where a connection nobody crossed is. *)

\* A handler of one connection leaves what the hub keeps of the others.
LEMMA HubStays ==
    ASSUME TypeOK, NEW c \in Conn, Hub(c)
    PROVE  /\ UNCHANGED <<who, mail, drops, clientVars>>
           /\ \A d \in Conn : d # c => /\ work'[d] = work[d] /\ asked'[d] = asked[d] /\ status'[d] = status[d]
                                       /\ d \in entered' <=> d \in entered
                                       /\ d \in group' <=> d \in group
<1>1. UNCHANGED <<who, mail, drops, clientVars>>
    BY DEF Hub, JoinRead, JoinEnter, ClaimOwner, Disconnect, Left
<1>2. ASSUME NEW d \in Conn, d # c
      PROVE  work'[d] = work[d] /\ asked'[d] = asked[d] /\ status'[d] = status[d]
    BY <1>2 DEF Hub, JoinRead, JoinEnter, ClaimOwner, Disconnect, Left, TypeOK
<1>3. ASSUME NEW d \in Conn, d # c
      PROVE  (d \in entered' <=> d \in entered) /\ (d \in group' <=> d \in group)
    BY <1>3 DEF Hub, JoinRead, JoinEnter, ClaimOwner, Disconnect, Left
<1> QED BY <1>1, <1>2, <1>3

\* A peer changes nothing of what the hub keeps.
LEMMA PeersLeave ==
    ASSUME (\E p \in Peer : Client(p)) \/ (\E f \in mail : Frame(f)) \/ UNCHANGED vars
    PROVE  UNCHANGED <<work, hubVars, crossed>>
    BY DEF Client, Open, Receive, Tick, SaveDone, SaveFails, Drop, Reconnect, Close, Frame, vars, hubVars

LEMMA NewBusy ==
    ASSUME TypeOK, NEW c \in Conn, Hub(c)
    PROVE  /\ \/ Busy' \subseteq Busy /\ crossed' = crossed
              \/ Busy' \subseteq Busy \cup {c} /\ crossed' = Crosses(c)
           /\ crossed \subseteq crossed'
<1>1. Busy' \subseteq Busy \cup {c}
    BY HubStays DEF Busy
<1>2. \/ work'[c] = Idle /\ crossed' = crossed
      \/ work'[c] = work[c] /\ crossed' = crossed
      \/ crossed' = Crosses(c)
    BY DEF Hub, JoinRead, JoinEnter, ClaimOwner, Disconnect, Left, TypeOK
<1> QED BY <1>1, <1>2, CrossesFacts DEF Busy

LEMMA CrossedStays ==
    ASSUME TypeOK, [Next]_vars
    PROVE  crossed \subseteq crossed'
    BY NewBusy, PeersLeave DEF Next

LEMMA BusyStep ==
    ASSUME TypeOK, BusyInv, [Next]_vars
    PROVE  BusyInv'
<1>1. CASE (\E p \in Peer : Client(p)) \/ (\E f \in mail : Frame(f)) \/ UNCHANGED vars
    BY <1>1, PeersLeave DEF BusyInv, Busy, Crossed
<1>2. ASSUME NEW c \in Conn, Hub(c) PROVE BusyInv'
    <2>1. CASE Busy' \subseteq Busy /\ crossed' = crossed
        BY <2>1 DEF BusyInv, Crossed
    <2>2. CASE Busy' \subseteq Busy \cup {c} /\ crossed' = Crosses(c)
        <3>1. \A d \in Busy : d # c => {c, d} \in crossed' /\ {d, c} \in crossed'
            <4>1. \A d \in Conn : {c, d} = {d, c}
                OBVIOUS
            <4> QED BY <2>2, <4>1, CrossesFacts DEF Busy
        <3>2. \A a, b \in Busy : a # b => {a, b} \in crossed'
            BY <1>2, NewBusy DEF BusyInv, Crossed
        <3> QED BY <2>2, <3>1, <3>2 DEF BusyInv, Crossed
    <2> QED BY <1>2, <2>1, <2>2, NewBusy
<1> QED BY <1>1, <1>2 DEF Next

LEMMA OwnerStep ==
    ASSUME TypeOK, LinkInv, OwnerInv, [Next]_vars
    PROVE  OwnerInv'
<1>1. CASE (\E p \in Peer : Client(p)) \/ (\E f \in mail : Frame(f)) \/ UNCHANGED vars
    BY <1>1, PeersLeave DEF OwnerInv, Leaving, hubVars
<1>2. ASSUME NEW c \in Conn, Hub(c) PROVE OwnerInv'
    <2>1. CASE owner' = c /\ c # owner
        <3>1. asked[c] = "claim" /\ UNCHANGED entered
            BY <1>2, <2>1, ConnFacts DEF Hub, JoinRead, JoinEnter, ClaimOwner, Disconnect, Left
        <3> QED BY <2>1, <3>1 DEF OwnerInv, LinkInv, ConnInv
    <2>2. ASSUME NEW d \in Conn, owner = d, owner' = d, d # c PROVE OwnerInv'
        BY <1>2, <2>2, HubStays, ConnFacts DEF OwnerInv, Leaving
    <2>3. CASE owner = c /\ owner' = c
        <3>1. c \in entered \/ Leaving(c)
            BY <2>3, ConnFacts DEF OwnerInv
        <3>2. ~Left(c)
            BY <2>3, ConnFacts DEF Left
        <3>3. CASE JoinRead(c) \/ JoinEnter(c) \/ ClaimOwner(c)
            <4>1. c \in entered
                BY <3>1, <3>3, WorkFacts DEF JoinRead, JoinEnter, ClaimOwner, Reading, Leaving, Idle
            <4> QED BY <2>3, <3>3, <4>1 DEF JoinRead, JoinEnter, ClaimOwner, OwnerInv
        <3>4. CASE Disconnect(c)
            <4>1. c \in entered
                BY <3>1, <3>4, WorkFacts DEF Disconnect
            <4>2. work'[c].m = "left"
                BY <3>4, <4>1 DEF Disconnect, TypeOK
            <4> QED BY <2>3, <4>2 DEF OwnerInv, Leaving
        <3> QED BY <1>2, <3>2, <3>3, <3>4 DEF Hub
    <2>4. owner' = None \/ owner' = owner \/ owner' = c
        BY <1>2 DEF Hub, JoinRead, JoinEnter, ClaimOwner, Disconnect, Left
    <2>5. owner' = None => OwnerInv'
        BY DEF OwnerInv
    <2> QED BY <2>1, <2>2, <2>3, <2>4, <2>5, ConnFacts DEF TypeOK
<1> QED BY <1>1, <1>2 DEF Next

LEMMA AloneStep ==
    ASSUME TypeOK, LinkInv, HubInv, [Next]_vars, NEW e \in Conn
    PROVE  AloneInv(e)'
<1>1. CASE (\E p \in Peer : Client(p)) \/ (\E f \in mail : Frame(f)) \/ UNCHANGED vars
    <2>1. UNCHANGED <<work, hubVars, crossed>>
        BY <1>1, PeersLeave
    <2>2. AloneInv(e)
        BY DEF HubInv
    <2> QED BY <2>1, <2>2 DEF AloneInv, Alone, Crossed, Reading, Leaving, hubVars
<1>2. ASSUME NEW c \in Conn, Hub(c), Alone(e)', Reading(e)' \/ e \in entered'
      PROVE  AloneInv(e)'
    <2>1. AloneInv(e) /\ Alone(e)
        <3>1. crossed \subseteq crossed'
            BY <1>2, NewBusy
        <3> QED BY <1>2, <3>1 DEF HubInv, Alone, Crossed
    <2>2. /\ \A d \in Conn : d # c => work'[d] = work[d] /\ (d \in entered' <=> d \in entered)
          /\ e # c => /\ Reading(e)' <=> Reading(e)
                      /\ Reading(e) \/ e \in entered
                      /\ work'[e] = work[e]
        BY <1>2, HubStays DEF Reading
    <2>3. CASE e # c
        <3>1. /\ room # None /\ room \in Conn
              /\ IF Reading(e) THEN work[e].room = room ELSE e \in members[room]
              /\ \A d \in Conn : Leaving(d) => work[d].room = room
            BY <2>1, <2>2, <2>3, ConnFacts DEF AloneInv, TypeOK
        <3>2. SUFFICES /\ room' = room
                       /\ Reading(e) \/ e \in members'[room]
                       /\ Leaving(c)' => work'[c].room = room
            BY <2>2, <2>3, <3>1 DEF AloneInv, Leaving
        <3>3. CASE JoinRead(c)
            <4>1. work'[c].m = "read"
                BY <3>3 DEF JoinRead, TypeOK
            <4> QED BY <3>1, <3>3, <4>1 DEF JoinRead, Leaving
        <3>4. CASE JoinEnter(c)
            <4>1. work'[c] = Idle
                BY <3>4 DEF JoinEnter, TypeOK
            <4>2. members[room] \subseteq members'[room]
                BY <3>1, <3>4, ConnFacts DEF JoinEnter, TypeOK
            <4> QED BY <3>1, <3>4, <4>1, <4>2 DEF JoinEnter, Leaving, Idle
        <3>5. CASE ClaimOwner(c)
            BY <3>1, <3>5 DEF ClaimOwner, Leaving
        <3>6. CASE Disconnect(c)
            <4>1. Leaving(c)' => work'[c].room = room
                BY <3>1, <3>6 DEF Disconnect, Leaving, TypeOK
            <4>2. e \in members[room] => e \in members'[room]
                BY <2>3, <3>1, <3>6, ConnFacts DEF Disconnect, TypeOK
            <4> QED BY <3>1, <3>6, <4>1, <4>2 DEF Disconnect
        <3>7. CASE Left(c)
            <4>1. work'[c] = Idle /\ UNCHANGED members
                BY <3>7 DEF Left, TypeOK
            <4>2. Leaving(c) /\ work[c].room = room
                BY <3>1, <3>7 DEF Left, Leaving
            <4>3. ~Reading(e)
                <5>1. Reading(e) => e \in Busy /\ c \in Busy
                    BY <4>2, WorkFacts DEF Busy
                <5> QED BY <2>1, <2>3, <5>1 DEF HubInv, BusyInv, Alone
            <4>4. room' = room
                BY <3>1, <3>7, <4>2, <4>3 DEF Left
            <4> QED BY <3>1, <4>1, <4>3, <4>4 DEF Leaving, Idle
        <3> QED BY <1>2, <3>3, <3>4, <3>5, <3>6, <3>7 DEF Hub
    <2>4. CASE e = c
        <3>1. CASE JoinRead(c)
            <4>1. crossed' = Crosses(c) /\ work'[c].m = "read"
                BY <3>1 DEF JoinRead, TypeOK
            <4>2. \A d \in Conn : d # c => work[d] = Idle
                BY <1>2, <2>4, <4>1, CrossesFacts DEF Alone, Crossed
            <4>3. \A d \in Conn : ~Leaving(d)'
                BY <2>2, <4>1, <4>2 DEF Leaving, Idle
            <4>4. room' = work'[c].room /\ room' # None /\ Reading(c)'
                BY <3>1, <4>1, ConnFacts DEF JoinRead, TypeOK, Reading
            <4> QED BY <2>4, <4>3, <4>4 DEF AloneInv
        <3>2. CASE JoinEnter(c)
            <4>1. /\ room # None /\ room \in Conn /\ work[c].room = room
                  /\ \A d \in Conn : Leaving(d) => work[d].room = room
                BY <2>1, <2>4, <3>2, ConnFacts DEF AloneInv, TypeOK, JoinEnter, Reading
            <4>2. work'[c] = Idle
                BY <3>2 DEF JoinEnter, TypeOK
            <4>3. c \in members'[room] /\ room' = room
                BY <3>2, <4>1, ConnFacts DEF JoinEnter, TypeOK
            <4>4. \A d \in Conn : Leaving(d)' => Leaving(d) /\ work'[d] = work[d]
                BY <2>2, <4>2 DEF Leaving, Idle
            <4> QED BY <2>4, <4>1, <4>2, <4>3, <4>4 DEF AloneInv, Reading, Idle
        <3>3. CASE ClaimOwner(c)
            <4>1. UNCHANGED <<work, room, members, entered>>
                BY <3>3 DEF ClaimOwner
            <4> QED BY <1>2, <2>1, <4>1 DEF AloneInv, Reading, Leaving
        <3>4. CASE Disconnect(c)
            <4>1. c \notin entered' /\ (work'[c] = Idle \/ work'[c].m = "left")
                BY <3>4 DEF Disconnect, TypeOK
            <4> QED BY <1>2, <2>4, <4>1 DEF Reading, Idle
        <3>5. CASE Left(c)
            <4>1. c \notin entered' /\ work'[c] = Idle
                BY <3>5 DEF Left, TypeOK, Leaving, LinkInv, ConnInv
            <4> QED BY <1>2, <2>4, <4>1 DEF Reading, Idle
        <3> QED BY <1>2, <3>1, <3>2, <3>3, <3>4, <3>5 DEF Hub
    <2> QED BY <2>3, <2>4
<1> QED BY <1>1, <1>2 DEF Next, AloneInv

LEMMA HubStep ==
    ASSUME TypeOK, LinkInv, HubInv, [Next]_vars
    PROVE  HubInv'
<1>1. RoomInv /\ BusyInv /\ OwnerInv
    BY DEF HubInv
<1> QED BY <1>1, RoomStep, BusyStep, OwnerStep, AloneStep DEF HubInv
-----------------------------------------------------------------------------
(* What a peer is going to believe.                                         *)

\* A connection entered is in the group; members of the known room have entered; no
\* room is named by a connection whose Join has not been served.
LEMMA InFacts ==
    ASSUME TypeOK, LinkInv, RoomInv
    PROVE  /\ \A d \in Conn : InRoom(d) => d \in entered /\ d \in group /\ room \in Conn /\ room # None
           /\ \A d \in Conn : asked[d] = "join" => members[d] = {}
<1>1. \A d \in Conn : InRoom(d) => d \in entered /\ room \in Conn /\ room # None
    BY ConnFacts DEF InRoom, RoomInv, TypeOK
<1>2. \A d \in Conn : d \in entered => d \in group
    BY DEF LinkInv, ConnInv
<1>3. \A d \in Conn : asked[d] = "join" => members[d] = {}
    BY ConnFacts DEF RoomInv, MadeRoom
<1> QED BY <1>1, <1>2, <1>3

LEMMA ReadStep ==
    ASSUME TypeOK, LinkInv, HubInv, SightInv, [Next]_vars, NEW c \in Conn, NEW d \in Conn
    PROVE  ReadInv(c, d)'
<1>1. CASE (\E p \in Peer : Client(p)) \/ (\E f \in mail : Frame(f)) \/ UNCHANGED vars
    <2>1. UNCHANGED <<work, hubVars, crossed>>
        BY <1>1, PeersLeave
    <2>2. ReadInv(c, d)
        BY DEF SightInv
    <2> QED BY <2>1, <2>2 DEF ReadInv, Crossed, Reading, hubVars
<1>2. ASSUME NEW x \in Conn, Hub(x), Reading(c)', c # d, ~Crossed(c, d)'
      PROVE  /\ work'[c].room = room' /\ d \in members'[room'] => d \in work'[c].existing
             /\ d \in work'[c].existing => d \in group'
    <2>1. ~Crossed(c, d) /\ ReadInv(c, d) /\ RoomInv
        <3>1. crossed \subseteq crossed'
            BY <1>2, NewBusy
        <3> QED BY <1>2, <3>1 DEF SightInv, HubInv, Crossed
    <2>2. /\ \A e \in Conn : InRoom(e) => e \in group /\ room \in Conn /\ room # None
          /\ \A e \in Conn : asked[e] = "join" => members[e] = {}
        BY <2>1, InFacts
    <2>3. CASE x = c
        <3>1. JoinRead(c)
            <4>1. ~JoinEnter(c)
                BY <1>2, <2>3 DEF JoinEnter, Reading, Idle, TypeOK
            <4>2. ~ClaimOwner(c)
                BY <1>2, <2>3 DEF ClaimOwner, Reading, Idle
            <4>3. ~Disconnect(c)
                BY <1>2, <2>3 DEF Disconnect, Reading, Idle, TypeOK
            <4>4. ~Left(c)
                BY <1>2, <2>3 DEF Left, Reading, Idle, TypeOK
            <4> QED BY <1>2, <2>3, <4>1, <4>2, <4>3, <4>4 DEF Hub
        <3>2. PICK r \in Conn : r = IF room = None THEN c ELSE room
            BY ConnFacts DEF TypeOK
        <3>3. /\ room' = r /\ work'[c].existing = members[r] \ {c} /\ UNCHANGED <<members, group>>
            BY <3>1, <3>2 DEF JoinRead, TypeOK
        <3>4. d \in members[r] => d \in group
            <4>1. room = None => members[r] = {}
                BY <2>2, <3>1, <3>2 DEF JoinRead
            <4>2. room # None /\ d \in members[r] => InRoom(d)
                BY <3>2 DEF InRoom
            <4> QED BY <2>2, <4>1, <4>2
        <3> QED BY <1>2, <3>3, <3>4
    <2>4. CASE x # c
        <3>1. work'[c] = work[c] /\ Reading(c)
            BY <1>2, <2>4, HubStays DEF Reading
        <3>2. work[c].room \in Conn /\ work[c] # Idle
            BY <3>1, WorkFacts, ConnFacts
        <3>3. /\ work[c].room = room /\ d \in members[room] => d \in work[c].existing
              /\ d \in work[c].existing => d \in group
            BY <1>2, <2>1, <3>1 DEF ReadInv
        <3>4. d = x => work[d] = Idle
            BY <1>2, <2>1, <2>4, <3>2 DEF HubInv, BusyInv, Busy
        <3>5. d \in group => d \in group'
            <4>1. d = x => ~Left(x)
                BY <3>4 DEF Left, Idle
            <4>2. ~Left(x) => group \subseteq group'
                BY <1>2 DEF Hub, JoinRead, JoinEnter, ClaimOwner, Disconnect
            <4>3. d # x => (d \in group' <=> d \in group)
                BY <1>2, HubStays
            <4> QED BY <4>1, <4>2, <4>3
        <3>6. work[c].room = room' /\ d \in members'[room'] => room' = room /\ d \in members[room]
            <4>1. CASE JoinRead(x)
                <5>1. room = None => room' = x /\ members'[x] = {}
                    BY <2>2, <4>1 DEF JoinRead
                <5>2. room # None => room' = room /\ UNCHANGED members
                    BY <4>1 DEF JoinRead
                <5> QED BY <5>1, <5>2
            <4>2. CASE JoinEnter(x)
                <5>1. d # x
                    BY <3>4, <4>2 DEF JoinEnter, Idle
                <5>2. room' = room /\ (\A r \in Conn : d \in members'[r] => d \in members[r])
                    BY <4>2, <5>1, ConnFacts DEF JoinEnter, TypeOK
                <5> QED BY <3>2, <5>2
            <4>3. CASE ClaimOwner(x)
                BY <4>3 DEF ClaimOwner
            <4>4. CASE Disconnect(x)
                <5>1. room' = room /\ (\A r \in Conn : d \in members'[r] => d \in members[r])
                    BY <4>4, ConnFacts DEF Disconnect, TypeOK
                <5> QED BY <3>2, <5>1
            <4>5. CASE Left(x)
                <5>1. (room' = None \/ room' = room) /\ UNCHANGED members
                    BY <4>5 DEF Left
                <5> QED BY <3>2, <5>1, ConnFacts
            <4> QED BY <1>2, <4>1, <4>2, <4>3, <4>4, <4>5 DEF Hub
        <3> QED BY <3>1, <3>3, <3>5, <3>6
    <2> QED BY <2>3, <2>4
<1> QED BY <1>1, <1>2 DEF Next, ReadInv

LEMMA SeenAfterAppend ==
    ASSUME NEW s \in Seq(Msg), NEW e \in Msg, NEW A, NEW d
    PROVE  WillSee(Append(s, e), d \in A, d)
               <=> Affirms(e, d) \/ (WillSee(s, d \in A, d) /\ ~Denies(e, d))
<1> DEFINE t == Append(s, e)
           n == Len(s) + 1
<1>1. /\ n \in DOMAIN t /\ t[n] = e /\ n \notin DOMAIN s
      /\ \A i \in DOMAIN t : i \in Nat /\ (i = n \/ (i \in DOMAIN s /\ i < n))
      /\ \A i \in DOMAIN s : i \in DOMAIN t /\ t[i] = s[i]
    OBVIOUS
<1>2. (\A j \in DOMAIN t : ~Denies(t[j], d)) <=> (\A j \in DOMAIN s : ~Denies(s[j], d)) /\ ~Denies(e, d)
    <2> HIDE DEF t, n
    <2> QED BY <1>1
<1>3. ASSUME NEW i \in DOMAIN s
      PROVE  (\A j \in DOMAIN t : j > i => ~Denies(t[j], d))
                 <=> (\A j \in DOMAIN s : j > i => ~Denies(s[j], d)) /\ ~Denies(e, d)
    <2>1. i \in Nat /\ n > i
        BY <1>1
    <2> HIDE DEF t, n
    <2> QED BY <1>1, <2>1
<1>4. \A j \in DOMAIN t : ~(j > n)
    BY <1>1
<1> HIDE DEF t, n
<1>5. ASSUME WillSee(t, d \in A, d) PROVE Affirms(e, d) \/ (WillSee(s, d \in A, d) /\ ~Denies(e, d))
    <2>1. CASE d \in A /\ \A j \in DOMAIN t : ~Denies(t[j], d)
        BY <1>2, <2>1 DEF WillSee
    <2>2. CASE \E i \in DOMAIN t : Affirms(t[i], d) /\ \A j \in DOMAIN t : j > i => ~Denies(t[j], d)
        <3>1. PICK i \in DOMAIN t : Affirms(t[i], d) /\ \A j \in DOMAIN t : j > i => ~Denies(t[j], d)
            BY <2>2
        <3>2. CASE i = n
            BY <1>1, <3>1, <3>2
        <3>3. CASE i \in DOMAIN s
            BY <1>1, <1>3, <3>1, <3>3 DEF WillSee
        <3> QED BY <1>1, <3>2, <3>3
    <2> QED BY <1>5, <2>1, <2>2 DEF WillSee
<1>6. ASSUME Affirms(e, d) PROVE WillSee(t, d \in A, d)
    BY <1>1, <1>4, <1>6 DEF WillSee
<1>7. ASSUME WillSee(s, d \in A, d), ~Denies(e, d) PROVE WillSee(t, d \in A, d)
    <2>1. CASE d \in A /\ \A j \in DOMAIN s : ~Denies(s[j], d)
        BY <1>2, <1>7, <2>1 DEF WillSee
    <2>2. CASE \E i \in DOMAIN s : Affirms(s[i], d) /\ \A j \in DOMAIN s : j > i => ~Denies(s[j], d)
        BY <1>1, <1>3, <1>7, <2>2 DEF WillSee
    <2> QED BY <1>7, <2>1, <2>2 DEF WillSee
<1> QED BY <1>5, <1>6, <1>7 DEF t

LEMMA SeenAfterTail ==
    ASSUME NEW s \in Seq(Msg), s # <<>>, NEW A, NEW B, NEW d,
           d \in B <=> Affirms(Head(s), d) \/ (d \in A /\ ~Denies(Head(s), d))
    PROVE  WillSee(s, d \in A, d) <=> WillSee(Tail(s), d \in B, d)
<1> DEFINE t == Tail(s)
<1>1. /\ 1 \in DOMAIN s /\ Head(s) = s[1] /\ DOMAIN s \subseteq Nat /\ DOMAIN t \subseteq Nat
      /\ \A i \in DOMAIN s : i = 1 \/ (i - 1 \in DOMAIN t /\ t[i - 1] = s[i] /\ i > 1)
      /\ \A i \in DOMAIN t : i + 1 \in DOMAIN s /\ s[i + 1] = t[i] /\ i + 1 # 1 /\ i + 1 > 1
    OBVIOUS
<1> HIDE DEF t
<1>2. (\A j \in DOMAIN s : j > 1 => ~Denies(s[j], d)) <=> (\A j \in DOMAIN t : ~Denies(t[j], d))
    BY <1>1
<1>3. (\A j \in DOMAIN s : ~Denies(s[j], d)) <=> (\A j \in DOMAIN t : ~Denies(t[j], d)) /\ ~Denies(Head(s), d)
    BY <1>1
<1>4. ASSUME NEW i \in DOMAIN t
      PROVE  (\A j \in DOMAIN s : j > i + 1 => ~Denies(s[j], d)) <=> (\A j \in DOMAIN t : j > i => ~Denies(t[j], d))
    <2>1. i \in Nat
        BY <1>1
    <2>2. ASSUME \A j \in DOMAIN s : j > i + 1 => ~Denies(s[j], d), NEW j \in DOMAIN t, j > i PROVE ~Denies(t[j], d)
        <3>1. j + 1 \in DOMAIN s /\ s[j + 1] = t[j] /\ j \in Nat
            BY <1>1
        <3>2. j + 1 > i + 1
            BY <2>1, <2>2, <3>1
        <3> QED BY <2>2, <3>1, <3>2
    <2>3. ASSUME \A j \in DOMAIN t : j > i => ~Denies(t[j], d), NEW j \in DOMAIN s, j > i + 1 PROVE ~Denies(s[j], d)
        <3>1. j \in Nat /\ j # 1 /\ j - 1 > i
            BY <1>1, <2>1, <2>3
        <3>2. j - 1 \in DOMAIN t /\ t[j - 1] = s[j]
            BY <1>1, <3>1
        <3> QED BY <2>3, <3>1, <3>2
    <2> QED BY <2>2, <2>3
<1>5. ASSUME WillSee(s, d \in A, d) PROVE WillSee(t, d \in B, d)
    <2>1. CASE d \in A /\ \A j \in DOMAIN s : ~Denies(s[j], d)
        BY <1>3, <2>1 DEF WillSee
    <2>2. CASE \E i \in DOMAIN s : Affirms(s[i], d) /\ \A j \in DOMAIN s : j > i => ~Denies(s[j], d)
        <3>1. PICK i \in DOMAIN s : Affirms(s[i], d) /\ \A j \in DOMAIN s : j > i => ~Denies(s[j], d)
            BY <2>2
        <3>2. CASE i = 1
            BY <1>1, <1>2, <3>1, <3>2 DEF WillSee
        <3>3. CASE i # 1
            <4>1. PICK k \in DOMAIN t : k = i - 1 /\ t[k] = s[i]
                BY <1>1, <3>3
            <4>2. i = k + 1
                BY <1>1, <4>1
            <4> QED BY <1>4, <3>1, <4>1, <4>2 DEF WillSee
        <3> QED BY <3>2, <3>3
    <2> QED BY <1>5, <2>1, <2>2 DEF WillSee
<1>6. ASSUME WillSee(t, d \in B, d) PROVE WillSee(s, d \in A, d)
    <2>1. CASE d \in B /\ \A j \in DOMAIN t : ~Denies(t[j], d)
        <3>1. CASE Affirms(Head(s), d)
            BY <1>1, <1>2, <2>1, <3>1 DEF WillSee
        <3>2. CASE d \in A /\ ~Denies(Head(s), d)
            BY <1>3, <2>1, <3>2 DEF WillSee
        <3> QED BY <2>1, <3>1, <3>2
    <2>2. CASE \E i \in DOMAIN t : Affirms(t[i], d) /\ \A j \in DOMAIN t : j > i => ~Denies(t[j], d)
        <3>1. PICK i \in DOMAIN t : Affirms(t[i], d) /\ \A j \in DOMAIN t : j > i => ~Denies(t[j], d)
            BY <2>2
        <3>2. i + 1 \in DOMAIN s /\ s[i + 1] = t[i]
            BY <1>1
        <3> QED BY <1>4, <3>1, <3>2 DEF WillSee
    <2> QED BY <1>6, <2>1, <2>2 DEF WillSee
<1> QED BY <1>5, <1>6 DEF t

\* What the hub sends of one connection, another hears; nothing else it sends speaks of it.
LEMMA HubSees ==
    ASSUME TypeOK, LinkInv, HubInv, SightInv, NEW x \in Conn, Hub(x), NEW p \in Peer, NEW d \in Conn
    PROVE  SeeInv(p, d)'
<1>1. UNCHANGED <<conn, present>>
    BY HubStays DEF clientVars
<1>2. SUFFICES ASSUME NEW c \in Conn, c = conn[p], c # None, c \in entered', c # d, ~Crossed(c, d)'
               PROVE  /\ InRoom(c)' /\ InRoom(d)' => WillSee(down'[c], d \in present[p], d)
                      /\ WillSee(down'[c], d \in present[p], d) => d \in group'
    BY <1>1 DEF SeeInv, TypeOK
<1>3. /\ PeerInv(p) /\ ConnInv(c) /\ ConnInv(x) /\ ConnInv(d) /\ RoomInv /\ BusyInv
      /\ status[c] = "up" /\ down[c] \in Seq(Msg)
    BY <1>2 DEF LinkInv, HubInv, PeerInv, TypeOK
<1>4. ~Crossed(c, d)
    <2>1. crossed \subseteq crossed'
        BY NewBusy
    <2> QED BY <1>2, <2>1 DEF Crossed
<1>5. c \in entered => /\ InRoom(c) /\ InRoom(d) => WillSee(down[c], d \in present[p], d)
                       /\ WillSee(down[c], d \in present[p], d) => d \in group
                       /\ c \in group
    BY <1>2, <1>3, <1>4 DEF SightInv, SeeInv, ConnInv
<1>6. /\ \A e \in Conn : InRoom(e) => e \in entered /\ e \in group /\ room \in Conn /\ room # None
      /\ \A e \in Conn : asked[e] = "join" => members[e] = {}
    BY <1>3, InFacts
<1>7. CASE JoinRead(x)
    <2>1. UNCHANGED <<entered, down, group, members>>
        BY <1>7 DEF JoinRead
    <2>2. \A e \in Conn : InRoom(e)' => InRoom(e)
        <3>1. room = None => room' = x /\ members'[x] = {}
            BY <1>6, <1>7 DEF JoinRead
        <3>2. room # None => room' = room
            BY <1>7 DEF JoinRead
        <3> QED BY <2>1, <3>1, <3>2 DEF InRoom
    <2> QED BY <1>2, <1>5, <2>1, <2>2
<1>8. CASE JoinEnter(x)
    <2> DEFINE up == [m |-> "up", from |-> x]
               joined == [m |-> "joined", existing |-> work[x].existing]
               e == Sent(down, group \ {x}, up)
    <2>1. up \in Msg /\ joined \in Msg /\ Reading(x)
        BY <1>8, MsgFacts, WorkFacts DEF JoinEnter, Reading
    <2>2. /\ down' = Sent(e, {x}, joined) /\ entered' = entered \cup {x} /\ group' = group \cup {x}
          /\ room' = room /\ members' = [members EXCEPT ![work[x].room] = @ \cup {x}]
        BY <1>8 DEF JoinEnter
    <2>3. \A r \in Conn : r # x => (InRoom(r)' => InRoom(r))
        BY <2>2, <1>6, ConnFacts DEF InRoom, TypeOK
    <2>4. CASE c # x
        <3>1. c \in entered
            BY <1>2, <2>2, <2>4
        <3>2. down'[c] = Append(down[c], up)
            <4>1. e[c] = Append(down[c], up)
                BY <1>3, <1>5, <2>4, <3>1, SentWhere
            <4> HIDE DEF e, up, joined
            <4> QED BY <2>2, <2>4, <4>1, SentWhere
        <3>3. WillSee(down'[c], d \in present[p], d)
                  <=> Affirms(up, d) \/ (WillSee(down[c], d \in present[p], d) /\ ~Denies(up, d))
            <4> HIDE DEF up
            <4> QED BY <1>3, <2>1, <3>2, SeenAfterAppend
        <3>4. (Affirms(up, d) <=> d = x) /\ ~Denies(up, d)
            BY DEF Affirms, Denies
        <3> HIDE DEF up, e, joined
        <3>5. CASE d = x
            BY <2>2, <3>3, <3>4, <3>5
        <3>6. CASE d # x
            BY <1>5, <2>2, <2>3, <2>4, <3>1, <3>3, <3>4, <3>6
        <3> QED BY <3>5, <3>6
    <2>5. CASE c = x
        <3>1. c \notin entered /\ ReadInv(c, d)
            BY <1>3, <2>1, <2>5 DEF ConnInv, SightInv
        <3>2. down'[c] = Append(down[c], joined)
            <4>1. e[c] = down[c]
                BY <2>5, SentWhere
            <4> HIDE DEF e, joined
            <4>2. down'[c] = Append(e[c], joined)
                BY <1>3, <2>2, <2>5, SentWhere
            <4> QED BY <4>1, <4>2
        <3>3. (Affirms(joined, d) <=> d \in work[x].existing) /\ (Denies(joined, d) <=> d \notin work[x].existing)
            BY DEF Affirms, Denies
        <3>4. WillSee(down'[c], d \in present[p], d)
                  <=> Affirms(joined, d) \/ (WillSee(down[c], d \in present[p], d) /\ ~Denies(joined, d))
            <4> HIDE DEF joined
            <4> QED BY <1>3, <2>1, <3>2, SeenAfterAppend
        <3> HIDE DEF up, e, joined
        <3>5. WillSee(down'[c], d \in present[p], d) <=> d \in work[x].existing
            BY <3>3, <3>4
        <3>6. InRoom(c)' => work[c].room = room
            <4>1. work[c].room # room => (room # None => members'[room] = members[room])
                BY <2>2, <2>5, ConnFacts DEF TypeOK
            <4> QED BY <1>6, <2>2, <3>1, <4>1 DEF InRoom
        <3>7. InRoom(d)' => d \in members[room]
            BY <1>2, <2>3, <2>5 DEF InRoom
        <3> QED BY <1>2, <1>4, <2>1, <2>2, <2>5, <3>1, <3>5, <3>6, <3>7 DEF ReadInv
    <2> QED BY <2>4, <2>5
<1>9. CASE ClaimOwner(x)
    <2>1. PICK msg \in Msg : down' = Sent(down, {x}, msg) /\ msg.m = "claimed"
        BY <1>9, MsgFacts DEF ClaimOwner
    <2>2. UNCHANGED <<entered, group, room, members>>
        BY <1>9 DEF ClaimOwner
    <2>3. ~Affirms(msg, d) /\ ~Denies(msg, d)
        BY <2>1 DEF Affirms, Denies
    <2>4. down'[c] = down[c] \/ down'[c] = Append(down[c], msg)
        BY <2>1, SentWhere
    <2>5. WillSee(down'[c], d \in present[p], d) <=> WillSee(down[c], d \in present[p], d)
        <3>1. WillSee(Append(down[c], msg), d \in present[p], d) <=> WillSee(down[c], d \in present[p], d)
            BY <1>3, <2>3, SeenAfterAppend
        <3> QED BY <2>4, <3>1
    <2> QED BY <1>2, <1>5, <2>2, <2>5 DEF InRoom
<1>10. CASE Disconnect(x)
    <2>1. c \in entered /\ UNCHANGED <<down, group, room>>
        BY <1>2, <1>10 DEF Disconnect
    <2>2. \A e \in Conn : InRoom(e)' => InRoom(e)
        BY <1>6, <1>10, <2>1, ConnFacts DEF InRoom, Disconnect, TypeOK
    <2> QED BY <1>5, <2>1, <2>2
<1>11. CASE Left(x)
    <2> DEFINE bye == [m |-> "down", from |-> x]
    <2>1. /\ Leaving(x) /\ status[x] = "cut" /\ c # x /\ c \in entered /\ x \notin entered
          /\ group' = group \ {x} /\ UNCHANGED <<members, entered>> /\ (room' = room \/ room' = None)
          /\ down' = Sent(down, group \ {x}, bye)
        BY <1>2, <1>3, <1>11 DEF Left, Leaving, ConnInv
    <2>2. down'[c] = Append(down[c], bye)
        BY <1>3, <1>5, <2>1, SentWhere
    <2>3. bye \in Msg /\ ~Affirms(bye, d) /\ (Denies(bye, d) <=> d = x)
        BY MsgFacts DEF Affirms, Denies
    <2>4. WillSee(down'[c], d \in present[p], d)
              <=> Affirms(bye, d) \/ (WillSee(down[c], d \in present[p], d) /\ ~Denies(bye, d))
        <3> HIDE DEF bye
        <3> QED BY <1>3, <2>2, <2>3, SeenAfterAppend
    <2>5. \A e \in Conn : InRoom(e)' => InRoom(e) /\ e # x
        BY <1>6, <2>1 DEF InRoom
    <2> HIDE DEF bye
    <2> QED BY <1>5, <2>1, <2>3, <2>4, <2>5
<1> QED BY <1>7, <1>8, <1>9, <1>10, <1>11 DEF Hub

\* What a peer hears, it believes.
LEMMA ReceiveSees ==
    ASSUME TypeOK, LinkInv, NEW p \in Peer, Receive(p), SightInv, NEW d \in Conn
    PROVE  SeeInv(p, d)'
<1>1. PICK c \in Conn : c = conn[p]
    BY ReceiveFacts
<1>2. PICK msg \in Msg : msg = Head(down[c])
    BY <1>1, ReceiveFacts
<1>3. /\ down[c] # <<>> /\ down[c] \in Seq(Msg) /\ down'[c] = Tail(down[c]) /\ c # None
      /\ UNCHANGED <<conn, hubVars, crossed>>
    BY <1>1, ReceiveFacts DEF TypeOK, Receive
<1>4. SeeInv(p, d)
    BY DEF SightInv
<1>5. d \in present'[p] <=> Affirms(msg, d) \/ (d \in present[p] /\ ~Denies(msg, d))
    <2>1. CASE msg.m = "joined" /\ Joined(p, msg.existing)
        <3>1. present' = [present EXCEPT ![p] = msg.existing]
            BY <2>1 DEF Joined, LinkInv, PeerInv
        <3>2. present'[p] = msg.existing
            BY <3>1 DEF TypeOK
        <3> QED BY <2>1, <3>2 DEF Affirms, Denies
    <2>2. CASE msg.m = "claimed" /\ UNCHANGED <<present, asked>>
        BY <2>2 DEF Affirms, Denies
    <2>3. CASE msg.m \in {"up", "down"} /\ Seen(p, msg)
        <3>1. present'[p] = IF msg.m = "up" THEN present[p] \cup {msg.from} ELSE present[p] \ {msg.from}
            BY <2>3 DEF Seen, TypeOK
        <3> QED BY <2>3, <3>1 DEF Affirms, Denies
    <2> QED BY <1>1, <1>2, <2>1, <2>2, <2>3 DEF Receive
<1>6. WillSee(down[c], d \in present[p], d) <=> WillSee(down'[c], d \in present'[p], d)
    BY <1>2, <1>3, <1>5, SeenAfterTail
<1> QED BY <1>1, <1>3, <1>4, <1>6 DEF SeeInv, hubVars, InRoom, Crossed

LEMMA SameSees ==
    ASSUME TypeOK, NEW p \in Peer, NEW d \in Conn, SeeInv(p, d), UNCHANGED <<hubVars, crossed>>,
           conn'[p] = None
           \/ (conn'[p] = conn[p] /\ present'[p] = present[p] /\ (conn[p] # None => down'[conn[p]] = down[conn[p]]))
           \/ conn'[p] \notin entered
    PROVE  SeeInv(p, d)'
    BY DEF SeeInv, hubVars, InRoom, Crossed

LEMMA SeeStep ==
    ASSUME TypeOK, LinkInv, HubInv, SightInv, [Next]_vars, NEW p \in Peer, NEW d \in Conn
    PROVE  SeeInv(p, d)'
<1>1. SeeInv(p, d) /\ PeerInv(p)
    BY DEF SightInv, LinkInv
<1>2. CASE (\E f \in mail : Frame(f)) \/ UNCHANGED vars
    <2>1. UNCHANGED <<hubVars, crossed, conn, present, down>>
        BY <1>2 DEF Frame, vars, hubVars
    <2> QED BY <1>1, <2>1, SameSees
<1>3. CASE \E x \in Conn : Hub(x)
    BY <1>3, HubSees
<1>4. ASSUME NEW q \in Peer, Client(q) PROVE SeeInv(p, d)'
    <2>1. UNCHANGED <<hubVars, crossed>>
        BY <1>4, PeersLeave
    <2>2. CASE q # p
        <3>1. conn'[p] = conn[p] /\ present'[p] = present[p]
            BY <1>4, <2>2, OthersStay
        <3>2. ASSUME NEW c \in Conn, c = conn[p], c # None PROVE down'[c] = down[c]
            <4>1. c <= Len(who) /\ c # conn[q]
                BY <1>1, <2>2, <3>2 DEF PeerInv, LinkInv
            <4> QED BY <1>4, <4>1, ConnsStay
        <3> QED BY <1>1, <2>1, <3>1, <3>2, SameSees DEF TypeOK
    <2>3. CASE q = p
        <3>1. CASE Receive(p)
            BY <3>1, ReceiveSees
        <3>2. CASE Tick(p) \/ SaveDone(p) \/ SaveFails(p)
            <4>1. UNCHANGED <<conn, present, down>>
                BY <3>2 DEF Tick, SaveDone, SaveFails
            <4> QED BY <1>1, <2>1, <4>1, SameSees
        <3>3. CASE Drop(p) \/ Close(p)
            <4>1. conn'[p] = None
                BY <3>3, CutTypes DEF Drop, Close
            <4> QED BY <1>1, <2>1, <4>1, SameSees
        <3>4. CASE Open(p) \/ Reconnect(p)
            <4>1. Dial(p)
                BY <3>4 DEF Open, Reconnect
            <4>2. PICK c \in Conn : c = Len(who) + 1
                BY <4>1, DialTypes
            <4>3. conn'[p] = c /\ c > Len(who)
                BY <4>1, <4>2 DEF Dial, TypeOK
            <4>4. c \notin entered
                BY <4>3 DEF LinkInv, ConnInv
            <4> QED BY <1>1, <2>1, <4>3, <4>4, SameSees
        <3> QED BY <1>4, <2>3, <3>1, <3>2, <3>3, <3>4 DEF Client
    <2> QED BY <2>2, <2>3
<1> QED BY <1>2, <1>3, <1>4 DEF Next

LEMMA SightStep ==
    ASSUME TypeOK, LinkInv, HubInv, SightInv, [Next]_vars
    PROVE  SightInv'
    BY ReadStep, SeeStep DEF SightInv
-----------------------------------------------------------------------------
(* The escrow.                                                               *)

LEMMA EscrowGrows ==
    ASSUME TypeOK, [Next]_vars
    PROVE  \A a \in Account : escrow[a] # None => escrow'[a] # None
<1>1. ASSUME NEW p \in Peer, SaveDone(p) PROVE \A a \in Account : escrow[a] # None => escrow'[a] # None
    <2>1. PICK k \in saving[p] : escrow' = [escrow EXCEPT ![AccountOf[p]] = k]
        BY <1>1 DEF SaveDone
    <2>2. k # None
        BY ConnFacts DEF TypeOK
    <2> QED BY <2>1, <2>2 DEF TypeOK
<1>2. (\E p \in Peer : SaveDone(p)) \/ UNCHANGED escrow
    <2>1. ASSUME NEW c \in Conn, Hub(c) PROVE UNCHANGED escrow
        BY <2>1, HubStays DEF clientVars
    <2> QED BY <2>1 DEF Next, Client, Open, Receive, Tick, SaveFails, Drop, Reconnect, Close, Frame, vars
<1> QED BY <1>1, <1>2

LEMMA SameEscrow ==
    ASSUME TypeOK, NEW p \in Peer, EscrowInv(p), \A a \in Account : escrow[a] # None => escrow'[a] # None,
           phase'[p] = phase[p], key'[p] = key[p], ticks'[p] = ticks[p], saved'[p] = saved[p],
           saving'[p] = saving[p], late'[p] = late[p], unsaved'[p] = unsaved[p]
    PROVE  EscrowInv(p)'
<1>1. AccountOf[p] \in Account
    BY EdgeAccounts
<1> QED BY <1>1 DEF EscrowInv

LEMMA FinalizeEscrow ==
    ASSUME TypeOK, NEW p \in Peer, conn[p] \in Conn, NEW founder \in BOOLEAN, NEW there,
           Finalize(p, founder, there), key[p] # None => escrow[AccountOf[p]] # None, UNCHANGED escrow
    PROVE  EscrowInv(p)'
<1>1. /\ phase'[p] = "open" /\ saved'[p] = (founder \/ key[p] # None)
      /\ key'[p] = IF founder THEN conn[p] ELSE key[p]
      /\ founder => conn[p] \in saving'[p]
    BY DEF Finalize, TypeOK
<1> QED BY <1>1 DEF EscrowInv

LEMMA ReceiveEscrow ==
    ASSUME TypeOK, NEW p \in Peer, PeerInv(p), EscrowInv(p), Receive(p)
    PROVE  EscrowInv(p)'
<1>1. PICK c \in Conn : c = conn[p]
    BY ReceiveFacts
<1>2. PICK msg \in Msg : msg = Head(down[c])
    BY <1>1, ReceiveFacts
<1>3. /\ down[c] # <<>> /\ down[c] \in Seq(Msg) /\ c # None /\ UNCHANGED <<escrow, unsaved>>
    BY <1>1, ReceiveFacts DEF TypeOK, Receive
<1>4. CASE msg.m = "joined" /\ Joined(p, msg.existing)
    <2>1. CASE phase[p] = "joining" /\ key[p] # None
        <3>1. Finalize(p, FALSE, present[p] \cup msg.existing)
            BY <1>4, <2>1 DEF Joined
        <3> QED BY <1>1, <1>3, <2>1, <3>1, FinalizeEscrow DEF EscrowInv
    <2>2. CASE ~(phase[p] = "joining" /\ key[p] # None)
        <3>1. UNCHANGED <<key, ticks, saved, saving, late>>
            BY <1>4, <2>2 DEF Joined
        <3>2. phase'[p] = phase[p] \/ phase'[p] = "claiming"
            BY <1>4, <2>2 DEF Joined, TypeOK
        <3> QED BY <1>3, <3>1, <3>2 DEF EscrowInv
    <2> QED BY <2>1, <2>2
<1>5. CASE msg.m = "claimed" /\ Finalize(p, msg.won, present[p])
    <2>1. msg.won \in BOOLEAN /\ Has(down[c], "claimed")
        BY <1>2, <1>3, <1>5, MsgFacts, HeardFacts
    <2>2. phase[p] = "claiming"
        BY <1>1, <1>3, <2>1 DEF PeerInv
    <2>3. key[p] = None
        BY <2>2 DEF TypeOK
    <2> QED BY <1>1, <1>3, <1>5, <2>1, <2>3, FinalizeEscrow
<1>6. CASE Seen(p, msg)
    BY <1>3, <1>6 DEF Seen, EscrowInv
<1> QED BY <1>1, <1>2, <1>4, <1>5, <1>6 DEF Receive

LEMMA EscrowStep ==
    ASSUME TypeOK, LinkInv, [Next]_vars, NEW p \in Peer, EscrowInv(p)
    PROVE  EscrowInv(p)'
<1>1. \A a \in Account : escrow[a] # None => escrow'[a] # None
    BY EscrowGrows
<1>2. AccountOf[p] \in Account
    BY EdgeAccounts
<1>3. CASE UNCHANGED vars \/ \E c \in Conn : Hub(c)
    <2>1. UNCHANGED clientVars
        BY <1>3, HubStays DEF vars, clientVars
    <2> QED BY <1>1, <2>1, SameEscrow DEF clientVars
<1>4. ASSUME NEW q \in Peer, Client(q), q # p PROVE EscrowInv(p)'
    BY <1>1, <1>4, OthersStay, SameEscrow
<1>5. CASE Client(p)
    <2>1. CASE Open(p)
        <3>1. phase'[p] = "joining" /\ key'[p] = escrow[AccountOf[p]] /\ UNCHANGED escrow
            BY <2>1 DEF Open, TypeOK
        <3> QED BY <3>1 DEF EscrowInv
    <2>2. CASE Receive(p)
        BY <2>2, ReceiveEscrow DEF LinkInv
    <2>3. CASE Tick(p)
        <3>1. /\ UNCHANGED <<phase, key, late, escrow, unsaved>> /\ phase[p] = "open"
              /\ saved'[p] = (saved[p] \/ key[p] # None)
              /\ saving'[p] = IF ~saved[p] /\ key[p] # None THEN saving[p] \cup {key[p]} ELSE saving[p]
            BY <2>3 DEF Tick, TypeOK
        <3> QED BY <3>1 DEF EscrowInv
    <2>4. CASE SaveDone(p)
        <3>1. PICK k \in saving[p] : escrow' = [escrow EXCEPT ![AccountOf[p]] = k]
            BY <2>4 DEF SaveDone
        <3>2. escrow'[AccountOf[p]] # None
            BY <1>2, <3>1, ConnFacts DEF TypeOK
        <3>3. UNCHANGED <<phase, key, ticks, saved, late>>
            BY <2>4 DEF SaveDone
        <3> QED BY <3>2, <3>3 DEF EscrowInv
    <2>4a. CASE SaveFails(p)
        <3>1. unsaved'[p] = TRUE /\ UNCHANGED <<phase, key, ticks, saved, late, escrow>>
            BY <2>4a DEF SaveFails, TypeOK
        <3> QED BY <3>1 DEF EscrowInv
    <2>5. CASE Drop(p)
        <3>1. phase'[p] \notin {"joining", "open"} \/ (phase'[p] = "open" /\ phase[p] = "open")
            BY <2>5 DEF Drop, TypeOK
        <3>2. phase[p] = "open" => key'[p] = key[p]
            BY <2>5 DEF Drop, TypeOK
        <3>3. UNCHANGED <<ticks, saved, saving, late, escrow, unsaved>>
            BY <2>5 DEF Drop
        <3> QED BY <3>1, <3>2, <3>3 DEF EscrowInv
    <2>6. CASE Reconnect(p)
        BY <1>1, <2>6, SameEscrow DEF Reconnect
    <2>7. CASE Close(p)
        <3>1. phase'[p] = "closed"
            BY <2>7 DEF Close, TypeOK
        <3> QED BY <3>1 DEF EscrowInv
    <2> QED BY <1>5, <2>1, <2>2, <2>3, <2>4, <2>4a, <2>5, <2>6, <2>7 DEF Client
<1>6. ASSUME NEW f \in mail, Frame(f) PROVE EscrowInv(p)'
    <2>1. UNCHANGED <<phase, ticks, saved, saving, escrow, unsaved>>
        BY <1>6 DEF Frame
    <2>2. \/ key'[p] = key[p] /\ late'[p] = late[p]
          \/ phase[p] = "open" /\ (~late'[p] => ticks[p] # 0)
        BY <1>6 DEF Frame, TypeOK
    <2>3. ticks[p] # 0 => ticks[p] > 0
        BY EdgeBounds DEF TypeOK
    <2> QED BY <2>1, <2>2, <2>3 DEF EscrowInv
<1> QED BY <1>3, <1>4, <1>5, <1>6 DEF Next
-----------------------------------------------------------------------------
(* How the key gets around.                                                  *)

LEMMA PendingFacts ==
    /\ \A s \in Seq(Msg) : \A e \in Msg : \A A, d :
          /\ Pending(s, A, d) => Pending(Append(s, e), A, d)
          /\ e.m = "up" /\ e.from = d => Pending(Append(s, e), A, d)
    /\ \A s, A, d : WillSee(s, d \in A, d) /\ d \notin A => Pending(s, A, d)
    /\ \A s \in Seq(Msg) : \A A, B, d :
          s # <<>> /\ JoinedFirst(s) /\ Pending(s, A, d) =>
              \/ Head(s).m = "up" /\ Head(s).from = d
              \/ Head(s).m = "joined" /\ d \in Head(s).existing /\ d \notin A
              \/ Pending(Tail(s), B, d)
<1>1. ASSUME NEW s \in Seq(Msg), NEW e \in Msg, NEW A, NEW d
      PROVE  /\ Pending(s, A, d) => Pending(Append(s, e), A, d)
             /\ e.m = "up" /\ e.from = d => Pending(Append(s, e), A, d)
    <2>1. /\ \A i \in DOMAIN s : i \in DOMAIN Append(s, e) /\ Append(s, e)[i] = s[i]
          /\ Len(s) + 1 \in DOMAIN Append(s, e) /\ Append(s, e)[Len(s) + 1] = e
        OBVIOUS
    <2> QED BY <2>1 DEF Pending
<1>2. ASSUME NEW s, NEW A, NEW d, WillSee(s, d \in A, d), d \notin A PROVE Pending(s, A, d)
    BY <1>2 DEF WillSee, Affirms, Pending
<1>3. ASSUME NEW s \in Seq(Msg), NEW A, NEW B, NEW d, s # <<>>, JoinedFirst(s), Pending(s, A, d)
      PROVE  \/ Head(s).m = "up" /\ Head(s).from = d
             \/ Head(s).m = "joined" /\ d \in Head(s).existing /\ d \notin A
             \/ Pending(Tail(s), B, d)
    <2>1. PICK i \in DOMAIN s : \/ s[i].m = "up" /\ s[i].from = d
                                \/ s[i].m = "joined" /\ d \in s[i].existing /\ d \notin A
        BY <1>3 DEF Pending
    <2>2. Head(s) = s[1] /\ (i = 1 \/ (i - 1 \in DOMAIN Tail(s) /\ Tail(s)[i - 1] = s[i]))
        BY <1>3
    <2>3. CASE i = 1
        BY <2>1, <2>2, <2>3
    <2>4. CASE i # 1
        <3>1. s[i].m = "up" /\ s[i].from = d
            BY <1>3, <2>1, <2>4 DEF JoinedFirst
        <3> QED BY <2>2, <2>4, <3>1 DEF Pending
    <2> QED BY <2>3, <2>4
<1> QED BY <1>1, <1>2, <1>3

LEMMA SentPending ==
    ASSUME NEW e \in [Conn -> Seq(Msg)], NEW cs, NEW msg \in Msg, NEW c \in Conn, NEW A, NEW d
    PROVE  Pending(e[c], A, d) => Pending(Sent(e, cs, msg)[c], A, d)
<1>1. e[c] \in Seq(Msg)
    OBVIOUS
<1>2. Pending(e[c], A, d) => Pending(Append(e[c], msg), A, d)
    BY <1>1, PendingFacts
<1>3. Sent(e, cs, msg)[c] = Append(e[c], msg) \/ Sent(e, cs, msg)[c] = e[c]
    BY DEF Sent
<1> QED BY <1>2, <1>3

\* A frame that brings the key closer is not one that could change nothing.
LEMMA KeptFrame ==
    ASSUME NEW ms, NEW at, NEW keys, NEW p, NEW q, NEW c, NEW d, NEW f \in ms, Carries(f, c, d),
           who[c] = p, who[d] = q, at[p] = c, at[q] = d, keys[p] = None
    PROVE  f \in Useful(ms, at, keys)
<1>1. CASE f.m = "key" /\ f.to = c
    BY <1>1 DEF Useful
<1>2. CASE f.m = "hello" /\ {f.from, f.to} = {c, d}
    <2>1. (f.from = c /\ f.to = d) \/ (f.from = d /\ f.to = c)
        BY <1>2
    <2> QED BY <1>2, <2>1 DEF Useful
<1>3. CASE f.m = "echo" /\ f.from = c /\ f.to = d
    BY <1>3 DEF Useful
<1> QED BY <1>1, <1>2, <1>3 DEF Carries

LEMMA HelloSent ==
    ASSUME NEW a \in Conn, NEW b \in Conn, InRoom(a), InRoom(b), status[a] = "up", status[b] = "up", NEW ds, b \in ds
    PROVE  [m |-> "hello", from |-> a, to |-> b] \in Hello(a, ds) /\ b \in Relayed(a, ds)
    BY DEF Hello, Relayed, InRoom

\* Two sessions, each with a connection of its own.
LEMMA SessionFacts ==
    ASSUME TypeOK, LinkInv, NEW p \in Peer, Linked(p)
    PROVE  \E c \in Conn : c = conn[p] /\ c # None /\ who[c] = p /\ status[c] = "up" /\ c <= Len(who)
    BY DEF TypeOK, LinkInv, PeerInv, Linked

LEMMA MissesStays ==
    ASSUME NEW p \in Peer, NEW q \in Peer, Misses(p, q)', UNCHANGED <<hubVars, crossed>>,
           conn'[p] = conn[p], conn'[q] = conn[q], phase'[p] = phase[p], phase'[q] = phase[q],
           key'[p] = key[p], key'[q] = key[q], late'[q] = late[q]
    PROVE  Misses(p, q)
    BY DEF Misses, Session, Linked, Apart, InRoom, hubVars

\* What is still to come between c and d, the connections of p and q, now and after a step.
LEMMA ReachingNow ==
    ASSUME NEW p \in Peer, NEW q \in Peer, NEW c \in Conn, NEW d \in Conn, c = conn[p], d = conn[q]
    PROVE  Reaching(p, q) => \/ ticks[q] > 0
                             \/ \E f \in mail : Carries(f, c, d)
                             \/ Pending(down[c], present[p], d) \/ Pending(down[d], present[q], c)
    BY DEF Reaching, WillGreet, OnItsWay

LEMMA ReachingNext ==
    ASSUME NEW p \in Peer, NEW q \in Peer, NEW c \in Conn, NEW d \in Conn, c = conn'[p], d = conn'[q],
           \/ ticks'[q] > 0
           \/ \E f \in mail' : Carries(f, c, d)
           \/ Pending(down'[c], present'[p], d) \/ Pending(down'[d], present'[q], c)
    PROVE  Reaching(p, q)'
    BY DEF Reaching, WillGreet, OnItsWay

\* The hub lets nobody forget whom to greet, and who enters a room is told of.
LEMMA HubReach ==
    ASSUME TypeOK, LinkInv, HubInv, NEW x \in Conn, Hub(x), NEW p \in Peer, NEW q \in Peer, ReachInv(p, q)
    PROVE  ReachInv(p, q)'
<1>1. UNCHANGED <<who, mail, conn, phase, key, ticks, late, present>>
    BY HubStays DEF clientVars
<1>2. SUFFICES ASSUME Misses(p, q)' PROVE Reaching(p, q)'
    BY DEF ReachInv
<1>3. p # q /\ Linked(p) /\ Linked(q)
    BY <1>1, <1>2 DEF Misses, Session, Linked
<1>4. PICK c \in Conn : c = conn[p] /\ c # None /\ who[c] = p /\ status[c] = "up"
    BY <1>3, SessionFacts
<1>5. PICK d \in Conn : d = conn[q] /\ d # None /\ who[d] = q /\ status[d] = "up"
    BY <1>3, SessionFacts
<1>6. c # d /\ InRoom(c)' /\ InRoom(d)' /\ down[c] \in Seq(Msg) /\ down[d] \in Seq(Msg)
    BY <1>1, <1>2, <1>3, <1>4, <1>5 DEF Misses, Apart, TypeOK
<1>7. crossed \subseteq crossed' /\ RoomInv
    BY NewBusy DEF HubInv
<1>8. /\ \A e \in Conn : InRoom(e) => e \in entered /\ e \in group /\ room \in Conn /\ room # None
      /\ \A e \in Conn : asked[e] = "join" => members[e] = {}
    BY <1>7, InFacts
<1>9. ASSUME InRoom(c), InRoom(d),
             \A e \in Conn : \A A, y : Pending(down[e], A, y) => Pending(down'[e], A, y)
      PROVE  Reaching(p, q)'
    <2>1. Misses(p, q)
        BY <1>1, <1>2, <1>4, <1>5, <1>7, <1>9 DEF Misses, Session, Linked, Apart
    <2>2. Reaching(p, q)
        BY <2>1 DEF ReachInv
    <2>3. \/ ticks[q] > 0
          \/ \E f \in mail : Carries(f, c, d)
          \/ Pending(down[c], present[p], d) \/ Pending(down[d], present[q], c)
        BY <1>4, <1>5, <2>2, ReachingNow
    <2>4. /\ Pending(down[c], present[p], d) => Pending(down'[c], present[p], d)
          /\ Pending(down[d], present[q], c) => Pending(down'[d], present[q], c)
        BY <1>9
    <2> QED BY <1>1, <1>4, <1>5, <2>3, <2>4, ReachingNext
<1>10. \A e \in [Conn -> Seq(Msg)], msg \in Msg : \A cs :
          \A f \in Conn : \A A, y : Pending(e[f], A, y) => Pending(Sent(e, cs, msg)[f], A, y)
    BY SentPending
<1>11. down \in [Conn -> Seq(Msg)]
    BY DEF TypeOK
<1>12. CASE JoinRead(x)
    <2>1. \A e \in Conn : InRoom(e)' => InRoom(e)
        <3>1. room = None => room' = x /\ members'[x] = {}
            BY <1>8, <1>12 DEF JoinRead
        <3>2. room # None => room' = room /\ UNCHANGED members
            BY <1>12 DEF JoinRead
        <3> QED BY <3>1, <3>2 DEF InRoom
    <2>2. UNCHANGED down
        BY <1>12 DEF JoinRead
    <2> QED BY <1>6, <1>9, <2>1, <2>2
<1>13. CASE JoinEnter(x)
    <2> DEFINE up == [m |-> "up", from |-> x]
               joined == [m |-> "joined", existing |-> work[x].existing]
               f == Sent(down, group \ {x}, up)
    <2>1. up \in Msg /\ joined \in Msg /\ Reading(x)
        BY <1>13, MsgFacts, WorkFacts DEF JoinEnter, Reading
    <2>2. /\ down' = Sent(f, {x}, joined) /\ UNCHANGED room
          /\ members' = [members EXCEPT ![work[x].room] = @ \cup {x}]
        BY <1>13 DEF JoinEnter
    <2>3. f \in [Conn -> Seq(Msg)]
        <3> HIDE DEF up
        <3> QED BY <1>11, <2>1, SentFacts
    <2>4. \A e \in Conn : \A A, y : Pending(down[e], A, y) => Pending(down'[e], A, y)
        <3>1. \A e \in Conn : \A A, y : Pending(down[e], A, y) => Pending(f[e], A, y)
            <4> HIDE DEF up
            <4> QED BY <1>10, <1>11, <2>1
        <3>2. \A e \in Conn : \A A, y : Pending(f[e], A, y) => Pending(down'[e], A, y)
            <4> HIDE DEF joined, f
            <4> QED BY <1>10, <2>1, <2>2, <2>3
        <3> QED BY <3>1, <3>2
    <2>5. \A e \in Conn : e # x => (InRoom(e)' => InRoom(e))
        BY <2>2, <1>8, ConnFacts DEF InRoom, TypeOK
    <2>6. ASSUME NEW e \in Conn, InRoom(e), status[e] = "up", e # x, NEW A PROVE Pending(down'[e], A, x)
        <3>1. down'[e] = f[e] /\ f[e] = Append(down[e], up)
            <4>1. f[e] = Append(down[e], up)
                BY <1>8, <2>6, SentWhere
            <4> HIDE DEF f, joined, up
            <4> QED BY <2>2, <2>6, <4>1, SentWhere
        <3>2. up.m = "up" /\ up.from = x /\ down[e] \in Seq(Msg)
            BY <1>11
        <3> HIDE DEF f, up
        <3> QED BY <2>1, <3>1, <3>2, PendingFacts
    <2> HIDE DEF f, up, joined
    <2>7. CASE x = c
        <3>1. Pending(down'[d], present[q], c)
            BY <1>5, <1>6, <2>5, <2>6, <2>7
        <3> QED BY <1>1, <1>4, <1>5, <3>1, ReachingNext
    <2>8. CASE x = d
        <3>1. Pending(down'[c], present[p], d)
            BY <1>4, <1>6, <2>5, <2>6, <2>8
        <3> QED BY <1>1, <1>4, <1>5, <3>1, ReachingNext
    <2>9. CASE x # c /\ x # d
        BY <1>6, <1>9, <2>4, <2>5, <2>9
    <2> QED BY <2>7, <2>8, <2>9
<1>14. CASE ClaimOwner(x)
    <2>1. PICK msg \in Msg : down' = Sent(down, {x}, msg)
        BY <1>14, MsgFacts DEF ClaimOwner
    <2>2. UNCHANGED <<room, members>>
        BY <1>14 DEF ClaimOwner
    <2>3. \A e \in Conn : \A A, y : Pending(down[e], A, y) => Pending(down'[e], A, y)
        BY <1>10, <1>11, <2>1
    <2> QED BY <1>6, <1>9, <2>2, <2>3 DEF InRoom
<1>15. CASE Disconnect(x)
    <2>1. \A e \in Conn : InRoom(e)' => InRoom(e)
        BY <1>8, <1>15, ConnFacts DEF InRoom, Disconnect, TypeOK
    <2>2. UNCHANGED down
        BY <1>15 DEF Disconnect
    <2> QED BY <1>6, <1>9, <2>1, <2>2
<1>16. CASE Left(x)
    <2>1. PICK msg \in Msg : down' = Sent(down, group \ {x}, msg)
        BY <1>16, MsgFacts DEF Left
    <2>2. (room' = room \/ room' = None) /\ UNCHANGED members
        BY <1>16 DEF Left
    <2>3. \A e \in Conn : \A A, y : Pending(down[e], A, y) => Pending(down'[e], A, y)
        BY <1>10, <1>11, <2>1
    <2> QED BY <1>6, <1>9, <2>2, <2>3 DEF InRoom
<1> QED BY <1>12, <1>13, <1>14, <1>15, <1>16 DEF Hub

\* A peer's step drops no frame but those that could change nothing.
LEMMA MailKept ==
    ASSUME TypeOK, NEW r \in Peer, Client(r)
    PROVE  \/ mail' = mail
           \/ UNCHANGED who /\ \E ms, ks : mail \subseteq ms /\ ks \in {key, key'} /\ mail' = Useful(ms, conn', ks)
<1>1. ASSUME NEW ms, mail' = Useful(mail \cup ms, conn, key') \/ mail' = Useful(mail \cup ms, conn, key),
             UNCHANGED <<who, conn>>
      PROVE  UNCHANGED who /\ \E m, ks : mail \subseteq m /\ ks \in {key, key'} /\ mail' = Useful(m, conn', ks)
    <2>1. mail \subseteq mail \cup ms
        OBVIOUS
    <2> QED BY <1>1, <2>1
<1>2. CASE Open(r)
    BY <1>2 DEF Open
<1>3. CASE Receive(r)
    <2> DEFINE msg == Head(down[conn[r]])
    <2>1. UNCHANGED <<who, conn>>
        BY <1>3 DEF Receive
    <2>2. CASE Joined(r, msg.existing)
        <3>1. CASE phase[r] = "joining" /\ key[r] # None
            <4>1. mail' = Useful(mail \cup Hello(conn[r], present[r] \cup msg.existing), conn, key')
                BY <2>2, <3>1 DEF Joined, Finalize
            <4> QED BY <1>1, <2>1, <4>1
        <3>2. CASE ~(phase[r] = "joining" /\ key[r] # None)
            <4>1. mail' = mail \/ mail' = Useful(mail \cup Hello(conn[r], msg.existing \ present[r]), conn, key)
                BY <2>2, <3>2 DEF Joined
            <4> QED BY <1>1, <2>1, <4>1
        <3> QED BY <3>1, <3>2
    <2>3. CASE Finalize(r, msg.won, present[r])
        <3>1. mail' = Useful(mail \cup Hello(conn[r], present[r]), conn, key')
            BY <2>3 DEF Finalize
        <3> QED BY <1>1, <2>1, <3>1
    <2>4. CASE Seen(r, msg)
        <3>1. mail' = mail \/ mail' = Useful(mail \cup Hello(conn[r], {msg.from}), conn, key)
            BY <2>4 DEF Seen
        <3> QED BY <1>1, <2>1, <3>1
    <2> QED BY <1>3, <2>2, <2>3, <2>4 DEF Receive
<1>4. CASE Tick(r)
    <2>1. UNCHANGED <<who, conn>> /\ (mail' = mail \/ mail' = Useful(mail \cup Hello(conn[r], present[r]), conn, key))
        BY <1>4 DEF Tick
    <2> QED BY <1>1, <2>1
<1>5. CASE SaveDone(r) \/ SaveFails(r) \/ Reconnect(r)
    BY <1>5 DEF SaveDone, SaveFails, Reconnect
<1>6. CASE Drop(r) \/ Close(r)
    <2>1. UNCHANGED who /\ (mail' = mail \/ mail' = Useful(mail, conn', key))
        BY <1>6 DEF Drop, Close, Cut
    <2> QED BY <2>1
<1> QED BY <1>2, <1>3, <1>4, <1>5, <1>6 DEF Client

LEMMA WayStays ==
    ASSUME TypeOK, NEW r \in Peer, Client(r), NEW p \in Peer, NEW q \in Peer, NEW c \in Conn, NEW d \in Conn,
           who[c] = p, who[d] = q, conn'[p] = c, conn'[q] = d, key[p] = None, key'[p] = None,
           \E f \in mail : Carries(f, c, d)
    PROVE  \E f \in mail' : Carries(f, c, d)
<1>1. CASE mail' = mail
    BY <1>1
<1>2. CASE \E ms, ks : mail \subseteq ms /\ ks \in {key, key'} /\ mail' = Useful(ms, conn', ks)
    <2>1. PICK ms, ks : mail \subseteq ms /\ ks \in {key, key'} /\ mail' = Useful(ms, conn', ks)
        BY <1>2
    <2>2. PICK f \in ms : f \in mail /\ Carries(f, c, d)
        BY <2>1
    <2>3. ks[p] = None
        BY <2>1
    <2>4. f \in Useful(ms, conn', ks)
        BY <2>2, <2>3, KeptFrame
    <2> QED BY <2>1, <2>2, <2>4
<1> QED BY <1>1, <1>2, MailKept

\* A peer that greets all it believes there, and is going to believe the other there,
\* greets the other now or later.
LEMMA Greeted ==
    ASSUME NEW p \in Peer, NEW q \in Peer, NEW c \in Conn, NEW d \in Conn, c # d,
           who[c] = p, who[d] = q, status[c] = "up", status[d] = "up", conn'[p] = c, conn'[q] = d,
           InRoom(c), InRoom(d), c \in entered, d \in entered, ~Crossed(c, d), key'[p] = None,
           c # None, d # None, UNCHANGED <<hubVars, crossed>>,
           NEW r \in Peer, NEW a \in Conn, NEW b \in Conn,
           (r = p /\ a = c /\ b = d) \/ (r = q /\ a = d /\ b = c), SeeInv(r, b)',
           mail' = Useful(mail \cup Hello(a, present'[r]), conn', key')
    PROVE  Reaching(p, q)'
<1>1. {a, b} = {c, d}
    OBVIOUS
<1>2. CASE b \in present'[r]
    <2> DEFINE f == [m |-> "hello", from |-> a, to |-> b]
    <2>1. f \in mail \cup Hello(a, present'[r])
        BY <1>2, HelloSent
    <2>2. Carries(f, c, d)
        BY <1>1 DEF Carries
    <2> HIDE DEF f
    <2>3. f \in mail'
        BY <2>1, <2>2, KeptFrame
    <2> QED BY <2>2, <2>3, ReachingNext
<1>3. CASE b \notin present'[r]
    <2>1. conn'[r] = a /\ a # None /\ a # b /\ ~Crossed(a, b)' /\ a \in entered' /\ InRoom(a)' /\ InRoom(b)'
        BY <1>1 DEF Crossed, hubVars, InRoom
    <2>2. WillSee(down'[a], b \in present'[r], b)
        BY <2>1 DEF SeeInv
    <2>3. Pending(down'[a], present'[r], b)
        BY <1>3, <2>2, PendingFacts
    <2> QED BY <2>3, ReachingNext
<1> QED BY <1>2, <1>3

\* One of the two hears something.
LEMMA ReceiveReach ==
    ASSUME TypeOK, LinkInv, HubInv, SightInv, [Next]_vars, NEW p \in Peer, NEW q \in Peer, ReachInv(p, q),
           NEW r \in Peer, r \in {p, q}, Receive(r), Misses(p, q)'
    PROVE  Reaching(p, q)'
<1>1. UNCHANGED <<who, status, hubVars, conn, crossed>> /\ Client(r)
    BY DEF Receive, Client
<1>2. p # q /\ Linked(p) /\ Linked(q)
    BY <1>1 DEF Misses, Session, Linked
<1>3. PICK c \in Conn : c = conn[p] /\ c # None /\ who[c] = p /\ status[c] = "up" /\ c <= Len(who)
    BY <1>2, SessionFacts
<1>4. PICK d \in Conn : d = conn[q] /\ d # None /\ who[d] = q /\ status[d] = "up" /\ d <= Len(who)
    BY <1>2, SessionFacts
<1>5. c # d /\ InRoom(c) /\ InRoom(d) /\ ~Crossed(c, d) /\ key'[p] = None /\ key'[q] # None /\ ~late'[q]
    BY <1>1, <1>2, <1>3, <1>4 DEF Misses, Apart, Crossed, InRoom, hubVars
<1>6. c \in entered /\ d \in entered
    BY <1>5, InFacts DEF HubInv
<1>7. PICK a \in Conn, b \in Conn : (r = p /\ a = c /\ b = d) \/ (r = q /\ a = d /\ b = c)
    OBVIOUS
<1>8. a = conn[r] /\ a # b /\ a # None /\ status[a] = "up" /\ PeerInv(r)
    BY <1>3, <1>4, <1>5, <1>7 DEF LinkInv
<1>9. PICK msg \in Msg : msg = Head(down[a])
    BY <1>8, ReceiveFacts
<1>10. /\ down[a] # <<>> /\ down[a] \in Seq(Msg) /\ down' = [down EXCEPT ![a] = Tail(@)]
       /\ JoinedFirst(down[a])
    BY <1>8, ReceiveFacts DEF TypeOK, PeerInv
<1>11. SeeInv(r, b)'
    BY SeeStep
<1>12. ASSUME mail' = Useful(mail \cup Hello(a, present'[r]), conn', key') PROVE Reaching(p, q)'
    BY <1>1, <1>3, <1>4, <1>5, <1>6, <1>7, <1>11, <1>12, Greeted
<1>13. ASSUME UNCHANGED <<phase, key, ticks, late>>, NEW ms,
              \/ msg.m = "down"
              \/ /\ \/ msg.m = "up" /\ (msg.from = b => b \in ms)
                    \/ msg.m = "joined" /\ (b \in msg.existing /\ b \notin present[r] => b \in ms)
                 /\ mail' = Useful(mail \cup Hello(a, ms), conn', key'),
              \A s \in Peer : s # r => present'[s] = present[s]
       PROVE  Reaching(p, q)'
    <2>1. Misses(p, q)
        BY <1>1, <1>13, MissesStays
    <2>2. \/ ticks[q] > 0
          \/ \E f \in mail : Carries(f, c, d)
          \/ Pending(down[c], present[p], d) \/ Pending(down[d], present[q], c)
        BY <1>3, <1>4, <2>1, ReachingNow DEF ReachInv
    <2>3. conn'[p] = c /\ conn'[q] = d /\ key[p] = None
        BY <1>1, <1>3, <1>4, <1>5, <1>13
    <2>4. CASE ticks[q] > 0
        BY <1>13, <2>3, <2>4, ReachingNext
    <2>5. CASE \E f \in mail : Carries(f, c, d)
        <3>1. \E f \in mail' : Carries(f, c, d)
            BY <1>1, <1>3, <1>4, <1>5, <2>3, <2>5, WayStays
        <3> QED BY <2>3, <3>1, ReachingNext
    <2>6. CASE Pending(down[a], present[r], b)
        <3>1. \/ msg.m = "up" /\ msg.from = b
              \/ msg.m = "joined" /\ b \in msg.existing /\ b \notin present[r]
              \/ Pending(Tail(down[a]), present'[r], b)
            BY <1>9, <1>10, <2>6, PendingFacts
        <3>2. CASE b \in ms /\ mail' = Useful(mail \cup Hello(a, ms), conn', key')
            <4> DEFINE f == [m |-> "hello", from |-> a, to |-> b]
            <4>1. f \in mail \cup Hello(a, ms)
                BY <1>3, <1>4, <1>5, <1>7, <3>2, HelloSent
            <4>2. {a, b} = {c, d}
                BY <1>7
            <4>3. Carries(f, c, d)
                BY <4>2 DEF Carries
            <4> HIDE DEF f
            <4>4. f \in mail'
                BY <1>3, <1>4, <1>5, <2>3, <3>2, <4>1, <4>3, KeptFrame
            <4> QED BY <2>3, <4>3, <4>4, ReachingNext
        <3>3. CASE Pending(Tail(down[a]), present'[r], b)
            <4>1. Pending(down'[a], present'[r], b)
                BY <1>10, <3>3 DEF TypeOK
            <4> QED BY <1>7, <2>3, <4>1, ReachingNext
        <3> QED BY <1>13, <3>1, <3>2, <3>3
    <2>7. ASSUME NEW s \in Peer, s # r, (s = p /\ r = q) \/ (s = q /\ r = p), Pending(down[b], present[s], a)
          PROVE  Reaching(p, q)'
        <3>1. down'[b] = down[b] /\ present'[s] = present[s]
            BY <1>8, <1>10, <1>13, <2>7 DEF TypeOK
        <3> QED BY <1>2, <1>7, <2>3, <2>7, <3>1, ReachingNext
    <2> QED BY <1>2, <1>7, <2>2, <2>4, <2>5, <2>6, <2>7
<1>14. phase'[r] = "open" /\ UNCHANGED conn
    BY <1>1 DEF Misses, Session
<1>15. \A s \in Peer : s # r => present'[s] = present[s]
    BY <1>1, OthersStay
<1>16. CASE msg.m = "joined" /\ Joined(r, msg.existing)
    <2>1. CASE phase[r] = "joining" /\ key[r] # None
        <3>1. mail' = Useful(mail \cup Hello(conn[r], present[r] \cup msg.existing), conn, key')
            BY <1>16, <2>1 DEF Joined, Finalize
        <3>2. present'[r] = present[r] \cup msg.existing
            BY <1>16, <2>1 DEF Joined, TypeOK
        <3> QED BY <1>8, <1>12, <1>14, <3>1, <3>2
    <2>2. CASE phase[r] = "joining" /\ key[r] = None
        <3>1. phase'[r] = "claiming"
            BY <1>16, <2>2 DEF Joined, TypeOK
        <3> QED BY <1>14, <3>1
    <2>3. CASE phase[r] # "joining"
        <3>1. UNCHANGED <<phase, key, ticks, late>>
            BY <1>16, <2>3 DEF Joined
        <3>2. phase[r] = "open"
            BY <1>14, <3>1
        <3>3. mail' = Useful(mail \cup Hello(a, msg.existing \ present[r]), conn, key)
            BY <1>8, <1>16, <2>3, <3>2 DEF Joined
        <3>4. mail' = Useful(mail \cup Hello(a, msg.existing \ present[r]), conn', key')
            BY <1>14, <3>1, <3>3
        <3>5. b \in msg.existing /\ b \notin present[r] => b \in msg.existing \ present[r]
            OBVIOUS
        <3> QED BY <1>13, <1>15, <1>16, <3>1, <3>4, <3>5
    <2> QED BY <2>1, <2>2, <2>3
<1>17. CASE msg.m = "claimed" /\ Finalize(r, msg.won, present[r]) /\ UNCHANGED <<present, asked>>
    <2>1. mail' = Useful(mail \cup Hello(conn[r], present[r]), conn, key')
        BY <1>17 DEF Finalize
    <2> QED BY <1>8, <1>12, <1>14, <1>17, <2>1
<1>18. CASE msg.m \in {"up", "down"} /\ Seen(r, msg)
    <2>1. UNCHANGED <<phase, key, ticks, late>>
        BY <1>18 DEF Seen
    <2>2. phase[r] = "open"
        BY <1>14, <2>1
    <2>3. CASE msg.m = "up"
        <3>1. mail' = Useful(mail \cup Hello(a, {msg.from}), conn, key)
            BY <1>8, <1>18, <2>2, <2>3 DEF Seen
        <3>2. mail' = Useful(mail \cup Hello(a, {msg.from}), conn', key')
            BY <1>14, <2>1, <3>1
        <3>3. msg.from = b => b \in {msg.from}
            OBVIOUS
        <3> QED BY <1>13, <1>15, <2>1, <2>3, <3>2, <3>3
    <2>4. CASE msg.m = "down"
        BY <1>13, <1>15, <2>1, <2>4
    <2> QED BY <1>18, <2>3, <2>4
<1> QED BY <1>8, <1>9, <1>16, <1>17, <1>18 DEF Receive

LEMMA ClientReach ==
    ASSUME TypeOK, LinkInv, HubInv, SightInv, [Next]_vars, NEW p \in Peer, NEW q \in Peer, ReachInv(p, q),
           NEW r \in Peer, Client(r), Misses(p, q)'
    PROVE  Reaching(p, q)'
<1>1. UNCHANGED <<work, hubVars, crossed>>
    BY PeersLeave
<1>2. p # q /\ conn'[p] # None /\ conn'[q] # None /\ phase'[p] = "open" /\ phase'[q] = "open"
    BY DEF Misses, Session, Linked
<1>3. CASE r \in {p, q} /\ Receive(r)
    BY <1>3, ReceiveReach
<1>4. r \in {p, q} => ~Open(r) /\ ~Drop(r) /\ ~Close(r)
    <2>1. Open(r) => phase'[r] = "joining"
        BY DEF Open, TypeOK
    <2>2. Drop(r) \/ Close(r) => conn'[r] = None
        BY CutTypes DEF Drop, Close
    <2> QED BY <1>2, <2>1, <2>2
<1>5. r \in {p, q} => ~Reconnect(r)
    <2>1. ASSUME Dial(r), r \in {p, q} PROVE FALSE
        <3>1. PICK c \in Conn : c = Len(who) + 1
            BY <2>1, DialTypes
        <3>2. conn'[r] = c /\ c > Len(who)
            BY <2>1, <3>1 DEF Dial, TypeOK
        <3>3. c \notin entered
            BY <3>2 DEF LinkInv, ConnInv
        <3>4. ~InRoom(c)
            BY <3>3, InFacts DEF HubInv
        <3>5. ~InRoom(c)'
            BY <1>1, <3>4 DEF InRoom, hubVars
        <3>6. Apart(conn[p], conn[q])'
            BY <2>1, <3>2, <3>5 DEF Apart, InRoom
        <3> QED BY <3>6 DEF Misses
    <2> QED BY <2>1 DEF Reconnect
<1>6. ASSUME \A s \in {p, q} : /\ conn'[s] = conn[s] /\ phase'[s] = phase[s] /\ present'[s] = present[s]
                               /\ key'[s] = key[s] /\ late'[s] = late[s],
             \A s \in {p, q} : conn[s] # None => down'[conn[s]] = down[conn[s]],
             ticks'[q] = ticks[q]
      PROVE  Reaching(p, q)'
    <2>1. Misses(p, q)
        BY <1>1, <1>6, MissesStays
    <2>2. PICK c \in Conn : c = conn[p] /\ c # None /\ who[c] = p
        BY <1>2, <1>6, SessionFacts DEF Linked
    <2>3. PICK d \in Conn : d = conn[q] /\ d # None /\ who[d] = q
        BY <1>2, <1>6, SessionFacts DEF Linked
    <2>4. \/ ticks[q] > 0
          \/ \E f \in mail : Carries(f, c, d)
          \/ Pending(down[c], present[p], d) \/ Pending(down[d], present[q], c)
        BY <2>1, <2>2, <2>3, ReachingNow DEF ReachInv
    <2>5. key[p] = None /\ key'[p] = None /\ conn'[p] = c /\ conn'[q] = d
        BY <1>6, <2>1, <2>2, <2>3 DEF Misses
    <2>6. (\E f \in mail : Carries(f, c, d)) => \E f \in mail' : Carries(f, c, d)
        BY <2>2, <2>3, <2>5, WayStays
    <2>7. down'[c] = down[c] /\ down'[d] = down[d] /\ present'[p] = present[p] /\ present'[q] = present[q]
        BY <1>6, <2>2, <2>3
    <2> QED BY <1>6, <2>4, <2>5, <2>6, <2>7, ReachingNext
<1>7. CASE r \notin {p, q}
    <2>1. \A s \in {p, q} : /\ conn'[s] = conn[s] /\ phase'[s] = phase[s] /\ present'[s] = present[s]
                            /\ key'[s] = key[s] /\ late'[s] = late[s] /\ ticks'[s] = ticks[s]
        BY <1>7, OthersStay
    <2>2. ASSUME NEW s \in {p, q}, conn[s] # None PROVE down'[conn[s]] = down[conn[s]]
        <3>1. PICK c \in Conn : c = conn[s] /\ c # None /\ who[c] = s /\ c <= Len(who)
            BY <2>2, SessionFacts DEF Linked
        <3>2. c # conn[r]
            <4>1. conn[r] = c => who[c] = r
                BY <3>1 DEF LinkInv, PeerInv
            <4> QED BY <1>7, <3>1, <4>1
        <3> QED BY <3>1, <3>2, ConnsStay
    <2> QED BY <1>6, <2>1, <2>2
<1>8. CASE SaveDone(r) \/ SaveFails(r)
    BY <1>6, <1>8 DEF SaveDone, SaveFails
<1>9. CASE r = p /\ Tick(p)
    <2>1. UNCHANGED <<conn, phase, present, key, late, down>> /\ ticks'[q] = ticks[q]
        BY <1>2, <1>9 DEF Tick, TypeOK
    <2> QED BY <1>6, <2>1
<1>10. CASE r = q /\ Tick(q)
    <2>1. UNCHANGED <<who, status, conn, phase, present, key, late, down>>
        BY <1>10 DEF Tick
    <2>2. PICK c \in Conn : c = conn[p] /\ c # None /\ who[c] = p /\ status[c] = "up"
        BY <1>2, <2>1, SessionFacts DEF Linked
    <2>3. PICK d \in Conn : d = conn[q] /\ d # None /\ who[d] = q /\ status[d] = "up"
        BY <1>2, <2>1, SessionFacts DEF Linked
    <2>4. c # d /\ InRoom(c) /\ InRoom(d) /\ ~Crossed(c, d) /\ key'[p] = None
        BY <1>1, <1>2, <2>1, <2>2, <2>3 DEF Misses, Apart, Crossed, InRoom, hubVars
    <2>5. c \in entered /\ d \in entered
        BY <2>4, InFacts DEF HubInv
    <2>6. SeeInv(q, c)'
        BY SeeStep
    <2>7. mail' = Useful(mail \cup Hello(d, present[q]), conn, key)
        BY <1>10, <2>3 DEF Tick
    <2>8. mail' = Useful(mail \cup Hello(d, present'[q]), conn', key') /\ conn'[p] = c /\ conn'[q] = d
        BY <2>1, <2>2, <2>3, <2>7
    <2> QED BY <1>1, <2>2, <2>3, <2>4, <2>5, <2>6, <2>8, Greeted
<1> QED BY <1>3, <1>4, <1>5, <1>7, <1>8, <1>9, <1>10 DEF Client

LEMMA FrameReach ==
    ASSUME TypeOK, LinkInv, HubInv, NEW p \in Peer, NEW q \in Peer, ReachInv(p, q),
           NEW f \in mail, Frame(f), Misses(p, q)'
    PROVE  Reaching(p, q)'
<1>1. UNCHANGED <<who, status, hubVars, down, phase, conn, present, ticks, crossed>>
    BY DEF Frame
<1>2. p # q /\ Linked(p) /\ Linked(q) /\ phase[p] = "open" /\ phase[q] = "open"
    BY <1>1 DEF Misses, Session, Linked
<1>3. PICK c \in Conn : c = conn[p] /\ c # None /\ who[c] = p /\ status[c] = "up"
    BY <1>2, SessionFacts
<1>4. PICK d \in Conn : d = conn[q] /\ d # None /\ who[d] = q /\ status[d] = "up"
    BY <1>2, SessionFacts
<1>5. c # d /\ InRoom(c) /\ InRoom(d) /\ key'[p] = None /\ key'[q] # None /\ ~late'[q]
    BY <1>1, <1>2, <1>3, <1>4 DEF Misses, Apart, InRoom, hubVars
<1>6. conn'[p] = c /\ conn'[q] = d /\ conn[p] = c /\ conn[q] = d
    BY <1>1, <1>3, <1>4
<1>7. PICK s \in Peer : s = who[f.to]
    BY DEF LinkInv, MailInv, TypeOK, Made
<1> DEFINE heard == conn[s] = f.to /\ phase[s] = "open"
           taken == heard /\ f.m = "key" /\ key[s] = None
           back == IF key[s] # None THEN [m |-> "key", key |-> key[s], to |-> f.from]
                   ELSE [m |-> "echo", from |-> f.to, to |-> f.from]
           answers == heard /\ (f.m = "hello" \/ (f.m = "echo" /\ key[s] # None))
<1>8. /\ key' = [key EXCEPT ![s] = IF taken THEN f.key ELSE @]
      /\ mail' = Useful((mail \ {f}) \cup (IF answers /\ Relayed(f.to, {f.from}) # {} THEN {back} ELSE {}), conn', key')
      /\ late' = [late EXCEPT ![s] = IF taken THEN ticks[s] = 0 ELSE @]
    BY <1>1, <1>7 DEF Frame
<1>9. CASE taken /\ s = q
    <2>1. ticks[q] # 0
        BY <1>5, <1>8, <1>9 DEF TypeOK
    <2>2. ticks'[q] > 0
        BY <1>1, <2>1, EdgeBounds DEF TypeOK
    <2> QED BY <1>6, <2>2, ReachingNext
<1>10. CASE ~(taken /\ s = q)
    <2>1. f.m = "key" => f.key \in Conn
        BY ConnFacts DEF TypeOK, Mail
    <2>2. taken => s # p
        BY <1>5, <1>8, <2>1, ConnFacts DEF TypeOK
    <2>3. key'[p] = key[p] /\ key'[q] = key[q] /\ late'[q] = late[q]
        BY <1>8, <1>10, <2>2 DEF TypeOK
    <2>4. Misses(p, q)
        BY <1>1, <2>3, MissesStays
    <2>5. \/ ticks[q] > 0
          \/ \E g \in mail : Carries(g, c, d)
          \/ Pending(down[c], present[p], d) \/ Pending(down[d], present[q], c)
        BY <1>6, <2>4, ReachingNow DEF ReachInv
    <2>6. ASSUME NEW g \in mail, Carries(g, c, d), g # f PROVE Reaching(p, q)'
        <3>1. g \in (mail \ {f}) \cup (IF answers /\ Relayed(f.to, {f.from}) # {} THEN {back} ELSE {})
            BY <2>6
        <3> HIDE DEF answers, back
        <3>2. g \in mail'
            BY <1>3, <1>4, <1>5, <1>6, <1>8, <2>6, <3>1, KeptFrame
        <3> QED BY <1>6, <2>6, <3>2, ReachingNext
    <2>7. ASSUME Carries(f, c, d) PROVE Reaching(p, q)'
        <3>1. f.m # "key"
            <4>1. f.m = "key" /\ f.to = c => taken /\ s = p
                BY <1>2, <1>3, <1>5, <1>7, <2>3
            <4> QED BY <2>2, <2>7, <4>1 DEF Carries
        <3>2. (f.from = c /\ f.to = d) \/ (f.from = d /\ f.to = c /\ f.m = "hello")
            BY <2>7, <3>1 DEF Carries
        <3>3. answers
            BY <1>2, <1>3, <1>4, <1>5, <1>7, <2>3, <2>7, <3>1, <3>2 DEF Carries
        <3>4. Relayed(f.to, {f.from}) # {}
            BY <1>3, <1>4, <1>5, <3>2, HelloSent
        <3>5. Carries(back, c, d)
            BY <1>3, <1>4, <1>5, <1>7, <2>3, <3>2 DEF Carries
        <3>6. back \in mail'
            <4>1. back \in (mail \ {f}) \cup (IF answers /\ Relayed(f.to, {f.from}) # {} THEN {back} ELSE {})
                BY <3>3, <3>4
            <4> HIDE DEF answers, back
            <4> QED BY <1>3, <1>4, <1>5, <1>6, <1>8, <3>5, <4>1, KeptFrame
        <3> HIDE DEF back
        <3> QED BY <1>6, <3>5, <3>6, ReachingNext
    <2>8. CASE ~\E g \in mail : Carries(g, c, d)
        BY <1>1, <1>6, <2>5, <2>8, ReachingNext
    <2> QED BY <2>6, <2>7, <2>8
<1> QED BY <1>9, <1>10

LEMMA ReachStep ==
    ASSUME TypeOK, LinkInv, HubInv, SightInv, [Next]_vars, NEW p \in Peer, NEW q \in Peer, ReachInv(p, q)
    PROVE  ReachInv(p, q)'
<1>1. CASE UNCHANGED vars
    <2>1. UNCHANGED <<hubVars, crossed, mail, conn, phase, key, ticks, late, present, down>>
        BY <1>1 DEF vars, hubVars
    <2> QED BY <2>1 DEF ReachInv, Misses, Reaching, Session, Linked, Apart, InRoom, OnItsWay, WillGreet, hubVars
<1> QED BY <1>1, HubReach, ClientReach, FrameReach DEF Next, ReachInv
-----------------------------------------------------------------------------
(* The theorems.                                                            *)

LEMMA InitIInv ==
    ASSUME Init
    PROVE  IInv
<1>1. TypeOK
    BY EdgeBounds, EdgeAccounts DEF Init, TypeOK, Work, Conn, Room, Key
<1>2. \A c \in Conn : work[c] = Idle /\ ~Reading(c) /\ ~Leaving(c)
    BY DEF Init, Reading, Leaving, Idle
<1>3. LinkInv
    <2>1. \A c \in Conn : ConnInv(c)
        BY <1>2 DEF Init, ConnInv
    <2>2. \A p \in Peer : PeerInv(p)
        BY DEF Init, PeerInv
    <2> QED BY <2>1, <2>2 DEF LinkInv, MailInv, Init
<1>4. HubInv
    <2>1. RoomInv
        BY <1>2 DEF Init, RoomInv
    <2>2. OwnerInv /\ BusyInv
        BY <1>2 DEF Init, OwnerInv, BusyInv, Busy
    <2>3. \A c \in Conn : AloneInv(c)
        BY <1>2 DEF Init, AloneInv
    <2> QED BY <2>1, <2>2, <2>3 DEF HubInv
<1>5. SightInv
    BY <1>2 DEF Init, SightInv, ReadInv, SeeInv
<1>6. \A p, q \in Peer : ReachInv(p, q)
    BY DEF Init, ReachInv, Misses, Session
<1>7. \A p \in Peer : EscrowInv(p)
    BY DEF Init, EscrowInv
<1>8. GenesisInv
    <2>1. Traces = {}
        BY ConnFacts DEF Init, Traces, Trace
    <2> QED BY <2>1, FS_EmptySet DEF Init, GenesisInv
<1> QED BY <1>1, <1>3, <1>4, <1>5, <1>6, <1>7, <1>8 DEF IInv

LEMMA NextIInv ==
    ASSUME IInv, [Next]_vars
    PROVE  IInv'
<1>1. /\ TypeOK /\ LinkInv /\ HubInv /\ SightInv /\ GenesisInv /\ RoomInv /\ MailInv
      /\ \A p, q \in Peer : ReachInv(p, q)
      /\ \A p \in Peer : EscrowInv(p)
    BY DEF IInv, HubInv, LinkInv
<1>2. TypeOK' /\ LinkInv' /\ HubInv' /\ SightInv' /\ GenesisInv'
    BY <1>1, NextTypes, LinkStep, HubStep, SightStep, GenesisStep
<1>3. (\A p, q \in Peer : ReachInv(p, q))'
    BY <1>1, ReachStep
<1>4. (\A p \in Peer : EscrowInv(p))'
    BY <1>1, EscrowStep
<1> QED BY <1>2, <1>3, <1>4 DEF IInv

\* What holds of the hub, of the peers and of what is under way between them at any
\* time: the inductive invariant that the theorems below rest on.
THEOREM EdgeInvariant == Spec => []IInv
<1>1. Init => IInv
    BY InitIInv
<1>2. IInv /\ [Next]_vars => IInv'
    BY NextIInv
<1> QED BY <1>1, <1>2, PTL DEF Spec

\* Type correctness of the hub's registry, of the connections and of the sessions.
THEOREM TypeCorrect == Spec => []TypeOK
<1>1. IInv => TypeOK
    BY DEF IInv
<1> QED BY <1>1, EdgeInvariant, PTL

\* The keys of a vault are never more than the claims that were given up, and one
\* (EdgeSyncHub.ClaimOwner and the release in OnDisconnectedAsync).
THEOREM KeysAreClaimed == Spec => []OneGenesis
<1>1. ASSUME IInv PROVE OneGenesis
    <2> DEFINE keys == ({key[p] : p \in Peer} \cup {escrow[a] : a \in Account}
                        \cup UNION {saving[p] : p \in Peer}) \ {None}
    <2>1. TypeOK /\ GenesisInv
        BY <1>1 DEF IInv
    <2>2. keys \subseteq Traces
        BY <2>1, ConnFacts DEF TypeOK, Traces, Trace
    <2>3. IsFiniteSet(Traces)
        BY ConnFacts, FS_Subset DEF Traces
    <2>4. Cardinality(keys) <= Cardinality(Traces) /\ Cardinality(keys) \in Nat /\ Cardinality(Traces) \in Nat
        BY <2>2, <2>3, FS_Subset, FS_CardinalityType
    <2>5. Cardinality(Traces) <= released + 1
        BY <2>1, <2>4 DEF GenesisInv, TypeOK
    <2>6. Cardinality(keys) <= released + 1
        BY <2>1, <2>4, <2>5 DEF TypeOK
    <2> QED BY <2>6 DEF OneGenesis
<1> QED BY <1>1, EdgeInvariant, PTL

\* At rest nobody waits for a key in vain: a connection that is gone holds no claim, and
\* who has not crossed a peer that held the key before its last retry has it too (the
\* greetings of finalize and of the PeerUp handlers).
THEOREM KeyReachesAll == Spec => []KeyComes
<1>1. ASSUME IInv PROVE NoDeadClaim
    <2>1. TypeOK /\ LinkInv /\ OwnerInv
        BY <1>1 DEF IInv, HubInv
    <2>2. \A c \in Conn : status[c] = "gone" => c \notin entered /\ ~Leaving(c)
        BY <2>1, WorkFacts DEF LinkInv, ConnInv
    <2> QED BY <2>1, <2>2 DEF NoDeadClaim, OwnerInv, TypeOK
<1>2. ASSUME IInv, Quiet,
             NEW p \in Peer, phase[p] = "open", Linked(p),
             NEW q \in Peer, phase[q] = "open", Linked(q),
             key[q] # None, ~late[q], ~Apart(conn[p], conn[q])
      PROVE  key[p] # None
    <2>1. SUFFICES ASSUME key[p] = None, p # q PROVE FALSE
        BY <1>2
    <2>2. TypeOK /\ ReachInv(p, q)
        BY <1>2 DEF IInv
    <2>3. Reaching(p, q)
        BY <1>2, <2>1, <2>2 DEF ReachInv, Misses, Session
    <2>4. PICK c \in Conn, d \in Conn : c = conn[p] /\ d = conn[q]
        BY <1>2, <2>2 DEF Linked, TypeOK
    <2>5. \/ ticks[q] > 0
          \/ \E f \in mail : Carries(f, c, d)
          \/ Pending(down[c], present[p], d) \/ Pending(down[d], present[q], c)
        BY <2>3, <2>4, ReachingNow
    <2>6. ticks[q] = 0 /\ mail = {} /\ down[c] = <<>> /\ down[d] = <<>>
        BY <1>2 DEF Quiet
    <2>7. \A A, e : ~Pending(<<>>, A, e)
        BY DEF Pending
    <2> QED BY <2>5, <2>6, <2>7
<1>3. IInv => KeyReaches
    BY <1>2 DEF KeyReaches
<1>4. IInv => KeyComes
    BY <1>1, <1>3 DEF KeyComes
<1> QED BY <1>4, EdgeInvariant, PTL

\* At rest a key that came before the last retry is in its account's escrow, unless a
\* save has failed since the session was opened (the save of finalize and of its
\* retries; VaultKeyEscrow.save, which nobody calls again).
THEOREM KeyIsInEscrow == Spec => []EscrowFollows
<1>1. ASSUME IInv PROVE EscrowFollows
    <2>1. \A p \in Peer : EscrowInv(p)
        BY <1>1 DEF IInv
    <2> QED BY <2>1 DEF EscrowFollows, Quiet, EscrowInv
<1> QED BY <1>1, EdgeInvariant, PTL

\* At rest a peer believes those there who are, unless a call of one ran at the same time
\* as a call of the other (EdgeSyncHub.Join and OnDisconnectedAsync, PeerUp and PeerDown).
THEOREM PresenceIsRight == Spec => []PresenceAgrees
<1>1. ASSUME IInv, Quiet, NEW p \in Peer, Linked(p)
      PROVE  /\ InRoom(conn[p]) \/ \E d \in Conn : {conn[p], d} \in crossed
             /\ \A d \in Conn \ {conn[p]} :
                    LET there == \E q \in Peer : conn[q] = d IN
                    (d \in present[p] <=> there) \/ {conn[p], d} \in crossed \/ (there /\ Apart(conn[p], d))
    <2>1. TypeOK /\ LinkInv /\ HubInv /\ SightInv
        BY <1>1 DEF IInv
    <2>2. PICK c \in Conn : c = conn[p] /\ c # None /\ who[c] = p /\ status[c] = "up"
        BY <1>1, <2>1, SessionFacts
    <2>3. /\ \A d \in Conn : work[d] = Idle /\ ~Reading(d) /\ ~Leaving(d) /\ asked[d] = "nothing" /\ status[d] # "cut"
          /\ down[c] = <<>>
        BY <1>1, <2>1, WorkFacts DEF Quiet
    <2>4. c \in entered
        BY <2>1, <2>2, <2>3 DEF LinkInv, ConnInv
    <2>5. Alone(c) => InRoom(c)
        BY <2>1, <2>3, <2>4 DEF HubInv, AloneInv, InRoom
    <2>6. ASSUME NEW d \in Conn, d # c, {c, d} \notin crossed, ~((\E q \in Peer : conn[q] = d) /\ Apart(c, d))
          PROVE  d \in present[p] <=> \E q \in Peer : conn[q] = d
        <3>1. /\ InRoom(c) /\ InRoom(d) => WillSee(down[c], d \in present[p], d)
              /\ WillSee(down[c], d \in present[p], d) => d \in group
            BY <2>1, <2>2, <2>4, <2>6 DEF SightInv, SeeInv, Crossed
        <3>2. WillSee(down[c], d \in present[p], d) <=> d \in present[p]
            BY <2>3 DEF WillSee
        <3>3. d \in group => \E q \in Peer : conn[q] = d
            <4>1. d \in group => status[d] = "up"
                BY <2>1, <2>3 DEF LinkInv, ConnInv, TypeOK
            <4>2. d \in group => d \in Made
                BY <2>1, <4>1, EnteredMade DEF LinkInv
            <4>3. d \in group => conn[who[d]] = d /\ who[d] \in Peer
                BY <2>1, <4>1, <4>2 DEF LinkInv, ConnInv, TypeOK, Made
            <4> QED BY <4>3
        <3>4. (\E q \in Peer : conn[q] = d) => InRoom(c) /\ InRoom(d)
            BY <2>6 DEF Apart
        <3> QED BY <3>1, <3>2, <3>3, <3>4
    <2> QED BY <2>2, <2>5, <2>6 DEF Alone, Crossed
<1>2. IInv => PresenceAgrees
    BY <1>1 DEF PresenceAgrees
<1> QED BY <1>2, EdgeInvariant, PTL
=============================================================================
