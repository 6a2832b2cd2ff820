------------------------- MODULE IndexChannelProofs -------------------------
(***************************************************************************)
(* An index channel, for any number of clients, connections and edits, as    *)
(* long as no channel is opened while a reconnection is rejoining channels.  *)
(* First the journal, which loses nothing (IInv); then the grow-only store   *)
(* of UpdateStore, which the channel implements (CarriedInv); then what a    *)
(* client at rest may rely on (RestInv).                                     *)
(***************************************************************************)
EXTENDS IndexChannel, Queues, TLAPS

\* Every journaled op covered by a connection is carried by the state S.
Covers(k, S) == \A o \in ops : o.id \in covered[k] => o.st \subseteq S

\* No trace of a JoinIndex on the connection.
NoJoin(k) == /\ ~Has(up[k], "join") /\ ~Has(up[k], "snap")
             /\ work[k].m # "joining"
             /\ ~Has(down[k], "joined")

\* Op ids are fresh and name one op for ever.
Known(o) == o.id < nextId /\ \A p \in ops : o.id = p.id => o = p
IdsInv == /\ \A o \in ops : Known(o)
          /\ \A k \in Conn : \A i \in covered[k] : i < nextId
          /\ \A k \in Conn : work[k].m = "joining" => \A o \in work[k].seen : Known(o)

\* One JoinIndex at most has been sent on a connection: its call, its handler,
\* its answer and the snapshot it leads to exclude each other.
JoinInv(k) ==
    /\ Once(up[k], "join") /\ Once(down[k], "joined")
    /\ Has(up[k], "join") =>
          ~Has(up[k], "snap") /\ work[k].m # "joining" /\ ~Has(down[k], "joined")
    /\ work[k].m = "joining" => ~Has(up[k], "snap") /\ ~Has(down[k], "joined")
    /\ Has(down[k], "joined") => ~Has(up[k], "snap")

\* What the client is about to snapshot, or has sent, carries the ops it covers.
CoverInv(k) == \A S \in States(down[k], "joined") \cup States(up[k], "snap") : Covers(k, S)

\* A connection not used yet, or on which the channel has not been joined.
FreshInv ==
    /\ \A k \in Conn : conn[k[1]] < k[2] => NoJoin(k)
    /\ \A c \in Client : Connected(c) /\ (phase[c] = "rejoin" \/ ~open[c]) => NoJoin(Current(c))
    /\ \A c \in Client : Connected(c) => conn[c] > 0

IInv == TypeOK /\ IdsInv /\ FreshInv /\ \A k \in Conn : JoinInv(k) /\ CoverInv(k)
-----------------------------------------------------------------------------
(* Sequences: what appending to a queue and taking its head do to it.       *)

LEMMA AppendFacts ==
    ASSUME NEW T, NEW s \in Seq(T), NEW e \in T
    PROVE  /\ Append(s, e) \in Seq(T)
           /\ \A i \in DOMAIN Append(s, e) :
                 (i \in DOMAIN s /\ Append(s, e)[i] = s[i]) \/ (i = Len(s) + 1 /\ Append(s, e)[i] = e)
           /\ \A i \in DOMAIN s : i \in DOMAIN Append(s, e) /\ Append(s, e)[i] = s[i] /\ i # Len(s) + 1
    OBVIOUS

LEMMA TailFacts ==
    ASSUME NEW T, NEW s \in Seq(T), s # <<>>
    PROVE  /\ Tail(s) \in Seq(T)
           /\ 1 \in DOMAIN s /\ Head(s) = s[1] /\ Head(s) \in T
           /\ \A i \in DOMAIN Tail(s) : i + 1 \in DOMAIN s /\ Tail(s)[i] = s[i + 1] /\ i + 1 # 1
    OBVIOUS

LEMMA KindsAfterAppend ==
    ASSUME NEW T, NEW s \in Seq(T), NEW e \in T, NEW m
    PROVE  /\ Has(Append(s, e), m) => Has(s, m) \/ e.m = m
           /\ Once(s, m) /\ (e.m # m \/ ~Has(s, m)) => Once(Append(s, e), m)
           /\ e.m # m => States(Append(s, e), m) \subseteq States(s, m)
           /\ States(Append(s, e), m) \subseteq States(s, m) \cup {e.st}
    BY AppendFacts DEF Has, Once, States

LEMMA KindsAfterTail ==
    ASSUME NEW T, NEW s \in Seq(T), s # <<>>, NEW m
    PROVE  /\ Has(Tail(s), m) => Has(s, m)
           /\ Once(s, m) => Once(Tail(s), m)
           /\ Once(s, m) /\ Head(s).m = m => ~Has(Tail(s), m)
           /\ States(Tail(s), m) \subseteq States(s, m)
           /\ Head(s).m = m => Has(s, m) /\ Head(s).st \in States(s, m)
    BY TailFacts DEF Has, Once, States

LEMMA NoKinds ==
    /\ \A m : ~Has(<<>>, m) /\ Once(<<>>, m) /\ States(<<>>, m) = {}
    /\ \A s, m : ~Has(s, m) => States(s, m) = {}
    BY DEF Has, Once, States

LEMMA AllStatesSteps ==
    /\ AllStates(<<>>) = {}
    /\ \A T : \A s \in Seq(T) : \A e \in T : AllStates(Append(s, e)) = AllStates(s) \cup {e.st}
    /\ \A T : \A s \in Seq(T) :
          s # <<>> => /\ AllStates(Tail(s)) \subseteq AllStates(s)
                      /\ Head(s).st \in AllStates(s)
                      /\ AllStates(s) \subseteq AllStates(Tail(s)) \cup {Head(s).st}
<1>1. AllStates(<<>>) = {}
    BY DEF AllStates
<1>2. ASSUME NEW T, NEW s \in Seq(T), NEW e \in T
      PROVE  AllStates(Append(s, e)) = AllStates(s) \cup {e.st}
    <2>1. DOMAIN Append(s, e) = DOMAIN s \cup {Len(s) + 1} /\ Append(s, e)[Len(s) + 1] = e
        OBVIOUS
    <2>2. \A i \in DOMAIN s : Append(s, e)[i] = s[i]
        OBVIOUS
    <2> QED BY <2>1, <2>2 DEF AllStates
<1>3. ASSUME NEW T, NEW s \in Seq(T), s # <<>>
      PROVE  /\ AllStates(Tail(s)) \subseteq AllStates(s)
             /\ Head(s).st \in AllStates(s)
             /\ AllStates(s) \subseteq AllStates(Tail(s)) \cup {Head(s).st}
    <2>1. \A i \in DOMAIN s : i = 1 \/ (i - 1 \in DOMAIN Tail(s) /\ Tail(s)[i - 1] = s[i])
        BY <1>3
    <2>2. /\ 1 \in DOMAIN s /\ Head(s) = s[1]
          /\ \A i \in DOMAIN Tail(s) : i + 1 \in DOMAIN s /\ Tail(s)[i] = s[i + 1]
        BY <1>3, TailFacts
    <2>3. AllStates(Tail(s)) \subseteq AllStates(s) /\ Head(s).st \in AllStates(s)
        BY <2>2 DEF AllStates
    <2>4. AllStates(s) \subseteq AllStates(Tail(s)) \cup {Head(s).st}
        BY <2>1, <2>2 DEF AllStates
    <2> QED BY <2>3, <2>4
<1> QED BY <1>1, <1>2, <1>3

LEMMA PushesAfterAppend ==
    ASSUME NEW T, NEW s \in Seq(T), NEW e \in T
    PROVE  /\ e.m # "push" => Pushes(Append(s, e)) = Pushes(s)
           /\ e.m = "push" => Pushes(Append(s, e)) = Pushes(s) \cup e.st
<1>1. /\ \A i \in DOMAIN Append(s, e) :
            (i \in DOMAIN s /\ Append(s, e)[i] = s[i]) \/ (i = Len(s) + 1 /\ Append(s, e)[i] = e)
      /\ \A i \in DOMAIN s : i \in DOMAIN Append(s, e) /\ Append(s, e)[i] = s[i]
      /\ Len(s) + 1 \in DOMAIN Append(s, e) /\ Append(s, e)[Len(s) + 1] = e
    BY AppendFacts
<1>2. CASE e.m # "push"
    <2>1. States(Append(s, e), "push") = States(s, "push")
        BY <1>1, <1>2 DEF States
    <2> QED BY <1>2, <2>1 DEF Pushes
<1>3. CASE e.m = "push"
    <2>1. States(Append(s, e), "push") = States(s, "push") \cup {e.st}
        BY <1>1, <1>3 DEF States
    <2> QED BY <1>3, <2>1 DEF Pushes
<1> QED BY <1>2, <1>3

LEMMA PushesAfterTail ==
    ASSUME NEW T, NEW s \in Seq(T), s # <<>>
    PROVE  /\ Pushes(Tail(s)) \subseteq Pushes(s)
           /\ Head(s).m # "push" => Pushes(s) = Pushes(Tail(s))
           /\ Head(s).m = "push" => Pushes(s) = Pushes(Tail(s)) \cup Head(s).st
<1>1. /\ 1 \in DOMAIN s /\ Head(s) = s[1]
      /\ \A i \in DOMAIN Tail(s) : i + 1 \in DOMAIN s /\ Tail(s)[i] = s[i + 1]
    BY TailFacts
<1>2. \A i \in DOMAIN s : i = 1 \/ (i - 1 \in DOMAIN Tail(s) /\ Tail(s)[i - 1] = s[i])
    OBVIOUS
<1>3. States(Tail(s), "push") \subseteq States(s, "push")
    BY <1>1 DEF States
<1>4. States(s, "push") \subseteq States(Tail(s), "push") \cup {Head(s).st}
    <2>1. ASSUME NEW i \in DOMAIN s, s[i].m = "push", i # 1
          PROVE  s[i].st \in States(Tail(s), "push")
        BY <1>2, <2>1 DEF States
    <2> QED BY <1>1, <2>1 DEF States
<1>5. CASE Head(s).m # "push"
    <2>1. ASSUME NEW i \in DOMAIN s, s[i].m = "push" PROVE s[i].st \in States(Tail(s), "push")
        BY <1>1, <1>2, <1>5, <2>1 DEF States
    <2>2. States(s, "push") = States(Tail(s), "push")
        BY <1>3, <2>1 DEF States
    <2> QED BY <1>5, <2>2 DEF Pushes
<1>6. CASE Head(s).m = "push"
    <2>1. Head(s).st \in States(s, "push")
        BY <1>1, <1>6 DEF States
    <2>2. States(s, "push") = States(Tail(s), "push") \cup {Head(s).st}
        BY <1>3, <1>4, <2>1
    <2> QED BY <1>6, <2>2 DEF Pushes
<1>3a. Pushes(Tail(s)) \subseteq Pushes(s)
    BY <1>3 DEF Pushes
<1> QED BY <1>3a, <1>5, <1>6
-----------------------------------------------------------------------------
(* Type correctness.                                                        *)

LEMMA InitType == Init => TypeOK
    BY BoundsAssumption DEF Init, TypeOK, Work, NoWork, Conn

LEMMA CurrentIsConn == ASSUME TypeOK, NEW c \in Client, Connected(c), conn[c] > 0
                       PROVE  Current(c) \in Conn
    BY DEF TypeOK, Current, Conn

LEMMA ContentType == ASSUME NEW s \in SUBSET Op PROVE Content(s) \in SUBSET Update
    BY DEF Content, Op

\* A queue of calls, and a queue of messages, after an append or a removal.
LEMMA CallAppended ==
    ASSUME TypeOK, NEW k, NEW call \in Call, Send(k, call)
    PROVE  up' \in [Conn -> Seq(Call)]
<1>1. CASE k \in Conn
    BY <1>1, AppendFacts DEF TypeOK, Send
<1>2. CASE k \notin Conn
    BY <1>2 DEF TypeOK, Send
<1> QED BY <1>1, <1>2

LEMMA CallRemoved ==
    ASSUME TypeOK, NEW k \in Conn, up[k] # <<>>, Pop(k)
    PROVE  up' \in [Conn -> Seq(Call)] /\ Head(up[k]) \in Call
    BY TailFacts DEF TypeOK, Pop

LEMMA MsgsCleared ==
    ASSUME TypeOK, NEW k, down' = [down EXCEPT ![k] = <<>>]
    PROVE  down' \in [Conn -> Seq(Msg)]
<1>1. <<>> \in Seq(Msg)
    OBVIOUS
<1> QED BY <1>1 DEF TypeOK

LEMMA MsgRemoved ==
    ASSUME TypeOK, NEW k \in Conn, down[k] # <<>>, down' = [down EXCEPT ![k] = Tail(@)]
    PROVE  down' \in [Conn -> Seq(Msg)] /\ Head(down[k]) \in Msg
    BY TailFacts DEF TypeOK

\* The bound on connections keeps a client's current connection in Conn.
LEMMA ReceiveType == ASSUME TypeOK, NEW c \in Client, conn[c] > 0, Receive(c) PROVE TypeOK'
<1> DEFINE k == Current(c)
           msg == Head(down[k])
           merged == doc[c] \cup msg.st
<1>1. k \in Conn /\ down[k] # <<>>
    BY CurrentIsConn DEF Receive
<1>2. down' \in [Conn -> Seq(Msg)] /\ msg \in Msg
    BY <1>1, MsgRemoved DEF Receive
<1>3. merged \in SUBSET Update
    BY <1>2 DEF Msg, TypeOK
<1>4. up' \in [Conn -> Seq(Call)]
    BY <1>3, CallAppended DEF Receive, Call, TypeOK
<1>5. lossy' \in [Client -> BOOLEAN]
    BY DEF Receive, TypeOK
<1> HIDE DEF k, msg
<1> QED BY <1>2, <1>3, <1>4, <1>5 DEF Receive, TypeOK, serverVars, k, msg

LEMMA ClientType == ASSUME TypeOK, \A c \in Client : Connected(c) => conn[c] > 0, ClientNext
                    PROVE  TypeOK'
<1> SUFFICES ASSUME NEW c \in Client,
                    \/ Start(c) \/ Drop(c) \/ Reconnect(c) \/ GiveUp(c) \/ RejoinIndexes(c)
                    \/ OpenIndex(c) \/ Receive(c) \/ Close(c)
                    \/ \E u \in Update : Edit(c, u)
             PROVE  TypeOK'
    BY DEF ClientNext
<1>1. CASE Start(c)
    BY <1>1, BoundsAssumption DEF Start, TypeOK, serverVars
<1>2. CASE Drop(c)
    BY <1>2, MsgsCleared DEF Drop, TypeOK, serverVars
<1>3. CASE Reconnect(c)
    BY <1>3, BoundsAssumption DEF Reconnect, TypeOK, serverVars
<1>4. CASE GiveUp(c)
    BY <1>4 DEF GiveUp, TypeOK, serverVars
<1>5. CASE RejoinIndexes(c)
    <2>1. up' \in [Conn -> Seq(Call)]
        BY <1>5, CallAppended DEF RejoinIndexes, Call, TypeOK
    <2> QED BY <1>5, <2>1 DEF RejoinIndexes, TypeOK, serverVars
<1>6. CASE OpenIndex(c)
    <2>1. up' \in [Conn -> Seq(Call)]
        BY <1>6, CallAppended DEF OpenIndex, Call, TypeOK
    <2> QED BY <1>6, <2>1 DEF OpenIndex, TypeOK, serverVars
<1>7. CASE Receive(c)
    BY <1>7, ReceiveType DEF Receive
<1>8. CASE Close(c)
    BY <1>8, MsgsCleared DEF Close, TypeOK, serverVars
<1>9. CASE \E u \in Update : Edit(c, u)
    <2> PICK u \in Update : Edit(c, u)
        BY <1>9
    <2>1. up' \in [Conn -> Seq(Call)]
        BY CallAppended DEF Edit, Call, TypeOK
    <2>2. doc' \in [Client -> SUBSET Update] /\ made' \in SUBSET Update
        BY DEF Edit, TypeOK
    <2>3. lossy' \in [Client -> BOOLEAN]
        BY DEF Edit, TypeOK
    <2>4. UNCHANGED <<serverVars, down, phase, conn, open>>
        BY DEF Edit
    <2> QED BY <2>1, <2>2, <2>3, <2>4 DEF TypeOK, serverVars
<1> QED BY <1>1, <1>2, <1>3, <1>4, <1>5, <1>6, <1>7, <1>8, <1>9

\* What a dispatcher in the middle of a call holds.
LEMMA WorkFields ==
    ASSUME NEW w \in Work
    PROVE  /\ w.m = "joining" => w.why \in {"open", "rejoin"} /\ w.seen \in SUBSET Op
           /\ w.m = "casting" => w.st \in SUBSET Update
<1>1. CASE w = NoWork
    BY <1>1 DEF NoWork
<1>2. CASE w \in [m : {"joining"}, why : {"open", "rejoin"}, seen : SUBSET Op]
    BY <1>2
<1>3. CASE w \in [m : {"casting"}, st : SUBSET Update]
    BY <1>3
<1> QED BY <1>1, <1>2, <1>3 DEF Work

LEMMA ServerType == ASSUME TypeOK, ServerNext PROVE TypeOK'
<1> SUFFICES ASSUME NEW k \in Conn,
                    \/ JoinRead(k) \/ JoinAnswer(k) \/ PushAppend(k) \/ PushCast(k)
                    \/ Snapshot(k) \/ Hangup(k)
             PROVE  TypeOK'
    BY DEF ServerNext
<1>1. CASE JoinRead(k)
    <2>1. up' \in [Conn -> Seq(Call)] /\ Head(up[k]) \in Call /\ Head(up[k]).m = "join"
        BY <1>1, CallRemoved DEF JoinRead, Starts
    <2>2. Head(up[k]).why \in {"open", "rejoin"}
        BY <2>1 DEF Call
    <2>3. work' \in [Conn -> Work]
        BY <1>1, <2>2 DEF JoinRead, TypeOK, Work
    <2> QED BY <1>1, <2>1, <2>3 DEF JoinRead, TypeOK, clientVars
<1>2. CASE JoinAnswer(k)
    <2>1. work[k].m = "joining" /\ work[k].why \in {"open", "rejoin"} /\ work[k].seen \in SUBSET Op
        BY <1>2, WorkFields DEF JoinAnswer, TypeOK
    <2>2. covered' \in [Conn -> SUBSET Nat]
        <3>1. {o.id : o \in work[k].seen} \in SUBSET Nat
            BY <2>1 DEF Op
        <3> QED BY <1>2, <3>1 DEF JoinAnswer, TypeOK
    <2>3. work' \in [Conn -> Work]
        BY <1>2 DEF JoinAnswer, TypeOK, Work
    <2>4. down' \in [Conn -> Seq(Msg)]
        <3> DEFINE msg == [m |-> "joined", why |-> work[k].why, st |-> Content(work[k].seen),
                           long |-> Cardinality(work[k].seen) > CompactThreshold]
        <3>1. msg \in Msg
            BY <2>1, ContentType DEF Msg
        <3>2. Append(down[k], msg) \in Seq(Msg)
            BY <3>1, AppendFacts DEF TypeOK
        <3> HIDE DEF msg
        <3>3. down' = IF Live(k) THEN [down EXCEPT ![k] = Append(@, msg)] ELSE down
            BY <1>2 DEF JoinAnswer, msg
        <3> QED BY <3>2, <3>3 DEF TypeOK
    <2> QED BY <1>2, <2>2, <2>3, <2>4 DEF JoinAnswer, TypeOK, clientVars
<1>3. CASE PushAppend(k)
    <2>1. up' \in [Conn -> Seq(Call)] /\ Head(up[k]) \in Call /\ Head(up[k]).m = "push"
        BY <1>3, CallRemoved DEF PushAppend, Starts
    <2>2. Head(up[k]).st \in SUBSET Update
        BY <2>1 DEF Call
    <2>3. work' \in [Conn -> Work]
        BY <1>3, <2>2 DEF PushAppend, TypeOK, Work
    <2>4. ops' \in SUBSET Op /\ nextId' \in Nat
        BY <1>3, <2>2 DEF PushAppend, TypeOK, Op
    <2> QED BY <1>3, <2>1, <2>3, <2>4 DEF PushAppend, TypeOK, clientVars
<1>4. CASE PushCast(k)
    <2>1. work[k].m = "casting" /\ work[k].st \in SUBSET Update
        BY <1>4, WorkFields DEF PushCast, TypeOK
    <2>2. work' \in [Conn -> Work]
        BY <1>4 DEF PushCast, TypeOK, Work
    <2>3. slipped' \in [Conn -> SUBSET Update]
        BY <1>4, <2>1 DEF PushCast, TypeOK
    <2>4. down' \in [Conn -> Seq(Msg)]
        <3>1. [m |-> "update", st |-> work[k].st] \in Msg
            BY <2>1 DEF Msg
        <3>2. \A j \in Conn : Append(down[j], [m |-> "update", st |-> work[k].st]) \in Seq(Msg)
            BY <3>1, AppendFacts DEF TypeOK
        <3> QED BY <1>4, <3>2 DEF PushCast, TypeOK
    <2> QED BY <1>4, <2>2, <2>3, <2>4 DEF PushCast, TypeOK, clientVars
<1>5. CASE Snapshot(k)
    <2>1. up' \in [Conn -> Seq(Call)] /\ Head(up[k]) \in Call /\ Head(up[k]).m = "snap"
        BY <1>5, CallRemoved DEF Snapshot, Starts
    <2>2. Head(up[k]).st \in SUBSET Update
        BY <2>1 DEF Call
    <2>3. ops' \in SUBSET Op /\ nextId' \in Nat
        BY <1>5, <2>2 DEF Snapshot, Replace, TypeOK, Op
    <2> QED BY <1>5, <2>1, <2>3 DEF Snapshot, TypeOK, clientVars
<1>6. CASE Hangup(k)
    <2>1. <<>> \in Seq(Call)
        OBVIOUS
    <2> QED BY <1>6, <2>1 DEF Hangup, TypeOK, clientVars
<1> QED BY <1>1, <1>2, <1>3, <1>4, <1>5, <1>6

-----------------------------------------------------------------------------
(* What a client does to one connection k: the server's half is unchanged.  *)

ConnInv(k) == JoinInv(k) /\ CoverInv(k)
ServerStill == UNCHANGED <<ops, nextId, covered, work>>

\* Messages received without an answer, or lost with the connection.
LEMMA QueueDrained ==
    ASSUME TypeOK, ServerStill, NEW k \in Conn, ConnInv(k), up'[k] = up[k],
           \/ down'[k] = down[k]
           \/ down'[k] = <<>>
           \/ down[k] # <<>> /\ down'[k] = Tail(down[k])
    PROVE  ConnInv(k)' /\ (NoJoin(k) => NoJoin(k)')
<1>1. down[k] \in Seq(Msg)
    BY DEF TypeOK
<1>2. /\ Has(down'[k], "joined") => Has(down[k], "joined")
      /\ Once(down[k], "joined") => Once(down'[k], "joined")
      /\ States(down'[k], "joined") \subseteq States(down[k], "joined")
    BY <1>1, KindsAfterTail, NoKinds
<1>3. \A S : Covers(k, S) => Covers(k, S)'
    BY DEF Covers, ServerStill
<1> QED BY <1>2, <1>3 DEF ConnInv, JoinInv, CoverInv, NoJoin, ServerStill

\* The connection's one JoinIndex is sent.
LEMMA QueueJoins ==
    ASSUME TypeOK, ServerStill, NEW k \in Conn, ConnInv(k), NoJoin(k), down'[k] = down[k],
           NEW call \in Call, call.m = "join", up'[k] = Append(up[k], call)
    PROVE  ConnInv(k)'
<1>1. up[k] \in Seq(Call)
    BY DEF TypeOK
<1>2. /\ Once(up'[k], "join") /\ ~Has(up'[k], "snap")
      /\ States(up'[k], "snap") = {} /\ States(down[k], "joined") = {}
    <2>1. Once(up'[k], "join")
        BY <1>1, KindsAfterAppend DEF NoJoin, ConnInv, JoinInv
    <2>2. ~Has(up'[k], "snap")
        BY <1>1, KindsAfterAppend DEF NoJoin
    <2> QED BY <2>1, <2>2, NoKinds DEF NoJoin
<1> QED BY <1>2 DEF ConnInv, JoinInv, CoverInv, NoJoin, ServerStill

\* A push is sent, by an edit or in answer to a message received.
LEMMA QueuePushes ==
    ASSUME TypeOK, ServerStill, NEW k \in Conn, ConnInv(k),
           NEW call \in Call, call.m = "push", up'[k] = Append(up[k], call),
           \/ down'[k] = down[k]
           \/ down[k] # <<>> /\ down'[k] = Tail(down[k])
    PROVE  ConnInv(k)' /\ (NoJoin(k) => NoJoin(k)')
<1>1. up[k] \in Seq(Call) /\ down[k] \in Seq(Msg)
    BY DEF TypeOK
<1>2. /\ Has(down'[k], "joined") => Has(down[k], "joined")
      /\ Once(down[k], "joined") => Once(down'[k], "joined")
      /\ States(down'[k], "joined") \subseteq States(down[k], "joined")
    BY <1>1, KindsAfterTail
<1>3. \A m \in {"join", "snap"} : Has(up'[k], m) => Has(up[k], m)
    BY <1>1, KindsAfterAppend
<1>4. Once(up[k], "join") => Once(up'[k], "join")
    BY <1>1, KindsAfterAppend
<1>5. States(up'[k], "snap") \subseteq States(up[k], "snap")
    BY <1>1, KindsAfterAppend
<1>6. \A S : Covers(k, S) => Covers(k, S)'
    BY DEF Covers, ServerStill
<1> QED BY <1>2, <1>3, <1>4, <1>5, <1>6 DEF ConnInv, JoinInv, CoverInv, NoJoin, ServerStill

\* The answer to the first JoinIndex is received, and the state sent back.
LEMMA QueueSnaps ==
    ASSUME TypeOK, ServerStill, NEW k \in Conn, ConnInv(k),
           down[k] # <<>>, Head(down[k]).m = "joined", down'[k] = Tail(down[k]),
           NEW call \in Call, call.m = "snap", Head(down[k]).st \subseteq call.st,
           up'[k] = Append(up[k], call)
    PROVE  ConnInv(k)'
<1>1. up[k] \in Seq(Call) /\ down[k] \in Seq(Msg)
    BY DEF TypeOK
<1>2. Has(down[k], "joined") /\ ~Has(down'[k], "joined") /\ Once(down'[k], "joined")
    BY <1>1, KindsAfterTail DEF ConnInv, JoinInv
<1>3. ~Has(up'[k], "join") /\ Once(up'[k], "join") /\ work[k].m # "joining"
    BY <1>1, <1>2, KindsAfterAppend DEF ConnInv, JoinInv
<1>4. Covers(k, call.st)'
    <2>1. Covers(k, Head(down[k]).st)
        BY <1>1, KindsAfterTail DEF ConnInv, CoverInv
    <2> QED BY <2>1 DEF Covers, ServerStill
<1>5. CoverInv(k)'
    <2>1. States(up'[k], "snap") \subseteq {call.st} /\ States(down'[k], "joined") = {}
        <3>1. States(up[k], "snap") = {}
            BY <1>2, NoKinds DEF ConnInv, JoinInv
        <3>2. States(up'[k], "snap") \subseteq States(up[k], "snap") \cup {call.st}
            BY <1>1, KindsAfterAppend
        <3> QED BY <1>2, <3>1, <3>2, NoKinds
    <2> QED BY <1>4, <2>1 DEF CoverInv
<1> QED BY <1>2, <1>3, <1>5 DEF ConnInv, JoinInv, ServerStill

\* Whatever the client sends and receives, short of a JoinIndex.
Exchanged(k) ==
    \/ up'[k] = up[k] /\ (down'[k] = down[k] \/ (down[k] # <<>> /\ down'[k] = Tail(down[k])))
    \/ /\ \E call \in Call : call.m = "push" /\ up'[k] = Append(up[k], call)
       /\ down'[k] = down[k] \/ (down[k] # <<>> /\ down'[k] = Tail(down[k]))
    \/ /\ down[k] # <<>> /\ Head(down[k]).m = "joined" /\ down'[k] = Tail(down[k])
       /\ \E call \in Call : /\ call.m = "snap" /\ Head(down[k]).st \subseteq call.st
                             /\ up'[k] = Append(up[k], call)

LEMMA QueueExchanged ==
    ASSUME TypeOK, ServerStill, NEW k \in Conn, ConnInv(k), Exchanged(k)
    PROVE  ConnInv(k)' /\ (NoJoin(k) => NoJoin(k)')
<1>1. CASE up'[k] = up[k] /\ (down'[k] = down[k] \/ (down[k] # <<>> /\ down'[k] = Tail(down[k])))
    BY <1>1, QueueDrained
<1>2. CASE /\ \E call \in Call : call.m = "push" /\ up'[k] = Append(up[k], call)
           /\ down'[k] = down[k] \/ (down[k] # <<>> /\ down'[k] = Tail(down[k]))
    BY <1>2, QueuePushes
<1>3. CASE /\ down[k] # <<>> /\ Head(down[k]).m = "joined" /\ down'[k] = Tail(down[k])
           /\ \E call \in Call : /\ call.m = "snap" /\ Head(down[k]).st \subseteq call.st
                                 /\ up'[k] = Append(up[k], call)
    <2>1. ~NoJoin(k)
        BY <1>3, KindsAfterTail DEF TypeOK, NoJoin
    <2> QED BY <1>3, <2>1, QueueSnaps
<1> QED BY <1>1, <1>2, <1>3 DEF Exchanged

-----------------------------------------------------------------------------
(* The client's steps.                                                      *)

\* IdsInv and what the queues carry do not depend on the client's state.
LEMMA IdsStill == ASSUME IdsInv, ServerStill PROVE IdsInv'
    BY DEF IdsInv, Known, ServerStill

LEMMA ClientStep == ASSUME ~OpenDuringRejoin, IInv, ClientNext PROVE IInv'
<1>0. TypeOK /\ TypeOK' /\ IdsInv'
    <2>1. ServerStill
        BY DEF ClientNext, Start, Drop, Reconnect, GiveUp, RejoinIndexes, OpenIndex, Receive,
               Close, Edit, serverVars, ServerStill
    <2> QED BY <2>1, ClientType, IdsStill DEF IInv, FreshInv
<1> SUFFICES ASSUME NEW c \in Client,
                    \/ Start(c) \/ Drop(c) \/ Reconnect(c) \/ GiveUp(c) \/ RejoinIndexes(c)
                    \/ OpenIndex(c) \/ Receive(c) \/ Close(c)
                    \/ \E u \in Update : Edit(c, u)
             PROVE  FreshInv' /\ \A k \in Conn : ConnInv(k)'
    BY <1>0 DEF ClientNext, IInv, ConnInv
<1> USE DEF Connected, Current
<1>a. \A k \in Conn : ConnInv(k)
    BY DEF IInv, ConnInv
<1>b. Connected(c) => Current(c) \in Conn
    BY <1>0, CurrentIsConn DEF IInv, FreshInv
<1>1. CASE Start(c) \/ Reconnect(c)
    <2>1. ServerStill /\ UNCHANGED <<up, down, open>>
        BY <1>1 DEF Start, Reconnect, serverVars, ServerStill
    <2>2. \A k \in Conn : ConnInv(k)' /\ (NoJoin(k) => NoJoin(k)')
        BY <1>0, <1>a, <2>1, QueueDrained
    <2>3. /\ conn[c] \in 0..MaxConn /\ conn[c] < MaxConn
          /\ phase' \in {[phase EXCEPT ![c] = "on"], [phase EXCEPT ![c] = "rejoin"]}
          /\ conn' = [conn EXCEPT ![c] = @ + 1]
        BY <1>0, <1>1 DEF Start, Reconnect, TypeOK
    <2>4. \A n \in Conn : n = <<c, conn[c] + 1>> => NoJoin(n)'
        <3> SUFFICES ASSUME NEW n \in Conn, n = <<c, conn[c] + 1>> PROVE NoJoin(n)'
            OBVIOUS
        <3>1. conn[n[1]] < n[2]
            BY <2>3, BoundsAssumption
        <3>2. NoJoin(n)
            BY <3>1 DEF IInv, FreshInv
        <3> QED BY <2>2, <3>2
    <2>5. \A k \in Conn : conn'[k[1]] < k[2] => NoJoin(k)'
        BY <1>0, <2>2, <2>3, BoundsAssumption DEF IInv, FreshInv, Conn, TypeOK
    <2>6. ASSUME NEW d \in Client, Connected(d)', phase'[d] = "rejoin" \/ ~open'[d]
          PROVE  NoJoin(Current(d))'
        <3>1. CASE d = c
            <4>1. Current(d)' = <<c, conn[c] + 1>> /\ Current(d)' \in Conn
                BY <1>0, <2>3, <3>1, BoundsAssumption DEF TypeOK, Conn
            <4> QED BY <2>4, <4>1
        <3>2. CASE d # c
            <4>1. Connected(d) /\ (phase[d] = "rejoin" \/ ~open[d]) /\ Current(d)' = Current(d)
                BY <1>0, <2>1, <2>3, <2>6, <3>2 DEF TypeOK
            <4> QED BY <1>0, <2>2, <4>1, CurrentIsConn DEF IInv, FreshInv
        <3> QED BY <3>1, <3>2
    <2>7. \A d \in Client : Connected(d)' => conn'[d] > 0
        BY <1>0, <2>3, BoundsAssumption DEF IInv, FreshInv, TypeOK
    <2> QED BY <2>2, <2>5, <2>6, <2>7 DEF FreshInv
<1>2. CASE Drop(c) \/ Close(c) \/ GiveUp(c)
    <2>1. /\ ServerStill /\ up' = up /\ conn' = conn
          /\ down' = down \/ down' = [down EXCEPT ![Current(c)] = <<>>]
          /\ phase' \in {[phase EXCEPT ![c] = "retry"], [phase EXCEPT ![c] = "off"]}
          /\ open' \in {open, [open EXCEPT ![c] = FALSE]}
        BY <1>2 DEF Drop, Close, GiveUp, serverVars, ServerStill
    <2>2. \A k \in Conn : ConnInv(k)' /\ (NoJoin(k) => NoJoin(k)')
        <3> TAKE k \in Conn
        <3>1. up'[k] = up[k] /\ (down'[k] = down[k] \/ down'[k] = <<>>)
            BY <1>0, <2>1 DEF TypeOK
        <3> QED BY <1>0, <1>a, <2>1, <3>1, QueueDrained
    <2>3. \A d \in Client : Connected(d)' =>
                /\ d # c /\ Connected(d) /\ open'[d] = open[d] /\ phase'[d] = phase[d]
        BY <1>0, <2>1 DEF TypeOK
    <2> QED BY <1>0, <2>1, <2>2, <2>3, CurrentIsConn DEF IInv, FreshInv
<1>3. CASE RejoinIndexes(c) \/ OpenIndex(c)
    <2> DEFINE k == Current(c)
    <2>1. /\ ServerStill /\ down' = down /\ conn' = conn
          /\ phase' \in {phase, [phase EXCEPT ![c] = "on"]}
          /\ open' \in {open, [open EXCEPT ![c] = TRUE]}
          /\ Connected(c)' => Connected(c) /\ phase'[c] = "on"
        BY <1>0, <1>3 DEF RejoinIndexes, OpenIndex, serverVars, ServerStill, TypeOK
    <2>2. Connected(c) => k \in Conn /\ NoJoin(k)
        BY <1>b, <1>3 DEF RejoinIndexes, OpenIndex, IInv, FreshInv
    <2>3. CASE up' = up
        <3>1. \A j \in Conn : ConnInv(j)' /\ (NoJoin(j) => NoJoin(j)')
            BY <1>0, <1>a, <2>1, <2>3, QueueDrained
        <3>2. \A d \in Client : Connected(d)' => Connected(d) /\ (~open'[d] => ~open[d])
                                /\ (phase'[d] = "rejoin" => phase[d] = "rejoin")
            BY <1>0, <2>1 DEF TypeOK
        <3> QED BY <1>0, <2>1, <3>1, <3>2, CurrentIsConn DEF IInv, FreshInv
    <2>4. CASE Connected(c) /\ open'[c] /\ \E call \in Call : call.m = "join" /\ Send(k, call)
        <3>1. PICK call \in Call : call.m = "join" /\ Send(k, call)
            BY <2>4
        <3>2. up'[k] = Append(up[k], call) /\ \A j \in Conn : j # k => up'[j] = up[j]
            BY <1>0, <2>2, <2>4, <3>1 DEF Send, TypeOK
        <3>3. \A j \in Conn : j = k => ConnInv(j)'
            BY <1>0, <1>a, <2>1, <2>2, <2>4, <3>1, <3>2, QueueJoins
        <3>4. \A j \in Conn : j # k => ConnInv(j)' /\ (NoJoin(j) => NoJoin(j)')
            BY <1>0, <1>a, <2>1, <3>2, QueueDrained
        <3>5. ASSUME NEW j \in Conn, conn'[j[1]] < j[2] PROVE NoJoin(j)'
            <4>1. j # k
                BY <1>0, <2>1, <3>5, BoundsAssumption DEF TypeOK, Conn
            <4> QED BY <2>1, <3>4, <3>5, <4>1 DEF IInv, FreshInv
        <3>6. ASSUME NEW d \in Client, Connected(d)', phase'[d] = "rejoin" \/ ~open'[d]
              PROVE  NoJoin(Current(d))'
            <4>1. d # c
                BY <2>1, <2>4, <3>6
            <4>2. Connected(d) /\ (phase[d] = "rejoin" \/ ~open[d]) /\ Current(d)' = Current(d)
                BY <1>0, <2>1, <3>6, <4>1 DEF TypeOK
            <4>3. Current(d) \in Conn /\ NoJoin(Current(d)) /\ Current(d) # k
                BY <1>0, <4>1, <4>2, CurrentIsConn DEF IInv, FreshInv
            <4> QED BY <3>4, <4>2, <4>3
        <3>7. \A d \in Client : Connected(d)' => conn'[d] > 0
            BY <1>0, <2>1, <2>4 DEF IInv, FreshInv, TypeOK
        <3> QED BY <3>3, <3>4, <3>5, <3>6, <3>7 DEF FreshInv
    <2>5. \/ up' = up
          \/ Connected(c) /\ open'[c] /\ \E call \in Call : call.m = "join" /\ Send(k, call)
        BY <1>0, <1>3 DEF RejoinIndexes, OpenIndex, TypeOK, Call
    <2> QED BY <2>3, <2>4, <2>5
<1>4. CASE Receive(c) \/ \E u \in Update : Edit(c, u)
    <2> DEFINE k == Current(c)
               msg == Head(down[k])
    <2>1. ServerStill /\ conn' = conn /\ phase' = phase /\ open' = open
        BY <1>4 DEF Receive, Edit, serverVars, ServerStill
    <2>2. ASSUME NEW j \in Conn PROVE ConnInv(j)' /\ (NoJoin(j) => NoJoin(j)')
        <3> SUFFICES Exchanged(j)
            BY <1>0, <1>a, <2>1, QueueExchanged
        <3>4. CASE Receive(c)
            <4>1. k \in Conn /\ down[k] # <<>> /\ msg \in Msg
                BY <1>0, <1>b, <3>4, TailFacts DEF Receive, TypeOK
            <4>2. doc[c] \cup msg.st \in SUBSET Update
                BY <1>0, <4>1 DEF Msg, TypeOK
            <4>3. CASE j # k
                <5>1. down' = [down EXCEPT ![k] = Tail(@)] /\ (up' = up \/ \E call : Send(k, call))
                    BY <3>4 DEF Receive
                <5>2. down'[j] = down[j] /\ up'[j] = up[j]
                    <6> HIDE DEF k
                    <6> QED BY <1>0, <4>3, <5>1 DEF Send, TypeOK
                <5> QED BY <5>2 DEF Exchanged
            <4>4. CASE j = k
                <5> DEFINE snap == [m |-> "snap", st |-> doc[c] \cup msg.st]
                           push == [m |-> "push", st |-> doc[c] \cup msg.st]
                <5>1. down'[j] = Tail(down[j]) /\ snap \in Call /\ push \in Call
                    BY <1>0, <3>4, <4>1, <4>2, <4>4 DEF Receive, TypeOK, Call
                <5>2. \/ up'[j] = up[j]
                      \/ up'[j] = Append(up[j], push)
                      \/ msg.m = "joined" /\ up'[j] = Append(up[j], snap)
                    BY <1>0, <3>4, <4>1, <4>4 DEF Receive, Send, TypeOK
                <5>3. msg.st \subseteq snap.st /\ snap.m = "snap" /\ push.m = "push"
                    OBVIOUS
                <5> HIDE DEF snap, push
                <5> QED BY <4>1, <4>4, <5>1, <5>2, <5>3 DEF Exchanged
            <4> QED BY <4>3, <4>4
        <3>5. CASE \E u \in Update : Edit(c, u)
            <4> PICK u \in Update : Edit(c, u)
                BY <3>5
            <4>1. [m |-> "push", st |-> {u}] \in Call
                BY DEF Call
            <4>2. down' = down /\ (up' = up \/ Send(k, [m |-> "push", st |-> {u}]))
                BY DEF Edit
            <4>3. up'[j] = up[j] \/ up'[j] = Append(up[j], [m |-> "push", st |-> {u}])
                <5> HIDE DEF k
                <5> QED BY <1>0, <4>2 DEF Send, TypeOK
            <4>4. down'[j] = down[j]
                BY <4>2
            <4> QED BY <4>1, <4>3, <4>4 DEF Exchanged
        <3> QED BY <1>4, <3>4, <3>5
    <2>3. \A d \in Client : Connected(d) => Current(d) \in Conn
        BY <1>0, CurrentIsConn DEF IInv, FreshInv
    <2> QED BY <2>1, <2>2, <2>3 DEF IInv, FreshInv
<1> QED BY <1>1, <1>2, <1>3, <1>4
-----------------------------------------------------------------------------
(* The server's steps.                                                      *)

\* The journal changes by deletions, and by one op with a fresh id.
JournalStep ==
    \/ UNCHANGED <<ops, nextId>>
    \/ nextId' = nextId + 1 /\ \E o \in Op : o.id = nextId /\ ops' \subseteq ops \cup {o}

LEMMA JournalStepKeepsIds ==
    ASSUME TypeOK, IdsInv, JournalStep
    PROVE  /\ \A o \in Op : Known(o) => Known(o)'
           /\ \A o \in ops' : Known(o)'
           /\ nextId' >= nextId /\ nextId' \in Nat
           /\ \A k \in Conn : \A S : Covers(k, S) => \A o \in ops' : o.id \in covered[k] => o.st \subseteq S
<1>1. CASE UNCHANGED <<ops, nextId>>
    BY <1>1 DEF IdsInv, Known, Covers, TypeOK
<1>2. CASE nextId' = nextId + 1 /\ \E o \in Op : o.id = nextId /\ ops' \subseteq ops \cup {o}
    <2>1. PICK n \in Op : n.id = nextId /\ ops' \subseteq ops \cup {n}
        BY <1>2
    <2>2. /\ nextId \in Nat /\ nextId' = nextId + 1
          /\ \A o \in Op : o.id \in Nat
          /\ \A o \in ops : o \in Op /\ o.id < nextId
        BY <1>2 DEF TypeOK, Op, IdsInv, Known
    <2>3. \A o \in Op : Known(o) => Known(o)'
        BY <2>1, <2>2 DEF Known
    <2>4. \A o \in ops' : Known(o)'
        BY <2>1, <2>2, <2>3 DEF Known, IdsInv
    <2>5. \A k \in Conn : n.id \notin covered[k]
        BY <2>1, <2>2 DEF IdsInv
    <2>6. \A k \in Conn : \A S : Covers(k, S) => \A o \in ops' : o.id \in covered[k] => o.st \subseteq S
        BY <2>1, <2>5 DEF Covers
    <2> QED BY <2>2, <2>3, <2>4, <2>6
<1> QED BY <1>1, <1>2 DEF JournalStep

\* A call other than a JoinIndex is started, and the journal changes.
LEMMA CallStarted ==
    ASSUME TypeOK, IdsInv, JournalStep, NEW k \in Conn, ConnInv(k),
           up'[k] = up[k] \/ (up[k] # <<>> /\ up'[k] = Tail(up[k])) \/ up'[k] = <<>>,
           down'[k] = down[k] \/ \E msg \in Msg : msg.m # "joined" /\ down'[k] = Append(down[k], msg),
           covered'[k] \in {covered[k], {}},
           work'[k] = work[k] \/ work'[k].m # "joining"
    PROVE  ConnInv(k)' /\ (NoJoin(k) => NoJoin(k)')
<1>1. up[k] \in Seq(Call) /\ down[k] \in Seq(Msg)
    BY DEF TypeOK
<1>2. /\ \A m : Has(up'[k], m) => Has(up[k], m)
      /\ Once(up[k], "join") => Once(up'[k], "join")
      /\ States(up'[k], "snap") \subseteq States(up[k], "snap")
    BY <1>1, KindsAfterTail, NoKinds
<1>3. /\ Has(down'[k], "joined") => Has(down[k], "joined")
      /\ Once(down[k], "joined") => Once(down'[k], "joined")
      /\ States(down'[k], "joined") \subseteq States(down[k], "joined")
    <2>1. CASE \E msg \in Msg : msg.m # "joined" /\ down'[k] = Append(down[k], msg)
        <3> PICK msg \in Msg : msg.m # "joined" /\ down'[k] = Append(down[k], msg)
            BY <2>1
        <3> QED BY <1>1, KindsAfterAppend
    <2> QED BY <2>1
<1>4. \A S : Covers(k, S) => Covers(k, S)'
    BY JournalStepKeepsIds DEF Covers
<1>5. CoverInv(k)'
    BY <1>2, <1>3, <1>4 DEF ConnInv, CoverInv
<1>6. work'[k].m = "joining" => work[k].m = "joining"
    OBVIOUS
<1> QED BY <1>2, <1>3, <1>5, <1>6 DEF ConnInv, JoinInv, NoJoin

\* JoinRead and JoinAnswer, on the connection that joins.
LEMMA JoinReadStep ==
    ASSUME TypeOK, NEW k \in Conn, ConnInv(k), JoinRead(k)
    PROVE  ConnInv(k)' /\ ~NoJoin(k)
<1>1. up[k] \in Seq(Call) /\ up[k] # <<>> /\ Head(up[k]).m = "join" /\ up'[k] = Tail(up[k])
    BY DEF JoinRead, Starts, Pop, TypeOK
<1>2. Has(up[k], "join") /\ ~Has(up'[k], "join") /\ Once(up'[k], "join") /\ ~Has(up'[k], "snap")
    BY <1>1, KindsAfterTail DEF ConnInv, JoinInv
<1>3. down'[k] = down[k] /\ ~Has(down[k], "joined")
    BY <1>2 DEF ConnInv, JoinInv, JoinRead
<1> QED BY <1>2, <1>3, NoKinds DEF ConnInv, JoinInv, CoverInv, NoJoin

LEMMA JoinAnswerStep ==
    ASSUME TypeOK, IdsInv, NEW k \in Conn, ConnInv(k), JoinAnswer(k)
    PROVE  ConnInv(k)' /\ ~NoJoin(k)
<1> DEFINE msg == [m |-> "joined", why |-> work[k].why, st |-> Content(work[k].seen),
                   long |-> Cardinality(work[k].seen) > CompactThreshold]
<1>1. /\ work[k].m = "joining" /\ up'[k] = up[k] /\ ops' = ops
      /\ work[k].why \in {"open", "rejoin"} /\ work[k].seen \in SUBSET Op
      /\ covered'[k] = {o.id : o \in work[k].seen}
      /\ work'[k] = NoWork
    BY WorkFields DEF JoinAnswer, TypeOK
<1>2. down[k] \in Seq(Msg) /\ msg \in Msg
    <2>1. msg \in Msg
        BY <1>1, ContentType DEF Msg
    <2> QED BY <2>1 DEF TypeOK
<1>3. down'[k] = down[k] \/ down'[k] = Append(down[k], msg)
    BY DEF JoinAnswer, TypeOK
<1>4. /\ ~Has(up[k], "join") /\ ~Has(up[k], "snap") /\ ~Has(down[k], "joined")
      /\ States(up[k], "snap") = {} /\ States(down[k], "joined") = {}
    BY <1>1, NoKinds DEF ConnInv, JoinInv
<1>5. Once(down'[k], "joined") /\ States(down'[k], "joined") \subseteq {Content(work[k].seen)}
    <2>1. msg.st = Content(work[k].seen)
        OBVIOUS
    <2> HIDE DEF msg
    <2>2. CASE down'[k] = Append(down[k], msg)
        <3>1. Once(down'[k], "joined")
            BY <1>2, <1>4, <2>2, KindsAfterAppend DEF ConnInv, JoinInv
        <3>2. States(down'[k], "joined") \subseteq States(down[k], "joined") \cup {msg.st}
            BY <1>2, <2>2, KindsAfterAppend
        <3> QED BY <1>4, <2>1, <3>1, <3>2
    <2> QED BY <1>3, <1>4, <2>2 DEF ConnInv, JoinInv
<1>6. ASSUME NEW S, S = Content(work[k].seen) PROVE Covers(k, S)'
    <2> SUFFICES ASSUME NEW o \in ops, NEW p \in work[k].seen, o.id = p.id PROVE o.st \subseteq S
        BY <1>1 DEF Covers
    <2>1. o = p
        BY <1>1 DEF IdsInv, Known
    <2> QED BY <1>6, <2>1 DEF Content
<1>7. CoverInv(k)'
    BY <1>1, <1>4, <1>5, <1>6 DEF CoverInv
<1> QED BY <1>1, <1>4, <1>5, <1>7 DEF ConnInv, JoinInv, NoJoin, NoWork

\* The ids a dispatcher and a connection remember stay known.
LEMMA IdsStep ==
    ASSUME TypeOK, IdsInv, JournalStep,
           \A k \in Conn : covered'[k] \in {covered[k], {}}
                           \/ /\ work[k].m = "joining" /\ covered'[k] = {o.id : o \in work[k].seen},
           \A k \in Conn : work'[k].m = "joining" => work'[k] = work[k] \/ work'[k].seen = ops
    PROVE  IdsInv'
<1>0. /\ nextId \in Nat /\ nextId' \in Nat /\ nextId' >= nextId
      /\ \A o \in Op : o.id \in Nat
      /\ \A k \in Conn : covered[k] \subseteq Nat
    BY JournalStepKeepsIds DEF TypeOK, Op
<1>1. \A k \in Conn : work[k].m = "joining" => \A o \in work[k].seen : o \in Op /\ Known(o)
    BY WorkFields DEF TypeOK, IdsInv
<1>2. \A k \in Conn : \A i \in covered'[k] : i \in Nat /\ i < nextId
    BY <1>0, <1>1 DEF IdsInv, Known
<1>3. \A o \in ops : o \in Op /\ Known(o)
    BY DEF TypeOK, IdsInv
<1>4. \A k \in Conn : work'[k].m = "joining" => \A o \in work'[k].seen : Known(o)'
    BY <1>1, <1>3, JournalStepKeepsIds
<1>5. \A k \in Conn : \A i \in covered'[k] : i < nextId'
    BY <1>0, <1>2
<1> QED BY <1>4, <1>5, JournalStepKeepsIds DEF IdsInv

LEMMA SnapshotJournal ==
    ASSUME IInv, NEW k \in Conn, Snapshot(k)
    PROVE  JournalStep /\ Content(ops) \subseteq Content(ops')
<1> DEFINE st == Head(up[k]).st
           hit == {o \in ops : o.id \in covered[k]}
           new == [id |-> nextId, st |-> st]
<1>1. up[k] \in Seq(Call) /\ up[k] # <<>> /\ Head(up[k]).m = "snap" /\ Head(up[k]) \in Call
    BY TailFacts DEF IInv, TypeOK, Snapshot, Starts
<1>2. st \in SUBSET Update /\ new \in Op
    <2>1. st \in SUBSET Update
        BY <1>1 DEF Call
    <2> QED BY <2>1 DEF IInv, TypeOK, Op
<1>3. Covers(k, st)
    BY <1>1, KindsAfterTail DEF IInv, CoverInv
<1>4. \/ UNCHANGED <<ops, nextId>>
      \/ ops' = (ops \ hit) \cup {new} /\ nextId' = nextId + 1
    BY DEF Snapshot, Replace
<1>5. JournalStep
    BY <1>2, <1>4 DEF JournalStep
<1>6. Content(ops) \subseteq Content(ops')
    <2> SUFFICES ASSUME NEW o \in ops PROVE o.st \subseteq Content(ops')
        BY DEF Content
    <2>1. CASE o \in ops'
        BY <2>1 DEF Content
    <2>2. CASE o \notin ops'
        <3>1. o \in hit /\ new \in ops'
            BY <1>4, <2>2
        <3>2. o.st \subseteq new.st
            BY <1>3, <3>1 DEF Covers
        <3> QED BY <3>1, <3>2 DEF Content
    <2> QED BY <2>1, <2>2
<1> QED BY <1>5, <1>6

\* The journal only grows in content, whatever the server does.
LEMMA ServerJournal ==
    ASSUME IInv, ServerNext
    PROVE  JournalStep /\ Content(ops) \subseteq Content(ops')
<1> PICK k \in Conn : \/ JoinRead(k) \/ JoinAnswer(k) \/ PushAppend(k) \/ PushCast(k)
                      \/ Snapshot(k) \/ Hangup(k)
    BY DEF ServerNext
<1>1. CASE JoinRead(k) \/ JoinAnswer(k) \/ PushCast(k) \/ Hangup(k)
    BY <1>1 DEF JoinRead, JoinAnswer, PushCast, Hangup, JournalStep
<1>2. CASE PushAppend(k)
    <2> DEFINE new == [id |-> nextId, st |-> Head(up[k]).st]
    <2>1. Head(up[k]) \in Call /\ Head(up[k]).m = "push"
        BY <1>2, CallRemoved DEF PushAppend, Starts, IInv
    <2>2. new \in Op /\ new.id = nextId
        BY <2>1 DEF Call, IInv, TypeOK, Op
    <2>3. ops' = ops \cup {new} /\ nextId' = nextId + 1
        BY <1>2 DEF PushAppend
    <2> QED BY <2>2, <2>3 DEF JournalStep, Content
<1>3. CASE Snapshot(k)
    BY <1>3, SnapshotJournal
<1> QED BY <1>1, <1>2, <1>3

LEMMA ServerStep == ASSUME IInv, ServerNext PROVE IInv'
<1>0. TypeOK /\ TypeOK' /\ IdsInv /\ JournalStep /\ \A j \in Conn : ConnInv(j)
    BY ServerType, ServerJournal DEF IInv, ConnInv
<1>1. UNCHANGED <<phase, conn, open>>
    BY DEF ServerNext, JoinRead, JoinAnswer, PushAppend, PushCast, Snapshot, Hangup, clientVars
<1> SUFFICES ASSUME NEW k \in Conn,
                    \/ JoinRead(k) \/ JoinAnswer(k) \/ PushAppend(k) \/ PushCast(k)
                    \/ Snapshot(k) \/ Hangup(k)
             PROVE  IdsInv' /\ \A j \in Conn : ConnInv(j)' /\ (NoJoin(j) => NoJoin(j)')
    <2>1. ASSUME \A j \in Conn : ConnInv(j)' /\ (NoJoin(j) => NoJoin(j)')
          PROVE  FreshInv' /\ \A j \in Conn : ConnInv(j)'
        BY <1>0, <1>1, <2>1, CurrentIsConn DEF IInv, FreshInv, Connected, Current
    <2> QED BY <1>0, <2>1 DEF ServerNext, IInv, ConnInv
<1>2. CASE JoinRead(k)
    <2>1. work' = [work EXCEPT ![k] = [m |-> "joining", why |-> Head(up[k]).why, seen |-> ops]]
          /\ up' = [up EXCEPT ![k] = Tail(@)] /\ UNCHANGED <<covered, down>>
        BY <1>2 DEF JoinRead, Pop
    <2>2. \A j \in Conn : j # k => up'[j] = up[j] /\ down'[j] = down[j] /\ covered'[j] = covered[j]
                                   /\ work'[j] = work[j]
        BY <1>0, <2>1 DEF TypeOK
    <2>3. IdsInv'
        BY <1>0, <2>1, IdsStep DEF TypeOK
    <2> QED BY <1>0, <1>2, <2>2, <2>3, JoinReadStep, CallStarted
<1>3. CASE JoinAnswer(k)
    <2>1. \A j \in Conn : j # k => up'[j] = up[j] /\ down'[j] = down[j] /\ covered'[j] = covered[j]
                                   /\ work'[j] = work[j]
        BY <1>0, <1>3 DEF JoinAnswer, TypeOK
    <2>2. /\ covered'[k] = {o.id : o \in work[k].seen} /\ work'[k] = NoWork
          /\ work[k].m = "joining" /\ NoWork.m = "none"
        BY <1>0, <1>3 DEF JoinAnswer, TypeOK, NoWork
    <2>3. IdsInv'
        BY <1>0, <2>1, <2>2, IdsStep
    <2> QED BY <1>0, <1>3, <2>1, <2>3, JoinAnswerStep, CallStarted
<1>4. CASE PushAppend(k) \/ PushCast(k) \/ Snapshot(k) \/ Hangup(k)
    <2>1. ASSUME NEW j \in Conn
          PROVE  /\ up'[j] = up[j] \/ (up[j] # <<>> /\ up'[j] = Tail(up[j])) \/ up'[j] = <<>>
                 /\ covered'[j] \in {covered[j], {}}
                 /\ work'[j] = work[j] \/ work'[j].m # "joining"
        <3>1. CASE PushAppend(k)
            BY <1>0, <3>1 DEF PushAppend, Pop, TypeOK
        <3>2. CASE PushCast(k)
            BY <1>0, <3>2 DEF PushCast, TypeOK, NoWork
        <3>3. CASE Snapshot(k)
            BY <1>0, <3>3 DEF Snapshot, Pop, TypeOK
        <3>4. CASE Hangup(k)
            BY <1>0, <3>4 DEF Hangup, TypeOK
        <3> QED BY <1>4, <3>1, <3>2, <3>3, <3>4
    <2>2. ASSUME NEW j \in Conn
          PROVE  down'[j] = down[j] \/ \E msg \in Msg : msg.m # "joined" /\ down'[j] = Append(down[j], msg)
        <3>1. CASE PushCast(k)
            <4>1. work[k].m = "casting" /\ work[k].st \in SUBSET Update
                BY <1>0, <3>1, WorkFields DEF PushCast, TypeOK
            <4>2. PICK msg \in Msg : msg = [m |-> "update", st |-> work[k].st]
                BY <4>1 DEF Msg
            <4>3. msg.m # "joined"
                BY <4>2
            <4>4. down'[j] = down[j] \/ down'[j] = Append(down[j], msg)
                BY <3>1, <4>2 DEF PushCast
            <4> QED BY <4>3, <4>4
        <3>2. CASE PushAppend(k) \/ Snapshot(k) \/ Hangup(k)
            BY <3>2 DEF PushAppend, Snapshot, Hangup
        <3> QED BY <1>4, <3>1, <3>2
    <2>3. IdsInv'
        BY <1>0, <2>1, IdsStep
    <2> QED BY <1>0, <2>1, <2>2, <2>3, CallStarted
<1> QED BY <1>2, <1>3, <1>4
-----------------------------------------------------------------------------
(* The theorems.                                                            *)

LEMMA InitInv == Init => IInv
<1> SUFFICES ASSUME Init PROVE IInv
    OBVIOUS
<1>1. TypeOK
    BY InitType
<1>2. \A k \in Conn : /\ up[k] = <<>> /\ down[k] = <<>> /\ work[k].m = "none" /\ covered[k] = {}
    BY DEF Init, NoWork
<1>3. IdsInv
    BY <1>2 DEF Init, IdsInv
<1>4. \A c \in Client : ~Connected(c)
    BY DEF Init, Connected
<1>5. \A k \in Conn : NoJoin(k) /\ JoinInv(k) /\ CoverInv(k)
    BY <1>2, NoKinds DEF NoJoin, JoinInv, CoverInv
<1> QED BY <1>1, <1>3, <1>4, <1>5 DEF IInv, FreshInv

LEMMA StutterInv == IInv /\ UNCHANGED vars => IInv'
<1> SUFFICES ASSUME IInv, UNCHANGED vars PROVE IInv'
    OBVIOUS
<1> USE DEF vars
<1>1. TypeOK' /\ IdsInv'
    BY IdsStill DEF IInv, TypeOK, ServerStill
<1>2. \A k \in Conn : ConnInv(k)' /\ (NoJoin(k) => NoJoin(k)')
    BY QueueDrained DEF IInv, ConnInv, ServerStill
<1>3. FreshInv'
    BY <1>2, CurrentIsConn DEF IInv, FreshInv, Connected, Current
<1> QED BY <1>1, <1>2, <1>3 DEF IInv, ConnInv

\* The inductive invariant: one JoinIndex at most on a connection, and the
\* snapshot it leads to carries every op whose id the connection remembers.
THEOREM OneJoinPerConnection == ASSUME ~OpenDuringRejoin PROVE Spec => []IInv
<1>1. Init => IInv
    BY InitInv
<1>2. IInv /\ [Next]_vars => IInv'
    BY ClientStep, ServerStep, StutterInv DEF Next
<1> QED BY <1>1, <1>2, PTL DEF Spec

\* Every variable of the channel keeps its type: calls, messages and op ids of
\* VaultHub, connections and phases of VaultHubClient.
THEOREM TypeCorrect == ASSUME ~OpenDuringRejoin PROVE Spec => []TypeOK
<1>1. IInv => TypeOK
    BY DEF IInv
<1> QED BY <1>1, OneJoinPerConnection, PTL

\* ReplaceAsync compacts the journal without losing an update, though it
\* deletes ops while other connections append theirs.
THEOREM CompactionLosesNothing == ASSUME ~OpenDuringRejoin PROVE Spec => JournalKeeps
<1>1. IInv /\ [Next]_vars => [Content(ops) \subseteq Content(ops')]_vars
    <2> SUFFICES ASSUME IInv, Next PROVE Content(ops) \subseteq Content(ops')
        OBVIOUS
    <2>1. CASE ClientNext
        BY <2>1 DEF ClientNext, Start, Drop, Reconnect, GiveUp, RejoinIndexes, OpenIndex, Receive,
                    Close, Edit, serverVars
    <2>2. CASE ServerNext
        BY <2>2, ServerJournal
    <2> QED BY <2>1, <2>2 DEF Next
<1> QED BY <1>1, OneJoinPerConnection, PTL DEF Spec, JournalKeeps
-----------------------------------------------------------------------------
(* What a channel carries anywhere has been made, and the journal implements *)
(* the store.                                                                *)

\* What a connection's dispatcher is about to tell the group.
Cast(k) == IF work[k].m = "casting" THEN work[k].st ELSE {}

\* Whatever travels is an edit somebody made; what travels to the clients, and
\* what a dispatcher holds, is in the journal already.
ConnCarries(k) ==
    /\ \A i \in DOMAIN up[k] : up[k][i].m # "join" => up[k][i].st \subseteq made
    /\ \A S \in AllStates(down[k]) : S \subseteq Content(ops)
    /\ Cast(k) \subseteq Content(ops)
    /\ work[k].m = "joining" => Content(work[k].seen) \subseteq Content(ops)
CarriedInv ==
    /\ Content(ops) \subseteq made
    /\ \A c \in Client : doc[c] \subseteq made
    /\ \A k \in Conn : ConnCarries(k)

-----------------------------------------------------------------------------
(* What a step may do to the two queues of a connection and to its          *)
(* dispatcher, as far as what they carry is concerned.                      *)

Holds(call, S) == call.m # "join" => call.st \subseteq S
UpStep(k) ==
    \/ up'[k] \in {up[k], <<>>}
    \/ up[k] # <<>> /\ up'[k] = Tail(up[k])
    \/ \E call \in Call : Holds(call, made') /\ up'[k] = Append(up[k], call)
DownStep(k) ==
    \/ down'[k] \in {down[k], <<>>}
    \/ down[k] # <<>> /\ down'[k] = Tail(down[k])
    \/ \E msg \in Msg : msg.st \subseteq Content(ops') /\ down'[k] = Append(down[k], msg)
WorkStep(k) ==
    \/ work'[k] = work[k]
    \/ /\ Cast(k)' \subseteq Content(ops')
       /\ work'[k].m = "joining" => Content(work'[k].seen) \subseteq Content(ops')

LEMMA CarriesStep ==
    ASSUME TypeOK, NEW k \in Conn, ConnCarries(k), UpStep(k), DownStep(k), WorkStep(k),
           made \subseteq made', Content(ops) \subseteq Content(ops')
    PROVE  ConnCarries(k)'
<1>1. up[k] \in Seq(Call) /\ down[k] \in Seq(Msg)
    BY DEF TypeOK
<1>2. \A i \in DOMAIN up'[k] : up'[k][i].m # "join" => up'[k][i].st \subseteq made'
    <2>0. \A i \in DOMAIN up[k] : up[k][i].m # "join" => up[k][i].st \subseteq made'
        BY DEF ConnCarries
    <2>1. CASE up'[k] \in {up[k], <<>>}
        BY <2>0, <2>1
    <2>2. CASE up[k] # <<>> /\ up'[k] = Tail(up[k])
        BY <1>1, <2>0, <2>2, TailFacts
    <2>3. CASE \E call \in Call : Holds(call, made') /\ up'[k] = Append(up[k], call)
        BY <1>1, <2>0, <2>3, AppendFacts DEF Holds
    <2> QED BY <2>1, <2>2, <2>3 DEF UpStep
<1>3. \A S \in AllStates(down'[k]) : S \subseteq Content(ops')
    <2>0. \A S \in AllStates(down[k]) : S \subseteq Content(ops')
        BY DEF ConnCarries
    <2>1. CASE down'[k] \in {down[k], <<>>}
        BY <2>0, <2>1, AllStatesSteps
    <2>2. CASE down[k] # <<>> /\ down'[k] = Tail(down[k])
        BY <1>1, <2>0, <2>2, AllStatesSteps
    <2>3. CASE \E msg \in Msg : msg.st \subseteq Content(ops') /\ down'[k] = Append(down[k], msg)
        <3> PICK msg \in Msg : msg.st \subseteq Content(ops') /\ down'[k] = Append(down[k], msg)
            BY <2>3
        <3>1. AllStates(down'[k]) = AllStates(down[k]) \cup {msg.st}
            BY <1>1, AllStatesSteps
        <3> QED BY <2>0, <3>1
    <2> QED BY <2>1, <2>2, <2>3 DEF DownStep
<1>4. Cast(k)' \subseteq Content(ops')
      /\ (work'[k].m = "joining" => Content(work'[k].seen) \subseteq Content(ops'))
    BY DEF WorkStep, ConnCarries, Cast
<1> QED BY <1>2, <1>3, <1>4 DEF ConnCarries

\* What a client leaves alone.
LEMMA ClientLeaves ==
    ASSUME ClientNext
    PROVE  UNCHANGED serverVars
    BY DEF ClientNext, Start, Drop, Reconnect, GiveUp, RejoinIndexes, OpenIndex, Receive, Close,
           Edit, serverVars

\* The head of a message queue is a message whose state the journal holds.
LEMMA Received ==
    ASSUME TypeOK, NEW k \in Conn, ConnCarries(k), down[k] # <<>>
    PROVE  /\ Head(down[k]) \in Msg /\ Head(down[k]).st \in SUBSET Update
           /\ Head(down[k]).st \subseteq Content(ops)
<1>1. down[k] \in Seq(Msg)
    BY DEF TypeOK
<1>2. Head(down[k]) \in Msg /\ Head(down[k]).st \in AllStates(down[k])
    BY <1>1, TailFacts, AllStatesSteps
<1> QED BY <1>2 DEF ConnCarries, Msg

LEMMA Sent ==
    ASSUME TypeOK, NEW k \in Conn, ConnCarries(k), up[k] # <<>>, Head(up[k]).m # "join"
    PROVE  Head(up[k]).st \subseteq made
<1>1. up[k] \in Seq(Call)
    BY DEF TypeOK
<1>2. 1 \in DOMAIN up[k] /\ Head(up[k]) = up[k][1]
    BY <1>1, TailFacts
<1> QED BY <1>2 DEF ConnCarries

LEMMA ContentAdded == \A s, o : Content(s \cup {o}) = Content(s) \cup o.st
    BY DEF Content

LEMMA ClientCarries ==
    ASSUME IInv, CarriedInv, ClientNext
    PROVE  CarriedInv'
<1>1. TypeOK /\ UNCHANGED serverVars /\ Content(ops') = Content(ops)
    BY ClientLeaves DEF IInv, serverVars
<1> SUFFICES ASSUME NEW c \in Client,
                    \/ Start(c) \/ Drop(c) \/ Reconnect(c) \/ GiveUp(c) \/ RejoinIndexes(c)
                    \/ OpenIndex(c) \/ Receive(c) \/ Close(c)
                    \/ \E u \in Update : Edit(c, u)
             PROVE  /\ made \subseteq made'
                    /\ \A d \in Client : doc'[d] \subseteq made'
                    /\ \A k \in Conn : UpStep(k) /\ DownStep(k)
    <2>1. \A k \in Conn : WorkStep(k)
        BY <1>1 DEF WorkStep, serverVars
    <2> QED BY <1>1, <2>1, CarriesStep DEF CarriedInv, ClientNext
<1>2. CASE Start(c) \/ Reconnect(c) \/ GiveUp(c)
    BY <1>2 DEF Start, Reconnect, GiveUp, CarriedInv, UpStep, DownStep
<1>3. CASE Drop(c) \/ Close(c)
    <2>1. /\ up' = up /\ made' = made /\ down' = [down EXCEPT ![Current(c)] = <<>>]
          /\ \A d \in Client : doc'[d] \in {doc[d], {}}
        BY <1>1, <1>3 DEF Drop, Close, TypeOK
    <2>2. \A k \in Conn : down'[k] \in {down[k], <<>>}
        BY <1>1, <2>1 DEF TypeOK
    <2> QED BY <2>1, <2>2 DEF CarriedInv, UpStep, DownStep
<1>4. CASE RejoinIndexes(c) \/ OpenIndex(c)
    <2>1. /\ UNCHANGED <<down, doc, made>>
          /\ up' = up \/ \E call \in Call : call.m = "join" /\ Send(Current(c), call)
        BY <1>4 DEF RejoinIndexes, OpenIndex, Call
    <2>2. ASSUME NEW k \in Conn PROVE UpStep(k)
        <3>1. up'[k] = up[k] \/ \E call \in Call : call.m = "join" /\ up'[k] = Append(up[k], call)
            BY <1>1, <2>1 DEF Send, TypeOK
        <3> QED BY <3>1 DEF UpStep, Holds
    <2> QED BY <2>1, <2>2 DEF CarriedInv, DownStep
<1>5. CASE Receive(c)
    <2> DEFINE k == Current(c)
               merged == doc[c] \cup Head(down[k]).st
    <2>1. k \in Conn /\ down[k] # <<>> /\ made' = made
        BY <1>1, <1>5, CurrentIsConn DEF Receive, IInv, FreshInv
    <2>2. merged \in SUBSET Update /\ merged \subseteq made
        <3>1. /\ Head(down[k]).st \in SUBSET Update /\ Head(down[k]).st \subseteq Content(ops)
              /\ Content(ops) \subseteq made /\ doc[c] \in SUBSET Update /\ doc[c] \subseteq made
            BY <1>1, <2>1, Received DEF CarriedInv, TypeOK
        <3> QED BY <3>1
    <2>3. doc' = [doc EXCEPT ![c] = merged]
          /\ down' = [down EXCEPT ![k] = Tail(@)]
          /\ \/ up' = up
             \/ Send(k, [m |-> "snap", st |-> merged])
             \/ Send(k, [m |-> "push", st |-> merged])
        BY <1>5 DEF Receive
    <2> HIDE DEF merged, k
    <2>4. \A m \in {"snap", "push"} : [m |-> m, st |-> merged] \in Call
                                      /\ Holds([m |-> m, st |-> merged], made')
        BY <2>1, <2>2 DEF Call, Holds
    <2>5. \A d \in Client : doc'[d] \subseteq made'
        BY <1>1, <2>1, <2>2, <2>3 DEF TypeOK, CarriedInv
    <2>6. ASSUME NEW j \in Conn PROVE UpStep(j) /\ DownStep(j)
        <3>1. down'[j] = down[j] \/ (down[j] # <<>> /\ down'[j] = Tail(down[j]))
            BY <1>1, <2>1, <2>3 DEF TypeOK
        <3>2. \/ up'[j] = up[j]
              \/ up'[j] = Append(up[j], [m |-> "snap", st |-> merged])
              \/ up'[j] = Append(up[j], [m |-> "push", st |-> merged])
            BY <1>1, <2>3 DEF TypeOK, Send
        <3> QED BY <2>4, <3>1, <3>2 DEF UpStep, DownStep
    <2> QED BY <2>1, <2>5, <2>6
<1>6. CASE \E u \in Update : Edit(c, u)
    <2> PICK u \in Update : Edit(c, u)
        BY <1>6
    <2>1. /\ made' = made \cup {u} /\ doc' = [doc EXCEPT ![c] = @ \cup {u}] /\ down' = down
          /\ up' = up \/ Send(Current(c), [m |-> "push", st |-> {u}])
        BY DEF Edit
    <2>2. [m |-> "push", st |-> {u}] \in Call /\ Holds([m |-> "push", st |-> {u}], made')
        BY <2>1 DEF Call, Holds
    <2>3. \A d \in Client : doc'[d] \subseteq made'
        BY <1>1, <2>1 DEF TypeOK, CarriedInv
    <2>4. ASSUME NEW j \in Conn PROVE UpStep(j) /\ DownStep(j)
        <3>1. up'[j] = up[j] \/ up'[j] = Append(up[j], [m |-> "push", st |-> {u}])
            BY <1>1, <2>1 DEF TypeOK, Send
        <3> QED BY <2>1, <2>2, <3>1 DEF UpStep, DownStep
    <2> QED BY <2>1, <2>3, <2>4
<1> QED BY <1>2, <1>3, <1>4, <1>5, <1>6

LEMMA ServerCarries ==
    ASSUME IInv, CarriedInv, ServerNext
    PROVE  CarriedInv'
<1>1. TypeOK /\ Content(ops) \subseteq Content(ops') /\ \A k \in Conn : ConnCarries(k)
    BY ServerJournal DEF IInv, CarriedInv
<1>2. made' = made /\ doc' = doc
    BY DEF ServerNext, JoinRead, JoinAnswer, PushAppend, PushCast, Snapshot, Hangup, clientVars
<1> SUFFICES ASSUME NEW k \in Conn,
                    \/ JoinRead(k) \/ JoinAnswer(k) \/ PushAppend(k) \/ PushCast(k)
                    \/ Snapshot(k) \/ Hangup(k)
             PROVE  /\ Content(ops') \subseteq made
                    /\ \A j \in Conn : UpStep(j) /\ DownStep(j) /\ WorkStep(j)
    <2>1. \A j \in Conn : UpStep(j) /\ DownStep(j) /\ WorkStep(j) => ConnCarries(j)'
        BY <1>1, <1>2, CarriesStep
    <2> QED BY <1>2, <2>1 DEF CarriedInv, ServerNext
<1>3. \A j \in Conn : work'[j] = work[j] => WorkStep(j)
    BY DEF WorkStep
<1>4. \A j \in Conn : UpStep(j)
    <2>1. \/ up' = up \/ up' = [up EXCEPT ![k] = <<>>]
          \/ up[k] # <<>> /\ up' = [up EXCEPT ![k] = Tail(@)]
        BY DEF JoinRead, JoinAnswer, PushAppend, PushCast, Snapshot, Hangup, Starts, Pop
    <2> QED BY <1>1, <2>1 DEF UpStep, TypeOK
<1>5. CASE JoinRead(k)
    <2>1. ops' = ops /\ down' = down
          /\ work' = [work EXCEPT ![k] = [m |-> "joining", why |-> Head(up[k]).why, seen |-> ops]]
        BY <1>5 DEF JoinRead
    <2>2. \A j \in Conn : WorkStep(j)
        BY <1>1, <2>1 DEF TypeOK, WorkStep, Cast
    <2> QED BY <1>4, <2>1, <2>2 DEF CarriedInv, DownStep
<1>6. CASE JoinAnswer(k)
    <2> DEFINE msg == [m |-> "joined", why |-> work[k].why, st |-> Content(work[k].seen),
                       long |-> Cardinality(work[k].seen) > CompactThreshold]
    <2>1. /\ ops' = ops /\ work' = [work EXCEPT ![k] = NoWork]
          /\ down' = IF Live(k) THEN [down EXCEPT ![k] = Append(@, msg)] ELSE down
          /\ work[k].m = "joining" /\ work[k].why \in {"open", "rejoin"}
          /\ work[k].seen \in SUBSET Op
        BY <1>1, <1>6, WorkFields DEF JoinAnswer, TypeOK
    <2>2. msg \in Msg /\ msg.st \subseteq Content(ops')
        BY <1>1, <2>1, ContentType DEF Msg, ConnCarries
    <2> HIDE DEF msg
    <2>3. \A j \in Conn : WorkStep(j)
        BY <1>1, <2>1 DEF TypeOK, WorkStep, Cast, NoWork
    <2>4. \A j \in Conn : down'[j] = down[j] \/ down'[j] = Append(down[j], msg)
        BY <1>1, <2>1 DEF TypeOK
    <2> QED BY <1>4, <2>1, <2>2, <2>3, <2>4 DEF CarriedInv, DownStep
<1>7. CASE PushAppend(k)
    <2> DEFINE st == Head(up[k]).st
    <2>1. /\ ops' = ops \cup {[id |-> nextId, st |-> st]} /\ down' = down
          /\ work' = [work EXCEPT ![k] = [m |-> "casting", st |-> st]]
          /\ up[k] # <<>> /\ Head(up[k]).m = "push"
        BY <1>7 DEF PushAppend, Starts
    <2>2. st \subseteq made
        BY <1>1, <2>1, Sent
    <2>3. Content(ops') = Content(ops) \cup st
        <3>1. [id |-> nextId, st |-> st].st = st
            OBVIOUS
        <3> QED BY <2>1, <3>1, ContentAdded
    <2> HIDE DEF st
    <2>4. \A j \in Conn : WorkStep(j)
        BY <1>1, <2>1, <2>3 DEF TypeOK, WorkStep, Cast
    <2> QED BY <1>4, <2>1, <2>2, <2>3, <2>4 DEF CarriedInv, DownStep
<1>8. CASE PushCast(k)
    <2> DEFINE msg == [m |-> "update", st |-> work[k].st]
    <2>1. /\ ops' = ops /\ work' = [work EXCEPT ![k] = NoWork]
          /\ work[k].m = "casting" /\ work[k].st \in SUBSET Update
        BY <1>1, <1>8, WorkFields DEF PushCast, TypeOK
    <2>2. \A j \in Conn : down'[j] = down[j] \/ down'[j] = Append(down[j], msg)
        BY <1>8 DEF PushCast
    <2>3. msg \in Msg /\ msg.st \subseteq Content(ops')
        BY <1>1, <2>1 DEF Msg, ConnCarries, Cast
    <2>4. \A j \in Conn : WorkStep(j)
        BY <1>1, <2>1 DEF TypeOK, WorkStep, Cast, NoWork
    <2> HIDE DEF msg
    <2> QED BY <1>4, <2>1, <2>2, <2>3, <2>4 DEF CarriedInv, DownStep
<1>9. CASE Snapshot(k)
    <2> DEFINE st == Head(up[k]).st
    <2>1. /\ work' = work /\ down' = down /\ up[k] # <<>> /\ Head(up[k]).m = "snap"
          /\ \A o \in ops' : o \in ops \/ o.st = st
        BY <1>9 DEF Snapshot, Starts, Replace
    <2>2. st \subseteq made
        BY <1>1, <2>1, Sent
    <2> HIDE DEF st
    <2>3. Content(ops') \subseteq Content(ops) \cup st
        BY <2>1 DEF Content
    <2> QED BY <1>3, <1>4, <2>1, <2>2, <2>3 DEF CarriedInv, DownStep
<1>10. CASE Hangup(k)
    <2>1. work' = work /\ down' = down /\ ops' = ops
        BY <1>10 DEF Hangup
    <2> QED BY <1>3, <1>4, <2>1 DEF CarriedInv, DownStep
<1> QED BY <1>5, <1>6, <1>7, <1>8, <1>9, <1>10

LEMMA InitCarries == Init => CarriedInv
    BY AllStatesSteps DEF Init, CarriedInv, ConnCarries, Cast, NoWork, Content

LEMMA StutterCarries == CarriedInv /\ UNCHANGED vars => CarriedInv'
    BY DEF CarriedInv, ConnCarries, AllStates, Cast, Content, vars

\* Whatever a client shows or sends, and whatever the hub tells, somebody edited;
\* whatever the hub tells, the journal holds.
THEOREM NothingInvented == ASSUME ~OpenDuringRejoin PROVE Spec => []CarriedInv
<1>1. Init => CarriedInv
    BY InitCarries
<1>2. IInv /\ CarriedInv /\ [Next]_vars => CarriedInv'
    BY ClientCarries, ServerCarries, StutterCarries DEF Next
<1> QED BY <1>1, <1>2, OneJoinPerConnection, PTL DEF Spec

\* The hub, its journal and the clients' queues together implement UpdateStore:
\* JoinIndex, PushIndexUpdate, SnapshotIndex and the broadcasts amount to a store
\* that only grows and clients that learn nothing it does not hold.
THEOREM ChannelImplementsStore == ASSUME ~OpenDuringRejoin PROVE Spec => ImplementsStore
<1>1. Init => Store!Init
    BY DEF Init, Store!Init, Content
<1>2. IInv /\ CarriedInv /\ CarriedInv' /\ [Next]_vars => [Store!Next]_(Store!vars)
    <2> SUFFICES ASSUME IInv, CarriedInv, CarriedInv', [Next]_vars
                 PROVE  Store!Next \/ UNCHANGED Store!vars
        BY DEF Store!vars
    <2>1. CASE UNCHANGED vars
        BY <2>1 DEF vars, Store!vars, Content
    <2>2. CASE ClientNext
        <3> USE DEF Store!vars
        <3>1. UNCHANGED serverVars /\ Content(ops') = Content(ops) /\ TypeOK
            BY <2>2, ClientLeaves DEF serverVars, IInv
        <3> PICK c \in Client : \/ Start(c) \/ Drop(c) \/ Reconnect(c) \/ GiveUp(c)
                                \/ RejoinIndexes(c) \/ OpenIndex(c) \/ Receive(c) \/ Close(c)
                                \/ \E u \in Update : Edit(c, u)
            BY <2>2 DEF ClientNext
        <3>2. CASE Start(c) \/ Drop(c) \/ Reconnect(c) \/ GiveUp(c) \/ RejoinIndexes(c) \/ OpenIndex(c)
            BY <3>1, <3>2 DEF Start, Drop, Reconnect, GiveUp, RejoinIndexes, OpenIndex
        <3>3. CASE Receive(c)
            <4> DEFINE k == Current(c)
                       S == Head(down[k]).st
            <4>1. k \in Conn /\ down[k] # <<>> /\ made' = made
                  /\ doc' = [doc EXCEPT ![c] = @ \cup S]
                BY <3>1, <3>3, CurrentIsConn DEF Receive, IInv, FreshInv
            <4>2. S \in SUBSET Content(ops)
                BY <3>1, <4>1, Received DEF CarriedInv
            <4>3. Store!Learn(c, S)
                BY <3>1, <4>1 DEF Store!Learn
            <4> QED BY <4>2, <4>3 DEF Store!Next
        <3>4. CASE Close(c)
            BY <3>1, <3>4 DEF Close, Store!Forget, Store!Next
        <3>5. CASE \E u \in Update : Edit(c, u)
            BY <3>1, <3>5 DEF Edit, Store!Edit, Store!Next
        <3> QED BY <3>2, <3>3, <3>4, <3>5
    <2>3. CASE ServerNext
        <3>1. made' = made /\ doc' = doc
            BY <2>3 DEF ServerNext, JoinRead, JoinAnswer, PushAppend, PushCast, Snapshot, Hangup,
                        clientVars
        <3>2. Content(ops) \subseteq Content(ops')
            BY <2>3, ServerJournal
        <3>3. Content(ops') \in SUBSET made
            BY <3>1 DEF CarriedInv
        <3>4. Store!Store(Content(ops'))
            BY <3>1, <3>2 DEF Store!Store
        <3> QED BY <3>3, <3>4 DEF Store!Next
    <2> QED BY <2>1, <2>2, <2>3 DEF Next
<1> QED BY <1>1, <1>2, OneJoinPerConnection, NothingInvented, PTL
        DEF Spec, ImplementsStore, Store!Spec
-----------------------------------------------------------------------------
(* A client at rest.                                                        *)

\* A snapshot in the queue s carries nothing that is neither in C nor pushed
\* before it.
PushedBefore(s, i) == UNION {s[j].st : j \in {n \in DOMAIN s : n < i /\ s[n].m = "push"}}
SnapOk(s, C) == \A i \in DOMAIN s : s[i].m = "snap" => s[i].st \subseteq C \cup PushedBefore(s, i)

\* A connection its client has not opened yet.
Unused(k) == up[k] = <<>> /\ down[k] = <<>> /\ work[k] = NoWork /\ k \notin member

\* The answer to a rejoin is to come, and flush() after it.
Rejoins(s, m) == \E i \in DOMAIN s : s[i].m = m /\ s[i].why = "rejoin"
Rejoining(c) ==
    LET k == Current(c)
    IN  \/ phase[c] = "rejoin"
        \/ Rejoins(up[k], "join")
        \/ work[k].m = "joining" /\ work[k].why = "rejoin"
        \/ Rejoins(down[k], "joined")

\* What a client is saying, and what its connection is, or is not, told.
Mine(k) == Pushes(up[k]) \cup Cast(k)
Told(k) == UNION AllStates(down[k])
Casts == UNION {Cast(j) : j \in Conn}
Slipping(k) == slipped[k] \cup Casts
JoinUnderWay(k) == Has(up[k], "join") \/ work[k].m = "joining"

\* What holds of a connected client: without a JoinIndex it is told nothing; what
\* it is saying it shows; what it shows is stored, being sent, or counted and
\* to be sent by the flush to come; what is stored it shows or is told, its
\* join read it, or it slipped.
LinkInv(c) ==
    LET k == Current(c)
    IN  /\ phase[c] = "rejoin" \/ ~open[c] => down[k] = <<>> /\ k \notin member
        /\ Mine(k) \subseteq doc[c]
        /\ phase[c] = "on" /\ open[c] => JoinUnderWay(k) \/ k \in member
        /\ \/ doc[c] \subseteq Content(ops) \cup Pushes(up[k])
           \/ lossy[c] /\ Rejoining(c)
        /\ work[k].m = "joining" => Content(ops) \subseteq Content(work[k].seen) \cup Slipping(k)
        /\ phase[c] = "on" /\ open[c] /\ ~JoinUnderWay(k) =>
              Content(ops) \subseteq doc[c] \cup Told(k) \cup Slipping(k)
ClientInv(c) ==
    /\ ~open[c] => doc[c] = {}
    /\ phase[c] = "off" => ~open[c]
    /\ phase[c] = "retry" => lossy[c] \/ doc[c] \subseteq Content(ops)
    /\ Connected(c) => LinkInv(c)
UnusedInv == \A k \in Conn : conn[k[1]] < k[2] => Unused(k)
SnapInv == \A k \in Conn : SnapOk(up[k], Content(ops))
RestInv == UnusedInv /\ SnapInv /\ \A c \in Client : ClientInv(c)

(* Queues again: rejoins and snapshots after an append and a removal.       *)

\* A kind, or a rejoin, still in the queue.
LEMMA StillThere ==
    ASSUME NEW T, NEW s \in Seq(T), NEW m
    PROVE  /\ \A e \in T : /\ Has(s, m) => Has(Append(s, e), m)
                           /\ Rejoins(s, m) => Rejoins(Append(s, e), m)
                           /\ e.m = m => Has(Append(s, e), m)
                           /\ e.m = m /\ e.why = "rejoin" => Rejoins(Append(s, e), m)
           /\ s # <<>> /\ Head(s).m # m => /\ Has(s, m) => Has(Tail(s), m)
                                           /\ Rejoins(s, m) => Rejoins(Tail(s), m)
           /\ Rejoins(s, m) => Has(s, m)
           /\ s # <<>> /\ Head(s).m = m /\ Once(s, m) /\ Rejoins(s, m) => Head(s).why = "rejoin"
<1>1. ASSUME NEW e \in T
      PROVE  /\ Has(s, m) => Has(Append(s, e), m)
             /\ Rejoins(s, m) => Rejoins(Append(s, e), m)
             /\ e.m = m => Has(Append(s, e), m)
             /\ e.m = m /\ e.why = "rejoin" => Rejoins(Append(s, e), m)
    <2>1. /\ \A i \in DOMAIN s : i \in DOMAIN Append(s, e) /\ Append(s, e)[i] = s[i]
          /\ Len(s) + 1 \in DOMAIN Append(s, e) /\ Append(s, e)[Len(s) + 1] = e
        BY AppendFacts
    <2> QED BY <2>1 DEF Has, Rejoins
<1>2. ASSUME s # <<>>
      PROVE  /\ 1 \in DOMAIN s /\ Head(s) = s[1]
             /\ \A i \in DOMAIN s : i = 1 \/ (i - 1 \in DOMAIN Tail(s) /\ Tail(s)[i - 1] = s[i])
    BY <1>2
<1>3. ASSUME s # <<>>, Head(s).m # m
      PROVE  /\ Has(s, m) => Has(Tail(s), m)
             /\ Rejoins(s, m) => Rejoins(Tail(s), m)
    BY <1>2, <1>3 DEF Has, Rejoins
<1>4. s # <<>> /\ Head(s).m = m /\ Once(s, m) /\ Rejoins(s, m) => Head(s).why = "rejoin"
    BY <1>2 DEF Once, Rejoins
<1>5. Rejoins(s, m) => Has(s, m)
    BY DEF Has, Rejoins
<1> QED BY <1>1, <1>3, <1>4, <1>5

LEMMA SnapAfterAppend ==
    ASSUME NEW s \in Seq(Call), NEW e \in Call, NEW C, SnapOk(s, C),
           e.m = "snap" => e.st \subseteq C \cup Pushes(s)
    PROVE  SnapOk(Append(s, e), C)
<1> DEFINE t == Append(s, e)
<1>1. /\ \A i \in DOMAIN t : (i \in DOMAIN s /\ t[i] = s[i]) \/ (i = Len(s) + 1 /\ t[i] = e)
      /\ \A i \in DOMAIN s : i \in DOMAIN t /\ t[i] = s[i] /\ i < Len(s) + 1
    BY AppendFacts
<1> HIDE DEF t
<1>2. ASSUME NEW i \in DOMAIN s PROVE PushedBefore(s, i) \subseteq PushedBefore(t, i)
    BY <1>1 DEF PushedBefore
<1>3. Pushes(s) \subseteq PushedBefore(t, Len(s) + 1)
    BY <1>1 DEF PushedBefore, Pushes, States
<1> SUFFICES ASSUME NEW i \in DOMAIN t, t[i].m = "snap"
             PROVE  t[i].st \subseteq C \cup PushedBefore(t, i)
    BY DEF SnapOk, t
<1>4. CASE i \in DOMAIN s /\ t[i] = s[i]
    BY <1>2, <1>4 DEF SnapOk
<1>5. CASE i = Len(s) + 1 /\ t[i] = e
    BY <1>3, <1>5
<1> QED BY <1>1, <1>4, <1>5

\* When a call is started, what it pushes goes to the journal.
LEMMA SnapAfterTail ==
    ASSUME NEW s \in Seq(Call), s # <<>>, NEW C, NEW D, SnapOk(s, C), C \subseteq D,
           Head(s).m = "push" => Head(s).st \subseteq D
    PROVE  SnapOk(Tail(s), D)
<1>1. /\ 1 \in DOMAIN s /\ Head(s) = s[1] /\ DOMAIN s \subseteq Nat
      /\ \A i \in DOMAIN Tail(s) : i \in Nat /\ i + 1 \in DOMAIN s /\ Tail(s)[i] = s[i + 1]
      /\ \A i \in DOMAIN s : i = 1 \/ (i - 1 \in DOMAIN Tail(s) /\ Tail(s)[i - 1] = s[i])
    <2>1. DOMAIN s \subseteq Nat /\ DOMAIN Tail(s) \subseteq Nat
        OBVIOUS
    <2>2. \A i \in DOMAIN s : i = 1 \/ (i - 1 \in DOMAIN Tail(s) /\ Tail(s)[i - 1] = s[i])
        OBVIOUS
    <2> QED BY <2>1, <2>2, TailFacts
<1> SUFFICES ASSUME NEW i \in DOMAIN Tail(s), Tail(s)[i].m = "snap"
             PROVE  Tail(s)[i].st \subseteq D \cup PushedBefore(Tail(s), i)
    BY DEF SnapOk
<1>2. Tail(s)[i].st \subseteq C \cup PushedBefore(s, i + 1)
    BY <1>1 DEF SnapOk
<1>3. ASSUME NEW j \in DOMAIN s, j < i + 1, s[j].m = "push"
      PROVE  s[j].st \subseteq D \cup PushedBefore(Tail(s), i)
    <2>1. CASE j = 1
        BY <1>1, <1>3, <2>1
    <2>2. CASE j # 1
        <3>1. j - 1 \in DOMAIN Tail(s) /\ Tail(s)[j - 1] = s[j] /\ j - 1 < i
            BY <1>1, <1>3, <2>2
        <3> QED BY <1>3, <3>1 DEF PushedBefore
    <2> QED BY <2>1, <2>2
<1>4. PushedBefore(s, i + 1) \subseteq D \cup PushedBefore(Tail(s), i)
    BY <1>3 DEF PushedBefore
<1> QED BY <1>2, <1>4

\* A snapshot at the head of the queue adds nothing to the journal.
LEMMA SnapAtHead ==
    ASSUME NEW s \in Seq(Call), s # <<>>, NEW C, SnapOk(s, C), Head(s).m = "snap"
    PROVE  Head(s).st \subseteq C
<1>1. 1 \in DOMAIN s /\ Head(s) = s[1]
    BY TailFacts
<1>2. PushedBefore(s, 1) = {}
    <2>1. \A n \in DOMAIN s : ~(n < 1)
        OBVIOUS
    <2> QED BY <2>1 DEF PushedBefore
<1> QED BY <1>1, <1>2 DEF SnapOk

-----------------------------------------------------------------------------
(* The client's steps.                                                      *)

\* A client whose state and connection a client's step leaves alone.
LEMMA ClientUntouched ==
    ASSUME UNCHANGED serverVars, NEW d \in Client, ClientInv(d),
           phase'[d] = phase[d], conn'[d] = conn[d], open'[d] = open[d], doc'[d] = doc[d],
           lossy'[d] = lossy[d],
           Connected(d) => up'[Current(d)] = up[Current(d)] /\ down'[Current(d)] = down[Current(d)]
    PROVE  ClientInv(d)'
<1>1. Current(d)' = Current(d) /\ Connected(d)' = Connected(d)
    BY DEF Current, Connected
<1>2. CASE ~Connected(d)
    BY <1>1, <1>2 DEF ClientInv, serverVars
<1>3. CASE Connected(d)
    <2> DEFINE k == Current(d)
    <2>1. up'[k] = up[k] /\ down'[k] = down[k] /\ Current(d)' = k
        BY <1>1, <1>3
    <2> HIDE DEF k
    <2>2. LinkInv(d) <=> LinkInv(d)'
        BY <2>1 DEF LinkInv, Mine, JoinUnderWay, Rejoining, Told, Slipping, Casts, Cast, serverVars,
                    Content, k
    <2> QED BY <1>1, <1>3, <2>2 DEF ClientInv, serverVars
<1> QED BY <1>2, <1>3

\* A new connection: nothing has been sent on it.
LEMMA NewLink ==
    ASSUME TypeOK, UnusedInv, NEW c \in Client, conn[c] < MaxConn,
           conn' = [conn EXCEPT ![c] = @ + 1], UNCHANGED <<serverVars, up, down>>
    PROVE  /\ Current(c)' \in Conn /\ Unused(Current(c))'
           /\ UnusedInv'
<1>1. conn[c] \in 0..MaxConn /\ conn'[c] = conn[c] + 1 /\ MaxConn \in Nat
    BY BoundsAssumption DEF TypeOK
<1>2. <<c, conn[c] + 1>> \in Conn
    BY <1>1 DEF Conn
<1>3. \A k \in Conn : Unused(k)' = Unused(k)
    BY DEF Unused, serverVars
<1>4. Unused(<<c, conn[c] + 1>>)
    BY <1>1, <1>2 DEF UnusedInv
<1>5. \A k \in Conn : conn'[k[1]] < k[2] => conn[k[1]] < k[2]
    BY <1>1, BoundsAssumption DEF Conn, TypeOK
<1> QED BY <1>1, <1>2, <1>3, <1>4, <1>5 DEF Current, UnusedInv

LEMMA StartRests ==
    ASSUME TypeOK, RestInv, NEW c \in Client, Start(c) \/ Reconnect(c)
    PROVE  RestInv'
<1>1. /\ conn[c] < MaxConn /\ conn' = [conn EXCEPT ![c] = @ + 1]
      /\ UNCHANGED <<serverVars, up, down, open, doc, lossy>>
      /\ \/ phase[c] = "off" /\ phase' = [phase EXCEPT ![c] = "on"]
         \/ phase[c] = "retry" /\ phase' = [phase EXCEPT ![c] = "rejoin"]
    BY DEF Start, Reconnect
<1>2. Current(c)' \in Conn /\ Unused(Current(c))' /\ UnusedInv'
    BY <1>1, NewLink DEF RestInv
<1>3. SnapInv'
    BY <1>1 DEF RestInv, SnapInv, serverVars
<1>4. \A d \in Client \ {c} : ClientInv(d)'
    BY <1>1, ClientUntouched DEF RestInv, TypeOK
<1>5. ClientInv(c)'
    <2> DEFINE k == Current(c)'
    <2>1. /\ up'[k] = <<>> /\ down'[k] = <<>> /\ work'[k] = NoWork /\ k \notin member'
        BY <1>2 DEF Unused
    <2>2. /\ Mine(Current(c))' = {} /\ Pushes(up'[k]) = {} /\ ~JoinUnderWay(Current(c))'
        <3>1. Pushes(<<>>) = {} /\ ~Has(<<>>, "join")
            BY NoKinds DEF Pushes
        <3> QED BY <2>1, <3>1 DEF Mine, Cast, JoinUnderWay, NoWork
    <2>3. /\ (phase'[c] = "on" => ~open'[c] /\ doc'[c] = {})
          /\ phase'[c] = "rejoin" => lossy'[c] \/ doc'[c] \subseteq Content(ops')
          /\ phase'[c] \in {"on", "rejoin"} /\ (~open'[c] => doc'[c] = {})
        BY <1>1 DEF RestInv, ClientInv, TypeOK, serverVars
    <2>4. phase'[c] = "rejoin" => Rejoining(c)'
        BY DEF Rejoining
    <2>5. work'[k].m # "joining"
        BY <2>1 DEF NoWork
    <2>6. LinkInv(c)'
        BY <2>1, <2>2, <2>3, <2>4, <2>5 DEF LinkInv
    <2> QED BY <2>3, <2>6 DEF ClientInv
<1> QED BY <1>2, <1>3, <1>4, <1>5 DEF RestInv

LEMMA DropRests ==
    ASSUME TypeOK, RestInv, NEW c \in Client, Drop(c)
    PROVE  RestInv'
<1> DEFINE k == Current(c)
<1>1. /\ Connected(c) /\ UNCHANGED <<serverVars, up, conn, open, doc>>
      /\ phase' = [phase EXCEPT ![c] = "retry"]
      /\ down' = [down EXCEPT ![k] = <<>>]
      /\ \E l \in BOOLEAN : lossy' = [lossy EXCEPT ![c] = l]
    BY DEF Drop
<1>2. /\ lossy[c] => lossy'[c]
      /\ (\E i \in DOMAIN up[k] : up[k][i].m = "push") => lossy'[c]
    BY DEF Drop, TypeOK
<1>3. SnapInv'
    BY <1>1 DEF RestInv, SnapInv, serverVars
<1>4. UnusedInv'
    <2>1. \A j \in Conn : down[j] = <<>> => down'[j] = <<>>
        BY <1>1 DEF TypeOK
    <2> QED BY <1>1, <2>1 DEF RestInv, UnusedInv, Unused, serverVars
<1>5. \A d \in Client \ {c} : ClientInv(d)'
    <2> SUFFICES ASSUME NEW d \in Client \ {c} PROVE ClientInv(d)'
        OBVIOUS
    <2>1. down'[Current(d)] = down[Current(d)]
        BY <1>1 DEF TypeOK, Current
    <2> QED BY <1>1, <2>1, ClientUntouched DEF RestInv, TypeOK
<1>6. lossy'[c] \/ doc[c] \subseteq Content(ops)
    <2>1. Pushes(up[k]) = {} \/ lossy'[c]
        BY <1>2 DEF Pushes, States
    <2> QED BY <1>1, <1>2, <2>1 DEF RestInv, ClientInv, LinkInv
<1>7. ClientInv(c)'
    BY <1>1, <1>6 DEF RestInv, ClientInv, Connected, serverVars, TypeOK
<1> QED BY <1>3, <1>4, <1>5, <1>7 DEF RestInv

LEMMA CloseRests ==
    ASSUME TypeOK, RestInv, NEW c \in Client, Close(c)
    PROVE  RestInv'
<1>1. /\ UNCHANGED <<serverVars, up, conn>>
      /\ phase' = [phase EXCEPT ![c] = "off"] /\ open' = [open EXCEPT ![c] = FALSE]
      /\ doc' = [doc EXCEPT ![c] = {}] /\ lossy' = [lossy EXCEPT ![c] = FALSE]
      /\ down' = [down EXCEPT ![Current(c)] = <<>>]
    BY DEF Close
<1>2. SnapInv'
    BY <1>1 DEF RestInv, SnapInv, serverVars
<1>3. UnusedInv'
    <2>1. \A j \in Conn : down[j] = <<>> => down'[j] = <<>>
        BY <1>1 DEF TypeOK
    <2> QED BY <1>1, <2>1 DEF RestInv, UnusedInv, Unused, serverVars
<1>4. \A d \in Client \ {c} : ClientInv(d)'
    <2> SUFFICES ASSUME NEW d \in Client \ {c} PROVE ClientInv(d)'
        OBVIOUS
    <2>1. down'[Current(d)] = down[Current(d)]
        BY <1>1 DEF TypeOK, Current
    <2> QED BY <1>1, <2>1, ClientUntouched DEF RestInv, TypeOK
<1>5. ClientInv(c)'
    BY <1>1 DEF ClientInv, Connected, TypeOK
<1> QED BY <1>2, <1>3, <1>4, <1>5 DEF RestInv

\* A connected client sends on its connection, and receives at most one message.
LEMMA LinkUsed ==
    ASSUME TypeOK, RestInv, NEW c \in Client, Current(c) \in Conn, UNCHANGED <<serverVars, conn>>,
           \/ up' = up
           \/ \E call \in Call :
                 /\ Send(Current(c), call)
                 /\ call.m = "snap" => call.st \subseteq Content(ops) \cup Pushes(up[Current(c)]),
           \/ down' = down
           \/ down' = [down EXCEPT ![Current(c)] = Tail(@)]
    PROVE  UnusedInv' /\ SnapInv'
<1> DEFINE k == Current(c)
<1>1. \A j \in Conn : j # k => up'[j] = up[j] /\ down'[j] = down[j]
    BY DEF TypeOK, Send
<1>2. conn[k[1]] = k[2]
    BY DEF Current
<1>3. UnusedInv'
    <2> SUFFICES ASSUME NEW j \in Conn, conn'[j[1]] < j[2] PROVE Unused(j)'
        BY DEF UnusedInv
    <2>1. j # k
        <3>1. conn[j[1]] \in Nat /\ conn[j[1]] < j[2] /\ j[2] \in Nat
            BY BoundsAssumption DEF Conn, TypeOK
        <3> QED BY <1>2, <3>1
    <2> QED BY <1>1, <2>1 DEF RestInv, UnusedInv, Unused, serverVars
<1>4. SnapInv'
    <2> SUFFICES ASSUME NEW j \in Conn PROVE SnapOk(up'[j], Content(ops))
        BY DEF SnapInv, serverVars
    <2>1. SnapOk(up[j], Content(ops)) /\ up[j] \in Seq(Call)
        BY DEF RestInv, SnapInv, TypeOK
    <2>2. CASE up'[j] = up[j]
        BY <2>1, <2>2
    <2>3. CASE j = k /\ up' # up
        <3> PICK call \in Call : /\ Send(k, call)
                                 /\ call.m = "snap" => call.st \subseteq Content(ops) \cup Pushes(up[k])
            BY <2>3
        <3>1. up'[j] = Append(up[j], call)
            BY <2>3 DEF Send, TypeOK
        <3> QED BY <2>1, <2>3, <3>1, SnapAfterAppend
    <2> QED BY <1>1, <2>2, <2>3
<1> QED BY <1>3, <1>4

\* The other clients, while c uses its connection.
LEMMA OthersRest ==
    ASSUME TypeOK, RestInv, NEW c \in Client, UNCHANGED <<serverVars, conn>>,
           \A d \in Client \ {c} : /\ phase'[d] = phase[d] /\ open'[d] = open[d]
                                   /\ doc'[d] = doc[d] /\ lossy'[d] = lossy[d],
           \A k \in Conn : k # Current(c) => up'[k] = up[k] /\ down'[k] = down[k],
           \A d \in Client : Connected(d) => Current(d) \in Conn
    PROVE  \A d \in Client \ {c} : ClientInv(d)'
<1> SUFFICES ASSUME NEW d \in Client \ {c} PROVE ClientInv(d)'
    OBVIOUS
<1>1. Connected(d) => up'[Current(d)] = up[Current(d)] /\ down'[Current(d)] = down[Current(d)]
    <2>1. Current(d) # Current(c)
        BY DEF Current
    <2> QED BY <2>1
<1> QED BY <1>1, ClientUntouched DEF RestInv

LEMMA RejoinRests ==
    ASSUME TypeOK, IInv, RestInv, NEW c \in Client, RejoinIndexes(c)
    PROVE  RestInv'
<1> DEFINE k == Current(c)
           join == [m |-> "join", why |-> "rejoin"]
<1>1. /\ UNCHANGED <<serverVars, down, conn, open, doc, lossy>> /\ phase[c] = "rejoin"
      /\ phase' = [phase EXCEPT ![c] = "on"] /\ Connected(c)
      /\ (open[c] /\ Send(k, join)) \/ (~open[c] /\ up' = up)
      /\ join \in Call /\ join.m = "join" /\ join.why = "rejoin"
    BY DEF RejoinIndexes, Connected, Call
<1>2. \A d \in Client : Connected(d) => Current(d) \in Conn
    BY CurrentIsConn DEF IInv, FreshInv
<1> HIDE DEF join
<1>3. UnusedInv' /\ SnapInv'
    BY <1>1, <1>2, LinkUsed
<1>4. \A d \in Client \ {c} : ClientInv(d)'
    <2>1. \A j \in Conn : j # k => up'[j] = up[j] /\ down'[j] = down[j]
        BY <1>1 DEF Send, TypeOK
    <2> QED BY <1>1, <1>2, <2>1, OthersRest DEF TypeOK
<1>5. ClientInv(c)'
    <2>1. /\ Current(c)' = k /\ Connected(c)' /\ phase'[c] = "on" /\ k \in Conn
          /\ doc'[c] = doc[c] /\ open'[c] = open[c] /\ (~open[c] => doc[c] = {})
        BY <1>1, <1>2 DEF Current, Connected, TypeOK, RestInv, ClientInv
    <2>2. LinkInv(c)
        BY <1>1 DEF RestInv, ClientInv
    <2>3. work[k].m # "joining" /\ work' = work /\ member' = member /\ down' = down
        BY <1>1 DEF IInv, FreshInv, NoJoin, serverVars
    <2>4. CASE open[c]
        <3>1. up'[k] = Append(up[k], join) /\ up[k] \in Seq(Call)
            BY <1>1, <2>1, <2>4 DEF Send, TypeOK
        <3>2. /\ Pushes(up'[k]) = Pushes(up[k])
              /\ Has(up'[k], "join") /\ Rejoins(up'[k], "join")
            <4>1. Pushes(up'[k]) = Pushes(up[k])
                BY <1>1, <3>1, PushesAfterAppend
            <4>2. \A e \in Call : e.m = "join" /\ e.why = "rejoin" =>
                      Has(Append(up[k], e), "join") /\ Rejoins(Append(up[k], e), "join")
                BY <3>1, StillThere
            <4> QED BY <1>1, <3>1, <4>1, <4>2
        <3>3. JoinUnderWay(k)' /\ Mine(k)' = Mine(k) /\ Rejoining(c)'
            BY <2>1, <2>3, <3>2 DEF JoinUnderWay, Mine, Cast, Rejoining
        <3>4. lossy'[c] \/ doc'[c] \subseteq Content(ops') \cup Pushes(up'[k])
            BY <1>1, <2>1, <2>2, <3>2 DEF LinkInv, serverVars
        <3> HIDE DEF k
        <3>5. LinkInv(c)'
            BY <1>1, <2>1, <2>2, <2>3, <2>4, <3>3, <3>4 DEF LinkInv, k, JoinUnderWay
        <3> QED BY <2>1, <2>4, <3>5 DEF ClientInv
    <2>5. CASE ~open[c]
        <3>1. Mine(k)' = Mine(k)
            BY <1>1, <2>1, <2>3, <2>5 DEF Mine, Cast
        <3> HIDE DEF k
        <3>2. LinkInv(c)'
            BY <1>1, <2>1, <2>2, <2>3, <2>5, <3>1 DEF LinkInv, k
        <3> QED BY <2>1, <2>5, <3>2 DEF ClientInv
    <2> QED BY <2>4, <2>5
<1> QED BY <1>3, <1>4, <1>5 DEF RestInv

LEMMA OpenRests ==
    ASSUME ~OpenDuringRejoin, ~RetriesRunOut, TypeOK, IInv, RestInv, NEW c \in Client, OpenIndex(c)
    PROVE  RestInv'
<1> DEFINE k == Current(c)
           join == [m |-> "join", why |-> "open"]
<1>1. /\ UNCHANGED <<serverVars, down, conn, phase, doc, lossy>>
      /\ ~open[c] /\ open' = [open EXCEPT ![c] = TRUE] /\ phase[c] \in {"on", "retry"}
      /\ (Connected(c) /\ Send(k, join)) \/ (~Connected(c) /\ up' = up)
      /\ join \in Call /\ join.m = "join"
    BY DEF OpenIndex, Connected, Call, TypeOK
<1>2. \A d \in Client : Connected(d) => Current(d) \in Conn
    BY CurrentIsConn DEF IInv, FreshInv
<1> HIDE DEF join
<1>3. UnusedInv' /\ SnapInv'
    <2>1. CASE Connected(c)
        BY <1>1, <1>2, <2>1, LinkUsed
    <2>2. CASE ~Connected(c)
        BY <1>1, <2>2 DEF RestInv, UnusedInv, Unused, SnapInv, serverVars
    <2> QED BY <2>1, <2>2
<1>4. \A d \in Client \ {c} : ClientInv(d)'
    <2>1. \A j \in Conn : j # k => up'[j] = up[j] /\ down'[j] = down[j]
        BY <1>1 DEF Send, TypeOK
    <2> QED BY <1>1, <1>2, <2>1, OthersRest DEF TypeOK
<1>5. ClientInv(c)'
    <2>1. /\ Current(c)' = k /\ Connected(c)' = Connected(c) /\ phase'[c] = phase[c] /\ open'[c]
          /\ doc'[c] = {} /\ (phase[c] = "on" \/ phase[c] = "retry")
        BY <1>1 DEF Current, Connected, TypeOK, RestInv, ClientInv
    <2>2. CASE ~Connected(c)
        BY <2>1, <2>2 DEF ClientInv
    <2>3. CASE Connected(c)
        <3>1. LinkInv(c) /\ k \in Conn /\ doc[c] = {}
            BY <1>1, <1>2, <2>3 DEF RestInv, ClientInv
        <3>2. up'[k] = Append(up[k], join) /\ up[k] \in Seq(Call)
            BY <1>1, <2>3, <3>1 DEF Send, TypeOK
        <3>3. work[k].m # "joining" /\ work' = work /\ member' = member /\ down' = down
            BY <1>1, <2>3 DEF IInv, FreshInv, NoJoin, serverVars
        <3>4. Pushes(up'[k]) = Pushes(up[k]) /\ Has(up'[k], "join")
            <4>1. join \in Call /\ join.m = "join"
                BY <1>1 DEF Call
            <4> HIDE DEF join
            <4>2. Pushes(up'[k]) = Pushes(up[k])
                BY <3>2, <4>1, PushesAfterAppend
            <4>3. Has(up'[k], "join")
                BY <3>2, <4>1, StillThere
            <4> QED BY <4>2, <4>3
        <3>5. JoinUnderWay(k)' /\ Mine(k)' = Mine(k)
            BY <2>1, <3>3, <3>4 DEF JoinUnderWay, Mine, Cast
        <3> HIDE DEF k
        <3>6. LinkInv(c)'
            BY <1>1, <2>1, <2>3, <3>1, <3>3, <3>5 DEF LinkInv, k, JoinUnderWay
        <3> QED BY <2>1, <3>6 DEF ClientInv
    <2> QED BY <2>2, <2>3
<1> QED BY <1>3, <1>4, <1>5 DEF RestInv

\* The connection of a client that sends a push on it, or an edit's call.
LEMMA PushSent ==
    ASSUME TypeOK, NEW c \in Client, NEW k \in Conn, k = Current(c), Current(c)' = k,
           NEW call \in Call, call.m = "push", up'[k] = Append(up[k], call), UNCHANGED serverVars
    PROVE  /\ Pushes(up'[k]) = Pushes(up[k]) \cup call.st
           /\ Mine(k)' = Mine(k) \cup call.st
           /\ JoinUnderWay(k)' = JoinUnderWay(k)
           /\ \A m : Rejoins(up[k], m) => Rejoins(up'[k], m)
<1>1. up[k] \in Seq(Call)
    BY DEF TypeOK
<1>2. Pushes(up'[k]) = Pushes(up[k]) \cup call.st
    BY <1>1, PushesAfterAppend
<1>3. Has(up'[k], "join") = Has(up[k], "join")
    <2>1. Has(up[k], "join") => Has(up'[k], "join")
        BY <1>1, StillThere
    <2>2. Has(up'[k], "join") => Has(up[k], "join")
        BY <1>1, KindsAfterAppend
    <2>3. Has(up'[k], "join") \in BOOLEAN /\ Has(up[k], "join") \in BOOLEAN
        BY DEF Has
    <2> QED BY <2>1, <2>2, <2>3
<1>4. \A m : Rejoins(up[k], m) => Rejoins(up'[k], m)
    BY <1>1, StillThere
<1> QED BY <1>2, <1>3, <1>4 DEF Mine, Cast, JoinUnderWay, serverVars

LEMMA EditRests ==
    ASSUME TypeOK, IInv, RestInv, NEW c \in Client, NEW u \in Update, Edit(c, u)
    PROVE  RestInv'
<1> DEFINE k == Current(c)
           push == [m |-> "push", st |-> {u}]
<1>1. /\ UNCHANGED <<serverVars, down, conn, phase, open>> /\ open[c]
      /\ doc' = [doc EXCEPT ![c] = @ \cup {u}]
      /\ \/ Connected(c) /\ Send(k, push) /\ lossy' = lossy
         \/ ~Connected(c) /\ up' = up /\ lossy' = [lossy EXCEPT ![c] = TRUE]
      /\ push \in Call /\ push.m = "push" /\ push.st = {u}
    BY DEF Edit, Call
<1>2. \A d \in Client : Connected(d) => Current(d) \in Conn
    BY CurrentIsConn DEF IInv, FreshInv
<1> HIDE DEF push
<1>3. UnusedInv' /\ SnapInv'
    <2>1. CASE Connected(c)
        BY <1>1, <1>2, <2>1, LinkUsed
    <2>2. CASE ~Connected(c)
        BY <1>1, <2>2 DEF RestInv, UnusedInv, Unused, SnapInv, serverVars
    <2> QED BY <2>1, <2>2
<1>4. \A d \in Client \ {c} : ClientInv(d)'
    <2>1. \A j \in Conn : j # k => up'[j] = up[j] /\ down'[j] = down[j]
        BY <1>1 DEF Send, TypeOK
    <2> QED BY <1>1, <1>2, <2>1, OthersRest DEF TypeOK
<1>5. ClientInv(c)'
    <2>1. /\ Current(c)' = k /\ Connected(c)' = Connected(c) /\ phase'[c] = phase[c]
          /\ open'[c] /\ doc'[c] = doc[c] \cup {u} /\ phase[c] # "off"
        BY <1>1 DEF Current, Connected, TypeOK, RestInv, ClientInv
    <2>2. CASE ~Connected(c)
        <3>1. lossy'[c]
            BY <1>1, <2>2 DEF TypeOK
        <3> QED BY <2>1, <2>2, <3>1 DEF ClientInv
    <2>3. CASE Connected(c)
        <3>1. LinkInv(c) /\ k \in Conn
            BY <1>2, <2>3 DEF RestInv, ClientInv
        <3>2. up'[k] = Append(up[k], push) /\ lossy' = lossy /\ work' = work /\ member' = member
              /\ ops' = ops /\ slipped' = slipped
            BY <1>1, <2>3, <3>1 DEF Send, TypeOK, serverVars
        <3>3. /\ Pushes(up'[k]) = Pushes(up[k]) \cup {u} /\ Mine(k)' = Mine(k) \cup {u}
              /\ JoinUnderWay(k)' = JoinUnderWay(k)
              /\ \A m : Rejoins(up[k], m) => Rejoins(up'[k], m)
            BY <1>1, <2>1, <3>1, <3>2, PushSent
        <3>4. Rejoining(c) => Rejoining(c)'
            BY <1>1, <2>1, <3>2, <3>3 DEF Rejoining
        <3>5. Told(k)' = Told(k) /\ Slipping(k)' = Slipping(k)
            BY <1>1, <2>1, <3>2 DEF Told, Slipping, Casts, Cast
        <3>6. /\ down'[k] = down[k] /\ ops' = ops /\ work'[k] = work[k]
              /\ phase[c] \in {"on", "rejoin"} /\ open[c]
            BY <1>1, <2>3, <3>2 DEF Connected
        <3> HIDE DEF k
        <3>7. LinkInv(c)'
            BY <2>1, <3>1, <3>2, <3>3, <3>4, <3>5, <3>6, <1>1 DEF LinkInv, k
        <3> QED BY <2>1, <2>3, <3>7 DEF ClientInv, Connected
    <2> QED BY <2>2, <2>3
<1> QED BY <1>3, <1>4, <1>5 DEF RestInv

\* The answer to a rejoin is the only one to come: if another is received, or a
\* rejoin's while nothing is lossy, what the client shows needs no flush.
LEMMA ReceiveSaved ==
    ASSUME TypeOK, IInv, NEW c \in Client, LinkInv(c), Current(c) \in Conn, phase[c] = "on",
           NEW k, k = Current(c), down[k] # <<>>, Head(down[k]).m = "joined",
           Head(down[k]).why # "rejoin" \/ ~lossy[c]
    PROVE  doc[c] \subseteq Content(ops) \cup Pushes(up[k])
<1>1. down[k] \in Seq(Msg) /\ JoinInv(k)
    BY DEF TypeOK, IInv
<1>2. Has(down[k], "joined")
    BY <1>1, KindsAfterTail
<1>3. ~Rejoins(up[k], "join") /\ work[k].m # "joining"
    BY <1>1, <1>2 DEF JoinInv, Has, Rejoins
<1>4. Rejoins(down[k], "joined") => Head(down[k]).why = "rejoin"
    BY <1>1, StillThere DEF JoinInv
<1> QED BY <1>3, <1>4 DEF LinkInv, Rejoining

LEMMA ReceiveRests ==
    ASSUME TypeOK, IInv, CarriedInv, RestInv, NEW c \in Client, Receive(c)
    PROVE  RestInv'
<1> DEFINE k == Current(c)
           msg == Head(down[k])
           merged == doc[c] \cup msg.st
           push == [m |-> "push", st |-> merged]
           snap == [m |-> "snap", st |-> merged]
<1>1. \A d \in Client : Connected(d) => Current(d) \in Conn
    BY CurrentIsConn DEF IInv, FreshInv
<1>2. /\ UNCHANGED <<serverVars, conn, phase, open>> /\ Connected(c)
      /\ down[k] # <<>> /\ down' = [down EXCEPT ![k] = Tail(@)]
      /\ doc' = [doc EXCEPT ![c] = merged]
      /\ \/ msg.m = "joined" /\ msg.why = "open" /\ Send(k, snap) /\ lossy' = lossy
         \/ /\ msg.m = "joined" /\ msg.why = "rejoin" /\ Send(k, push)
            /\ lossy' = [lossy EXCEPT ![c] = FALSE]
         \/ /\ up' = up /\ lossy' = lossy
            /\ \/ msg.m = "update"
               \/ msg.m = "joined" /\ (msg.why # "rejoin" \/ ~lossy[c])
    <2>1. /\ UNCHANGED <<serverVars, conn, phase, open>> /\ Connected(c)
          /\ down[k] # <<>> /\ down' = [down EXCEPT ![k] = Tail(@)]
          /\ doc' = [doc EXCEPT ![c] = merged]
        BY DEF Receive
    <2>2. \/ msg.m = "joined" /\ msg.why = "open" /\ Send(k, snap) /\ lossy' = lossy
          \/ /\ msg.m = "joined" /\ msg.why = "rejoin" /\ Send(k, push)
             /\ lossy' = [lossy EXCEPT ![c] = FALSE]
          \/ /\ up' = up /\ lossy' = lossy
             /\ \/ msg.m = "update"
                \/ msg.m = "joined" /\ msg.why = "open" /\ ~msg.long
                \/ msg.m = "joined" /\ msg.why = "rejoin" /\ ~lossy[c]
        BY DEF Receive
    <2> HIDE DEF k, msg, push, snap, merged
    <2> QED BY <2>1, <2>2
<1>3. k \in Conn /\ LinkInv(c) /\ ConnCarries(k) /\ up[k] \in Seq(Call) /\ down[k] \in Seq(Msg)
    BY <1>1, <1>2 DEF RestInv, ClientInv, CarriedInv, TypeOK
<1>4. msg \in Msg /\ msg.st \subseteq Content(ops) /\ merged \in SUBSET Update
    BY <1>2, <1>3, Received DEF TypeOK
<1>5. phase[c] = "on" /\ open[c]
    BY <1>2, <1>3 DEF LinkInv, Connected
<1>6. push \in Call /\ push.m = "push" /\ push.st = merged
      /\ snap \in Call /\ snap.m = "snap" /\ snap.st = merged
    BY <1>4 DEF Call
<1>7. msg.m = "joined" /\ (msg.why # "rejoin" \/ ~lossy[c]) =>
          merged \subseteq Content(ops) \cup Pushes(up[k])
    BY <1>2, <1>3, <1>4, <1>5, ReceiveSaved
<1> HIDE DEF push, snap, merged
<1>8. UnusedInv' /\ SnapInv'
    BY <1>1, <1>2, <1>3, <1>6, <1>7, LinkUsed
<1>9. \A d \in Client \ {c} : ClientInv(d)'
    <2>1. \A j \in Conn : j # k => up'[j] = up[j] /\ down'[j] = down[j]
        BY <1>2 DEF Send, TypeOK
    <2> QED BY <1>1, <1>2, <2>1, OthersRest DEF TypeOK
<1>10. ClientInv(c)'
    <2>1. /\ Current(c)' = k /\ Connected(c)' /\ phase'[c] = "on" /\ open'[c] /\ doc'[c] = merged
          /\ work' = work /\ member' = member /\ ops' = ops /\ slipped' = slipped
          /\ down'[k] = Tail(down[k]) /\ doc[c] \subseteq merged
        BY <1>2, <1>3, <1>5 DEF Current, Connected, TypeOK, serverVars, merged
    <2>2. Told(k) \subseteq Told(k)' \cup merged /\ Slipping(k)' = Slipping(k)
        <3>1. AllStates(down[k]) \subseteq AllStates(down'[k]) \cup {msg.st}
            BY <1>2, <1>3, <2>1, AllStatesSteps
        <3>2. msg.st \subseteq merged
            BY DEF merged
        <3>3. Told(k) \subseteq Told(k)' \cup merged
            BY <2>1, <3>1, <3>2 DEF Told
        <3> QED BY <2>1, <3>3 DEF Slipping, Casts, Cast
    <2>3. ASSUME JoinUnderWay(k)' = JoinUnderWay(k), Mine(k)' \subseteq merged,
                 \/ merged \subseteq Content(ops) \cup Pushes(up'[k])
                 \/ lossy'[c] /\ Rejoining(c)'
          PROVE  ClientInv(c)'
        <3> HIDE DEF k
        <3>1. LinkInv(c)'
            BY <1>3, <1>5, <2>1, <2>2, <2>3 DEF LinkInv, k
        <3> QED BY <2>1, <3>1 DEF ClientInv
    <2>4. CASE msg.m = "joined" /\ msg.why = "open" /\ Send(k, snap) /\ lossy' = lossy
        <3>1. up'[k] = Append(up[k], snap)
            BY <1>3, <2>4 DEF Send, TypeOK
        <3>2. Pushes(up'[k]) = Pushes(up[k])
            BY <1>3, <1>6, <3>1, PushesAfterAppend
        <3>3. Has(up'[k], "join") = Has(up[k], "join")
            <4>1. Has(up[k], "join") => Has(up'[k], "join")
                BY <1>3, <1>6, <3>1, StillThere
            <4>2. Has(up'[k], "join") => Has(up[k], "join")
                BY <1>3, <1>6, <3>1, KindsAfterAppend
            <4> QED BY <4>1, <4>2 DEF Has
        <3>4. JoinUnderWay(k)' = JoinUnderWay(k) /\ Mine(k)' = Mine(k)
            BY <2>1, <3>2, <3>3 DEF JoinUnderWay, Mine, Cast
        <3>5. Mine(k) \subseteq merged
            BY <1>3, <2>1 DEF LinkInv
        <3> QED BY <1>7, <2>3, <2>4, <3>2, <3>4, <3>5
    <2>5. CASE msg.m = "joined" /\ msg.why = "rejoin" /\ Send(k, push)
        <3>1. up'[k] = Append(up[k], push)
            BY <1>3, <2>5 DEF Send, TypeOK
        <3>2. /\ Pushes(up'[k]) = Pushes(up[k]) \cup merged
              /\ Mine(k)' = Mine(k) \cup merged
              /\ JoinUnderWay(k)' = JoinUnderWay(k)
            BY <1>2, <1>3, <1>6, <2>1, <3>1, PushSent
        <3>3. Mine(k) \subseteq merged
            BY <1>3, <2>1 DEF LinkInv
        <3> QED BY <2>3, <3>2, <3>3
    <2>6. CASE up' = up /\ lossy' = lossy /\ msg.m = "joined" /\ (msg.why # "rejoin" \/ ~lossy[c])
        <3>1. JoinUnderWay(k)' = JoinUnderWay(k) /\ Mine(k)' = Mine(k)
            BY <2>1, <2>6 DEF JoinUnderWay, Mine, Cast
        <3>2. Mine(k) \subseteq merged
            BY <1>3, <2>1 DEF LinkInv
        <3> QED BY <1>7, <2>3, <2>6, <3>1, <3>2
    <2>7. CASE up' = up /\ lossy' = lossy /\ msg.m = "update"
        <3>1. JoinUnderWay(k)' = JoinUnderWay(k) /\ Mine(k)' = Mine(k)
            BY <2>1, <2>7 DEF JoinUnderWay, Mine, Cast
        <3>2. Mine(k) \subseteq merged
            BY <1>3, <2>1 DEF LinkInv
        <3>3. Rejoins(down[k], "joined") => Rejoins(down'[k], "joined")
            BY <1>2, <1>3, <2>1, <2>7, StillThere
        <3>4. Rejoining(c) => Rejoining(c)'
            BY <1>5, <2>1, <2>7, <3>3 DEF Rejoining
        <3>5. \/ doc[c] \subseteq Content(ops) \cup Pushes(up[k])
              \/ lossy[c] /\ Rejoining(c)
            BY <1>3 DEF LinkInv
        <3>6. merged \subseteq Content(ops) \cup doc[c]
            BY <1>4 DEF merged
        <3> QED BY <2>3, <2>7, <3>1, <3>2, <3>4, <3>5, <3>6
    <2> QED BY <1>2, <2>4, <2>5, <2>6, <2>7
<1> QED BY <1>8, <1>9, <1>10 DEF RestInv

LEMMA ClientRests ==
    ASSUME ~OpenDuringRejoin, ~RetriesRunOut, IInv, CarriedInv, RestInv, ClientNext
    PROVE  RestInv'
<1>1. TypeOK
    BY DEF IInv
<1> PICK c \in Client : \/ Start(c) \/ Drop(c) \/ Reconnect(c) \/ GiveUp(c) \/ RejoinIndexes(c)
                        \/ OpenIndex(c) \/ Receive(c) \/ Close(c)
                        \/ \E u \in Update : Edit(c, u)
    BY DEF ClientNext
<1>2. ~GiveUp(c)
    BY DEF GiveUp
<1> QED BY <1>1, <1>2, StartRests, DropRests, RejoinRests, OpenRests, ReceiveRests, CloseRests, EditRests

-----------------------------------------------------------------------------
(* The server's steps.                                                      *)

ServerStepOf(k) == \/ JoinRead(k) \/ JoinAnswer(k) \/ PushAppend(k) \/ PushCast(k)
                   \/ Snapshot(k) \/ Hangup(k)

\* What is appended to the journal is being told to the group, a snapshot adds
\* nothing to it, and only PushCast ends what is being told.
LEMMA ServerTells ==
    ASSUME IInv, SnapInv, NEW k \in Conn, ServerStepOf(k)
    PROVE  /\ Content(ops) \subseteq Content(ops')
           /\ Content(ops') \subseteq Content(ops) \cup Casts'
           /\ ~PushCast(k) => Casts \subseteq Casts' /\ slipped' = slipped
           /\ UNCHANGED clientVars
<1>1. TypeOK
    BY DEF IInv
<1>2. Content(ops) \subseteq Content(ops')
    BY ServerJournal DEF ServerNext, ServerStepOf
<1>3. \A j \in Conn : Cast(j)' \subseteq Casts'
    BY DEF Casts
<1>4. (\A j \in Conn : Cast(j) \subseteq Cast(j)') => Casts \subseteq Casts'
    BY <1>3 DEF Casts
<1>5. CASE JoinRead(k)
    <2>1. UNCHANGED <<ops, slipped, clientVars>> /\ work[k] = NoWork
          /\ \E w : work' = [work EXCEPT ![k] = w]
        BY <1>5 DEF JoinRead, Starts
    <2>2. \A j \in Conn : Cast(j) \subseteq Cast(j)'
        BY <1>1, <2>1 DEF Cast, NoWork, TypeOK
    <2> QED BY <1>2, <1>4, <2>1, <2>2
<1>6. CASE JoinAnswer(k)
    <2>1. UNCHANGED <<ops, slipped, clientVars>> /\ work[k].m = "joining"
          /\ \E w : work' = [work EXCEPT ![k] = w]
        BY <1>6 DEF JoinAnswer
    <2>2. \A j \in Conn : Cast(j) \subseteq Cast(j)'
        BY <1>1, <2>1 DEF Cast, TypeOK
    <2> QED BY <1>2, <1>4, <2>1, <2>2
<1>7. CASE PushAppend(k)
    <2> DEFINE st == Head(up[k]).st
    <2>1. UNCHANGED <<slipped, clientVars>> /\ work[k] = NoWork
          /\ work' = [work EXCEPT ![k] = [m |-> "casting", st |-> st]]
          /\ ops' = ops \cup {[id |-> nextId, st |-> st]}
        BY <1>7 DEF PushAppend, Starts
    <2>2. Content(ops') = Content(ops) \cup st
        <3>1. [id |-> nextId, st |-> st].st = st
            OBVIOUS
        <3> QED BY <2>1, <3>1, ContentAdded
    <2> HIDE DEF st
    <2>3. Cast(k)' = st
        BY <1>1, <2>1 DEF Cast, TypeOK
    <2>4. \A j \in Conn : Cast(j) \subseteq Cast(j)'
        BY <1>1, <2>1 DEF Cast, NoWork, TypeOK
    <2> QED BY <1>2, <1>3, <1>4, <2>1, <2>2, <2>3, <2>4
<1>8. CASE PushCast(k)
    BY <1>2, <1>8 DEF PushCast
<1>9. CASE Snapshot(k)
    <2> DEFINE st == Head(up[k]).st
    <2>1. UNCHANGED <<slipped, work, clientVars>> /\ up[k] # <<>> /\ Head(up[k]).m = "snap"
          /\ \A o \in ops' : o \in ops \/ o.st = st
        BY <1>9 DEF Snapshot, Starts, Replace
    <2>2. st \subseteq Content(ops)
        BY <1>1, <2>1, SnapAtHead DEF SnapInv, TypeOK
    <2> HIDE DEF st
    <2>3. Content(ops') \subseteq Content(ops)
        BY <2>1, <2>2 DEF Content
    <2> QED BY <1>2, <2>1, <2>3 DEF Casts, Cast
<1>10. CASE Hangup(k)
    BY <1>2, <1>10 DEF Hangup, Casts, Cast
<1> QED BY <1>5, <1>6, <1>7, <1>8, <1>9, <1>10 DEF ServerStepOf

\* What a server's step leaves alone: the other connections, PushCast apart.
LEMMA ServerFrame ==
    ASSUME TypeOK, NEW k \in Conn, ServerStepOf(k), NEW j \in Conn, j # k
    PROVE  /\ up'[j] = up[j] /\ work'[j] = work[j] /\ (j \in member' <=> j \in member)
           /\ ~PushCast(k) => down'[j] = down[j]
<1>1. \/ up' = up \/ up' = [up EXCEPT ![k] = <<>>] \/ up' = [up EXCEPT ![k] = Tail(@)]
    BY DEF ServerStepOf, JoinRead, JoinAnswer, PushAppend, PushCast, Snapshot, Hangup, Pop
<1>2. work' = work \/ \E w : work' = [work EXCEPT ![k] = w]
    BY DEF ServerStepOf, JoinRead, JoinAnswer, PushAppend, PushCast, Snapshot, Hangup
<1>3. member' \in {member, member \cup {k}, member \ {k}}
    BY DEF ServerStepOf, JoinRead, JoinAnswer, PushAppend, PushCast, Snapshot, Hangup
<1>4. ~PushCast(k) => down' = down \/ \E e : down' = [down EXCEPT ![k] = e]
    BY DEF ServerStepOf, JoinRead, JoinAnswer, PushAppend, Snapshot, Hangup
<1> QED BY <1>1, <1>2, <1>3, <1>4 DEF TypeOK

\* A connected client whose connection the step leaves alone.
LEMMA LinkUntouched ==
    ASSUME NEW d \in Client, LinkInv(d), NEW j \in Conn, j = Current(d), UNCHANGED clientVars,
           up'[j] = up[j], work'[j] = work[j], j \in member' <=> j \in member, down'[j] = down[j],
           Content(ops) \subseteq Content(ops'), Content(ops') \subseteq Content(ops) \cup Casts',
           Casts \subseteq Casts', slipped' = slipped
    PROVE  LinkInv(d)'
<1>1. /\ Current(d)' = j /\ phase'[d] = phase[d] /\ open'[d] = open[d] /\ doc'[d] = doc[d]
      /\ lossy'[d] = lossy[d]
    BY DEF clientVars, Current
<1>2. /\ Mine(j)' = Mine(j) /\ JoinUnderWay(j)' = JoinUnderWay(j) /\ Told(j)' = Told(j)
      /\ Slipping(j) \subseteq Slipping(j)' /\ Content(ops') \subseteq Content(ops) \cup Slipping(j)'
    BY DEF Mine, JoinUnderWay, Told, Slipping, Cast
<1>3. Rejoining(d) => Rejoining(d)'
    BY <1>1 DEF Rejoining
<1> QED BY <1>1, <1>2, <1>3 DEF LinkInv

\* The client's own connection: the journal is read for its join.
LEMMA JoinReadLink ==
    ASSUME IInv, SnapInv, NEW d \in Client, LinkInv(d), NEW j \in Conn, j = Current(d), JoinRead(j)
    PROVE  LinkInv(d)'
<1>1. TypeOK /\ JoinInv(j) /\ up[j] \in Seq(Call)
    BY DEF IInv, TypeOK
<1>2. /\ up[j] # <<>> /\ Head(up[j]).m = "join" /\ up'[j] = Tail(up[j])
      /\ work[j] = NoWork
      /\ work'[j] = [m |-> "joining", why |-> Head(up[j]).why, seen |-> ops]
      /\ UNCHANGED <<ops, member, down, slipped, clientVars>>
    BY <1>1 DEF JoinRead, Starts, Pop, TypeOK
<1>3. /\ Current(d)' = j /\ phase'[d] = phase[d] /\ open'[d] = open[d] /\ doc'[d] = doc[d]
      /\ lossy'[d] = lossy[d]
    BY <1>2 DEF clientVars, Current
<1>4. Pushes(up'[j]) = Pushes(up[j]) /\ Mine(j)' \subseteq Mine(j)
    <2>1. Pushes(up'[j]) = Pushes(up[j])
        BY <1>1, <1>2, PushesAfterTail
    <2>2. Cast(j)' = {}
        BY <1>2 DEF Cast
    <2> QED BY <2>1, <2>2 DEF Mine
<1>5. JoinUnderWay(j)' /\ work'[j].m = "joining" /\ work'[j].seen = ops
    BY <1>2 DEF JoinUnderWay
<1>6. Rejoining(d) => Rejoining(d)'
    <2>1. Rejoins(up[j], "join") => work'[j].why = "rejoin"
        BY <1>1, <1>2, StillThere DEF JoinInv
    <2> QED BY <1>2, <1>3, <1>5, <2>1 DEF Rejoining, NoWork
<1> HIDE DEF IInv
<1>7. down'[j] = down[j] /\ (j \in member' <=> j \in member) /\ ops' = ops
    BY <1>2
<1> QED BY <1>3, <1>4, <1>5, <1>6, <1>7 DEF LinkInv

\* ... and the join answered.
LEMMA JoinAnswerLink ==
    ASSUME IInv, SnapInv, NEW d \in Client, LinkInv(d), Connected(d), NEW j \in Conn,
           j = Current(d), JoinAnswer(j)
    PROVE  LinkInv(d)'
<1> DEFINE msg == [m |-> "joined", why |-> work[j].why, st |-> Content(work[j].seen),
                   long |-> Cardinality(work[j].seen) > CompactThreshold]
<1>1. TypeOK /\ JoinInv(j)
    BY DEF IInv
<1>2. Live(j)
    BY DEF Live, Current, Connected
<1>3. /\ work[j].m = "joining" /\ work[j].why \in {"open", "rejoin"} /\ work[j].seen \in SUBSET Op
      /\ work'[j] = NoWork /\ j \in member'
      /\ down'[j] = Append(down[j], msg)
      /\ UNCHANGED <<ops, up, slipped, clientVars>>
    BY <1>1, <1>2, WorkFields DEF JoinAnswer, TypeOK
<1>4. msg \in Msg /\ msg.m = "joined" /\ msg.why = work[j].why /\ msg.st = Content(work[j].seen)
    BY <1>3, ContentType DEF Msg
<1> HIDE DEF msg
<1>5. /\ Current(d)' = j /\ phase'[d] = phase[d] /\ open'[d] = open[d] /\ doc'[d] = doc[d]
      /\ lossy'[d] = lossy[d]
    BY <1>3 DEF clientVars, Current
<1>6. Mine(j)' \subseteq Mine(j) /\ Pushes(up'[j]) = Pushes(up[j])
    BY <1>3 DEF Mine, Cast, NoWork
<1>7. down[j] \in Seq(Msg)
    BY <1>1 DEF TypeOK
<1>8. Told(j)' = Told(j) \cup Content(work[j].seen)
    <2>1. AllStates(down'[j]) = AllStates(down[j]) \cup {msg.st}
        BY <1>3, <1>4, <1>7, AllStatesSteps
    <2> QED BY <1>4, <2>1 DEF Told
<1>9. Slipping(j) \subseteq Slipping(j)'
    <2>1. Casts \subseteq Casts'
        BY <1>3, ServerTells DEF ServerStepOf, PushCast
    <2> QED BY <1>3, <2>1 DEF Slipping
<1>10. Rejoining(d) => Rejoining(d)'
    <2>1. work[j].why = "rejoin" => Rejoins(down'[j], "joined")
        <3>1. \A e \in Msg : e.m = "joined" /\ e.why = "rejoin" => Rejoins(Append(down[j], e), "joined")
            BY <1>7, StillThere
        <3> QED BY <1>3, <1>4, <3>1
    <2>2. Rejoins(down[j], "joined") => Rejoins(down'[j], "joined")
        BY <1>3, <1>4, <1>7, StillThere
    <2> QED BY <1>3, <1>5, <2>1, <2>2 DEF Rejoining
<1>11. ~(phase[d] = "rejoin" \/ ~open[d])
    BY <1>3 DEF IInv, FreshInv, NoJoin
<1>12. Content(ops) \subseteq Content(work[j].seen) \cup Slipping(j)
    BY <1>3 DEF LinkInv
<1> HIDE DEF IInv
<1> QED BY <1>3, <1>5, <1>6, <1>8, <1>9, <1>10, <1>11, <1>12 DEF LinkInv, NoWork

\* A push is appended, or the journal compacted.
LEMMA CallLink ==
    ASSUME IInv, CarriedInv, SnapInv, NEW d \in Client, LinkInv(d), NEW j \in Conn, j = Current(d),
           PushAppend(j) \/ Snapshot(j)
    PROVE  LinkInv(d)'
<1>1. TypeOK /\ up[j] \in Seq(Call)
    BY DEF IInv, TypeOK
<1>2. /\ Content(ops) \subseteq Content(ops') /\ Content(ops') \subseteq Content(ops) \cup Casts'
      /\ Casts \subseteq Casts' /\ slipped' = slipped /\ UNCHANGED clientVars
    <2>1. ~PushCast(j)
        BY DEF PushCast, PushAppend, Snapshot, Starts, NoWork
    <2> QED BY <2>1, ServerTells DEF ServerStepOf
<1>3. /\ up[j] # <<>> /\ Head(up[j]).m \in {"push", "snap"} /\ up'[j] = Tail(up[j])
      /\ UNCHANGED <<member, down>> /\ work[j] = NoWork
      /\ work'[j] = NoWork \/ (work'[j].m = "casting" /\ work'[j].st = Head(up[j]).st
                               /\ Head(up[j]).m = "push")
      /\ Head(up[j]).m = "push" => work'[j].m = "casting" /\ work'[j].st = Head(up[j]).st
    <2>1. CASE PushAppend(j)
        BY <1>1, <2>1 DEF PushAppend, Starts, Pop, TypeOK
    <2>2. CASE Snapshot(j)
        BY <1>1, <2>2 DEF Snapshot, Starts, Pop, TypeOK
    <2> QED BY <2>1, <2>2
<1>4. /\ Current(d)' = j /\ phase'[d] = phase[d] /\ open'[d] = open[d] /\ doc'[d] = doc[d]
      /\ lossy'[d] = lossy[d]
    BY <1>2 DEF clientVars, Current
<1>5. /\ Head(up[j]).m = "push" => Head(up[j]).st \subseteq Pushes(up[j])
      /\ Pushes(up'[j]) \subseteq Pushes(up[j])
      /\ Pushes(up[j]) \subseteq Pushes(up'[j]) \cup Cast(j)'
    BY <1>1, <1>3, PushesAfterTail DEF Cast
<1>6. Mine(j)' \subseteq Mine(j)
    BY <1>3, <1>5 DEF Mine, Cast, NoWork
<1>7. Has(up'[j], "join") = Has(up[j], "join")
    <2>1. Has(up[j], "join") => Has(up'[j], "join")
        BY <1>1, <1>3, StillThere
    <2>2. Has(up'[j], "join") => Has(up[j], "join")
        BY <1>1, <1>3, KindsAfterTail
    <2> QED BY <2>1, <2>2 DEF Has
<1>8. JoinUnderWay(j)' = JoinUnderWay(j) /\ work'[j].m # "joining"
    BY <1>3, <1>7 DEF JoinUnderWay, NoWork
<1>9. Rejoining(d) => Rejoining(d)'
    <2>1. Rejoins(up[j], "join") => Rejoins(up'[j], "join")
        BY <1>1, <1>3, StillThere
    <2> QED BY <1>3, <1>4, <2>1 DEF Rejoining, NoWork
<1>10. Told(j)' = Told(j) /\ Slipping(j) \subseteq Slipping(j)'
       /\ Content(ops') \subseteq Content(ops) \cup Slipping(j)'
    BY <1>2, <1>3 DEF Told, Slipping
<1>11. Cast(j)' \subseteq Content(ops')
    BY ServerCarries DEF ServerNext, CarriedInv, ConnCarries
<1> HIDE DEF IInv
<1> QED BY <1>2, <1>3, <1>4, <1>5, <1>6, <1>8, <1>9, <1>10, <1>11 DEF LinkInv

\* The group is told: a connection in it has the edit on its way, one whose join
\* is being answered has let it slip, and the sender shows it.
LEMMA CastLink ==
    ASSUME IInv, NEW d \in Client, LinkInv(d), Connected(d), NEW j \in Conn, j = Current(d),
           NEW k \in Conn, PushCast(k)
    PROVE  LinkInv(d)'
<1> DEFINE st == work[k].st
           msg == [m |-> "update", st |-> st]
<1>1. TypeOK /\ Live(j)
    BY DEF IInv, Live, Current, Connected
<1>2. /\ work[k].m = "casting" /\ st \in SUBSET Update
      /\ work' = [work EXCEPT ![k] = NoWork]
      /\ slipped' = [i \in Conn |-> IF work[i].m = "joining"
                                    THEN slipped[i] \cup (st \ Content(work[i].seen))
                                    ELSE slipped[i]]
      /\ down'[j] = IF j \in member \ {k} THEN Append(down[j], msg) ELSE down[j]
      /\ UNCHANGED <<ops, member, up, clientVars>>
    BY <1>1, WorkFields DEF PushCast, TypeOK
<1>3. /\ Current(d)' = j /\ phase'[d] = phase[d] /\ open'[d] = open[d] /\ doc'[d] = doc[d]
      /\ lossy'[d] = lossy[d] /\ Content(ops') = Content(ops) /\ up'[j] = up[j]
    BY <1>2 DEF clientVars, Current
<1>4. Casts \subseteq Casts' \cup st
    <2>1. \A i \in Conn : i # k => Cast(i)' = Cast(i)
        BY <1>1, <1>2 DEF Cast, TypeOK
    <2>2. Cast(k) = st
        BY <1>2 DEF Cast
    <2> QED BY <2>1, <2>2 DEF Casts
<1>5. slipped[j] \subseteq slipped'[j] /\ Slipping(j) \subseteq Slipping(j)' \cup st
    BY <1>2, <1>4 DEF Slipping
<1>6. CASE j = k
    <2>1. work'[j] = NoWork /\ work[j].m = "casting" /\ down'[j] = down[j] /\ Cast(j) = st
        BY <1>1, <1>2, <1>6 DEF TypeOK, Cast
    <2>2. /\ st \subseteq Mine(j) /\ Mine(j)' \subseteq Mine(j) /\ JoinUnderWay(j)' = JoinUnderWay(j)
          /\ Told(j)' = Told(j) /\ work'[j].m # "joining"
        BY <1>3, <2>1 DEF Mine, Cast, JoinUnderWay, Told, NoWork
    <2>3. Rejoining(d) => Rejoining(d)'
        BY <1>3, <2>1 DEF Rejoining
    <2> HIDE DEF IInv, st, msg
    <2> QED BY <1>2, <1>3, <1>5, <2>1, <2>2, <2>3 DEF LinkInv
<1>7. CASE j # k
    <2>1. work'[j] = work[j]
        BY <1>1, <1>2, <1>7 DEF TypeOK
    <2>2. msg \in Msg /\ down[j] \in Seq(Msg) /\ msg.st = st
        BY <1>1, <1>2 DEF Msg, TypeOK
    <2> HIDE DEF msg
    <2>3. /\ Told(j) \subseteq Told(j)'
          /\ j \in member => st \subseteq Told(j)'
          /\ Rejoins(down[j], "joined") => Rejoins(down'[j], "joined")
        <3>1. CASE j \in member
            <4>1. AllStates(down'[j]) = AllStates(down[j]) \cup {st}
                BY <1>2, <1>7, <2>2, <3>1, AllStatesSteps
            <4>2. Rejoins(down[j], "joined") => Rejoins(down'[j], "joined")
                BY <1>2, <1>7, <2>2, <3>1, StillThere
            <4> QED BY <4>1, <4>2 DEF Told
        <3>2. CASE j \notin member
            BY <1>2, <3>2 DEF Told
        <3> QED BY <3>1, <3>2
    <2>4. Mine(j)' = Mine(j) /\ JoinUnderWay(j)' = JoinUnderWay(j)
        BY <1>3, <2>1 DEF Mine, Cast, JoinUnderWay
    <2>5. Rejoining(d) => Rejoining(d)'
        BY <1>3, <2>1, <2>3 DEF Rejoining
    <2>6. work[j].m = "joining" => Slipping(j) \subseteq Slipping(j)' \cup Content(work[j].seen)
        <3>1. work[j].m = "joining" => st \subseteq slipped'[j] \cup Content(work[j].seen)
            BY <1>2
        <3> QED BY <1>5, <3>1 DEF Slipping
    <2>7. j \notin member => down'[j] = down[j]
        BY <1>2
    <2> HIDE DEF IInv, st
    <2> QED BY <1>2, <1>3, <1>5, <2>1, <2>3, <2>4, <2>5, <2>6, <2>7 DEF LinkInv
<1> QED BY <1>6, <1>7

LEMMA ServerRests ==
    ASSUME IInv, CarriedInv, RestInv, ServerNext
    PROVE  RestInv'
<1> PICK k \in Conn : ServerStepOf(k)
    BY DEF ServerNext, ServerStepOf
<1>1. TypeOK /\ SnapInv
    BY DEF IInv, RestInv
<1>2. /\ Content(ops) \subseteq Content(ops') /\ Content(ops') \subseteq Content(ops) \cup Casts'
      /\ ~PushCast(k) => Casts \subseteq Casts' /\ slipped' = slipped
      /\ UNCHANGED clientVars
    BY <1>1, ServerTells
<1>3. \A d \in Client : Connected(d) => Current(d) \in Conn
    BY CurrentIsConn DEF IInv, FreshInv
<1>4. ASSUME NEW j \in Conn, Unused(j) PROVE Unused(j)'
    <2>1. CASE j = k
        BY <1>1, <1>4, <2>1 DEF Unused, ServerStepOf, JoinRead, JoinAnswer, PushAppend, PushCast,
              Snapshot, Hangup, Starts, NoWork, TypeOK
    <2>2. CASE j # k
        <3>1. PushCast(k) => down'[j] = down[j]
            BY <1>4 DEF Unused, PushCast
        <3> QED BY <1>1, <1>4, <2>2, <3>1, ServerFrame DEF Unused
    <2> QED BY <2>1, <2>2
<1>5. UnusedInv'
    BY <1>2, <1>4 DEF RestInv, UnusedInv, clientVars
<1>6. SnapInv'
    <2> SUFFICES ASSUME NEW j \in Conn PROVE SnapOk(up'[j], Content(ops'))
        BY DEF SnapInv
    <2>1. SnapOk(up[j], Content(ops)) /\ up[j] \in Seq(Call)
        BY <1>1 DEF SnapInv, TypeOK
    <2>2. up'[j] = up[j] => SnapOk(up'[j], Content(ops'))
        BY <1>2, <2>1 DEF SnapOk
    <2>3. CASE j = k
        <3>1. \/ up'[j] = up[j] \/ up'[j] = <<>>
              \/ /\ up[j] # <<>> /\ up'[j] = Tail(up[j])
                 /\ Head(up[j]).m = "push" => PushAppend(j)
            BY <1>1, <2>3 DEF ServerStepOf, JoinRead, JoinAnswer, PushAppend, PushCast, Snapshot,
                  Hangup, Starts, Pop, TypeOK
        <3>2. PushAppend(j) => Head(up[j]).st \subseteq Content(ops')
            <4> SUFFICES ASSUME PushAppend(j) PROVE Head(up[j]).st \subseteq Content(ops')
                OBVIOUS
            <4> DEFINE o == [id |-> nextId, st |-> Head(up[j]).st]
            <4>1. o.st = Head(up[j]).st /\ ops' = ops \cup {o}
                BY DEF PushAppend
            <4> HIDE DEF o
            <4> QED BY <4>1, ContentAdded
        <3>3. SnapOk(<<>>, Content(ops'))
            BY DEF SnapOk
        <3> QED BY <1>2, <2>1, <2>2, <3>1, <3>2, <3>3, SnapAfterTail
    <2>4. CASE j # k
        BY <1>1, <2>2, <2>4, ServerFrame
    <2> QED BY <2>3, <2>4
<1>7. ASSUME NEW d \in Client, Connected(d), LinkInv(d) PROVE LinkInv(d)'
    <2> DEFINE j == Current(d)
    <2>1. j \in Conn /\ Live(j)
        BY <1>3, <1>7 DEF Live, Current, Connected
    <2> HIDE DEF j
    <2>2. CASE PushCast(k)
        BY <1>7, <2>1, <2>2, CastLink DEF j
    <2>3. CASE j # k /\ ~PushCast(k)
        BY <1>1, <1>2, <1>7, <2>1, <2>3, ServerFrame, LinkUntouched DEF j
    <2>4. CASE j = k /\ ~PushCast(k)
        <3>1. ~Hangup(k)
            BY <2>1, <2>4 DEF Hangup
        <3> QED BY <1>1, <1>7, <2>1, <2>4, <3>1, JoinReadLink, JoinAnswerLink, CallLink
                DEF j, ServerStepOf
    <2> QED BY <2>2, <2>3, <2>4
<1>8. \A d \in Client : ClientInv(d)'
    BY <1>2, <1>7 DEF RestInv, ClientInv, clientVars, Connected
<1> QED BY <1>5, <1>6, <1>8 DEF RestInv

LEMMA InitRests == Init => RestInv
<1> SUFFICES ASSUME Init PROVE RestInv
    OBVIOUS
<1>1. \A k \in Conn : Unused(k)
    BY DEF Init, Unused
<1>2. SnapInv
    BY DEF Init, SnapInv, SnapOk
<1>3. \A c \in Client : ClientInv(c)
    BY DEF Init, ClientInv, Connected
<1> QED BY <1>1, <1>2, <1>3 DEF RestInv, UnusedInv

LEMMA StutterRests == RestInv /\ UNCHANGED vars => RestInv'
<1> SUFFICES ASSUME RestInv, UNCHANGED vars PROVE RestInv'
    OBVIOUS
<1>1. \A d \in Client : ClientInv(d)'
    <2> SUFFICES ASSUME NEW d \in Client PROVE ClientInv(d)'
        OBVIOUS
    <2> QED BY ClientUntouched DEF RestInv, vars, serverVars
<1>2. UnusedInv' /\ SnapInv'
    BY DEF RestInv, UnusedInv, Unused, SnapInv, vars
<1> QED BY <1>1, <1>2 DEF RestInv

\* What the queues, the journal and a client's loss counter say together: what a
\* client shows is stored, being sent, or counted and to be sent by the flush to
\* come; what is stored it shows, is told, or let slip.
THEOREM LossesAreMadeUpFor ==
    ASSUME ~OpenDuringRejoin, ~RetriesRunOut
    PROVE  Spec => []RestInv
<1>1. Init => RestInv
    BY InitRests
<1>2. IInv /\ CarriedInv /\ RestInv /\ [Next]_vars => RestInv'
    BY ClientRests, ServerRests, StutterRests DEF Next
<1> QED BY <1>1, <1>2, OneJoinPerConnection, NothingInvented, PTL DEF Spec

\* A client at rest after whatever was lost is joined, has everything it shows in
\* the journal, and misses only what slipped by its join (onreconnected:
\* rejoinIndexes, then flush).
THEOREM RestIsSettled ==
    ASSUME ~OpenDuringRejoin, ~RetriesRunOut
    PROVE  Spec => []QuietMeansSettled
<1>1. IInv /\ RestInv => QuietMeansSettled
    <2> SUFFICES ASSUME IInv, RestInv, NEW c \in Client, Quiet(c)
                 PROVE  /\ open[c] => Current(c) \in member
                        /\ doc[c] \subseteq Content(ops)
                        /\ open[c] /\ ~Casting => Content(ops) \ doc[c] \subseteq slipped[Current(c)]
        BY DEF QuietMeansSettled, QuietMeansJoined, QuietMeansSaved, QuietMissesOnlySlipped
    <2> DEFINE k == Current(c)
    <2>1. phase[c] = "on" /\ work[k] = NoWork /\ up[k] = <<>> /\ down[k] = <<>> /\ LinkInv(c)
        BY DEF Quiet, RestInv, ClientInv, Connected
    <2>2. /\ ~JoinUnderWay(k) /\ Pushes(up[k]) = {} /\ ~Rejoining(c) /\ Told(k) = {}
        <3>1. ~JoinUnderWay(k) /\ Pushes(up[k]) = {}
            BY <2>1, NoKinds DEF JoinUnderWay, NoWork, Pushes
        <3>2. ~Rejoining(c)
            BY <2>1 DEF Rejoining, Rejoins, NoWork
        <3>3. Told(k) = {}
            BY <2>1, AllStatesSteps DEF Told
        <3> QED BY <3>1, <3>2, <3>3
    <2>3. ~Casting => Slipping(k) = slipped[k]
        BY DEF Casting, Slipping, Casts, Cast
    <2> QED BY <2>1, <2>2, <2>3 DEF LinkInv
<1> QED BY <1>1, OneJoinPerConnection, LossesAreMadeUpFor, PTL
=============================================================================
