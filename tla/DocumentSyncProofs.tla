------------------------- MODULE DocumentSyncProofs -------------------------
(***************************************************************************)
(* A CRDT document, for any number of clients, connections, edits and ops of *)
(* earlier sessions: the hub and its clients implement the grow-only store,  *)
(* and a client whose transport has kept its connection has saved what it    *)
(* shows, and misses nothing the group was told but what slipped past its    *)
(* join or a compaction deleted.                                             *)
(***************************************************************************)
EXTENDS DocumentSync, HubJournalProofs

\* The clients that have a connection; the answer to their join is to come.
Online == {c \in Client : phase[c] = "on"}
JoinDue(k) == Has(up[k], "join") \/ work[k].m = "joining" \/ Has(down[k], "init")

\* What a client is signing or keeps it shows; what it has said on its connection
\* too; and while the transport has not lost a connection, what it shows is
\* stored, on its way, being signed, or kept until the answer to its join.
ClientInv(c) ==
    LET k == Current(c)
    IN  /\ phase[c] = "closed" => doc[c] = {}
        /\ phase[c] = "retry" => broken[c]
        /\ signing[c] \cup early[c] \subseteq doc[c]
        /\ phase[c] = "starting" => /\ conn[c] < MaxConn
                                    /\ broken[c] \/ doc[c] \subseteq early[c]
        /\ phase[c] = "on" => said[k] \cup Pushes(up[k]) \subseteq doc[c]
        /\ phase[c] = "on" => broken[c] \/
              /\ doc[c] \subseteq Stored \cup Pushes(up[k]) \cup signing[c] \cup early[c]
              /\ early[c] = {} \/ JoinDue(k)
              /\ Hears(k, doc[c])
IInv == TypeOK /\ HubInv /\ \A c \in Client : ClientInv(c)
-----------------------------------------------------------------------------
(* Connections.                                                             *)

LEMMA CurrentFacts ==
    ASSUME TypeOK
    PROVE  /\ \A c \in Online : Current(c) \in Conn /\ Current(c) \in alive
           /\ \A c \in Client : /\ Current(c)[1] = c /\ Current(c)[2] = conn[c]
                                /\ conn[c] \in Nat /\ ~(conn[c] < conn[c])
                                /\ <<c, conn[c] + 1>> # Current(c) /\ conn[c] < conn[c] + 1
           /\ \A c \in Client, d \in Client : c # d => Current(c) # Current(d)
<1>1. \A c \in Online : Current(c) \in Conn /\ Current(c) \in alive
    BY DEF TypeOK, JournalType, Online
<1>2. ASSUME NEW c \in Client
      PROVE  /\ Current(c)[1] = c /\ Current(c)[2] = conn[c]
             /\ conn[c] \in Nat /\ ~(conn[c] < conn[c])
             /\ <<c, conn[c] + 1>> # Current(c) /\ conn[c] < conn[c] + 1
    <2>1. conn[c] \in Nat
        BY JournalBounds DEF TypeOK, JournalType
    <2> QED BY <2>1 DEF Current
<1>3. \A c \in Client, d \in Client : c # d => Current(c) # Current(d)
    BY DEF Current
<1> QED BY <1>1, <1>2, <1>3

\* A client whose connection, document and state are left alone.
Same(d) == /\ phase'[d] = phase[d] /\ doc'[d] = doc[d] /\ signing'[d] = signing[d]
           /\ early'[d] = early[d] /\ broken'[d] = broken[d] /\ conn'[d] = conn[d]
           /\ d \in Online => up'[Current(d)] = up[Current(d)] /\ down'[Current(d)] = down[Current(d)]

LEMMA OtherClient ==
    ASSUME IInv, HubStill, NEW d \in Client, Same(d)
    PROVE  ClientInv(d)'
<1> DEFINE k == Current(d)
<1>1. /\ ClientInv(d) /\ Stored' = Stored /\ said' = said /\ work' = work /\ k' = k
      /\ phase'[d] = phase[d] /\ doc'[d] = doc[d] /\ signing'[d] = signing[d]
      /\ early'[d] = early[d] /\ broken'[d] = broken[d] /\ conn'[d] = conn[d]
    BY HubStillFacts DEF IInv, Same, Current
<1>2. CASE phase[d] # "on"
    BY <1>1, <1>2 DEF ClientInv
<1>3. CASE phase[d] = "on"
    <2>1. k \in Conn /\ up'[k] = up[k] /\ down'[k] = down[k]
        BY <1>3, CurrentFacts DEF IInv, Same, Online
    <2>2. JoinDue(k)' <=> JoinDue(k)
        BY <1>1, <2>1 DEF JoinDue
    <2> HIDE DEF k
    <2>3. Hears(k, doc[d]) => Hears(k, doc[d])'
        BY <1>1, <2>1, HubStillFacts DEF Hears, Coming
    <2>4. Hears(k, doc[d])' => Hears(Current(d), doc[d])'
        BY <1>1 DEF k, Hears
    <2>5. JoinDue(k)' => JoinDue(Current(d))'
        BY <1>1 DEF k, JoinDue
    <2>6. /\ said[k] \cup Pushes(up[k]) \subseteq doc[d]
          /\ signing[d] \cup early[d] \subseteq doc[d]
          /\ broken[d] \/ (/\ doc[d] \subseteq Stored \cup Pushes(up[k]) \cup signing[d] \cup early[d]
                           /\ early[d] = {} \/ JoinDue(k)
                           /\ Hears(k, doc[d]))
        BY <1>1, <1>3 DEF ClientInv, k
    <2>7. Current(d)' = k
        BY <1>1 DEF k
    <2> QED BY <1>1, <1>3, <2>1, <2>2, <2>3, <2>4, <2>5, <2>6, <2>7 DEF ClientInv
<1> QED BY <1>2, <1>3

-----------------------------------------------------------------------------
(* The clients' actions.                                                    *)

\* A client that leaves the connections as they are, if it has one.
LEMMA QuietStep ==
    ASSUME IInv, NEW c \in Client,
           Open(c) \/ StartFails(c) \/ GiveUp(c) \/ \E u \in Update : Edit(c, u)
    PROVE  IInv'
<1>0. TypeOK /\ JournalType /\ HubInv /\ ClientInv(c)
    BY DEF IInv, TypeOK
<1>1. /\ UNCHANGED journalVars /\ HubStill /\ UNCHANGED <<up, down, conn, alive>>
    BY DEF Open, StartFails, GiveUp, Edit, HubStill, journalVars
<1>2. /\ \A d \in Client : d # c => /\ phase'[d] = phase[d] /\ doc'[d] = doc[d]
                                    /\ signing'[d] = signing[d] /\ early'[d] = early[d]
                                    /\ broken'[d] = broken[d]
      /\ Online' = Online
    BY <1>0 DEF TypeOK, Open, StartFails, GiveUp, Edit, Online
<1>3. HubInv' /\ JournalType'
    BY <1>0, <1>1, StutterHub DEF HubInv
<1>4. TypeOK'
    <2>1. alive' = {Current(d)' : d \in Online'}
        BY <1>0, <1>1, <1>2 DEF TypeOK, Online, Current
    <2>2. /\ phase' \in [Client -> {"closed", "starting", "on", "retry", "off"}]
          /\ doc' \in [Client -> SUBSET Update] /\ signing' \in [Client -> SUBSET Update]
          /\ early' \in [Client -> SUBSET Update] /\ broken' \in [Client -> BOOLEAN]
          /\ made' \in SUBSET Update
        <3>1. CASE Open(c) \/ StartFails(c) \/ GiveUp(c)
            BY <1>0, <3>1 DEF TypeOK, Open, StartFails, GiveUp
        <3>2. CASE \E u \in Update : Edit(c, u)
            BY <1>0, <3>2 DEF TypeOK, Edit
        <3> QED BY <3>1, <3>2
    <2> QED BY <1>3, <2>1, <2>2 DEF TypeOK, Online
<1>5. ASSUME NEW d \in Client, d # c PROVE ClientInv(d)'
    BY <1>1, <1>2, <1>5, OtherClient DEF Same
<1>6. ClientInv(c)'
    <2>0. conn' = conn /\ up' = up /\ down' = down /\ Stored' = Stored /\ said' = said /\ work' = work
        BY <1>1, HubStillFacts
    <2>1. CASE Open(c)
        BY <1>0, <2>0, <2>1 DEF Open, ClientInv, TypeOK
    <2>2. CASE StartFails(c) \/ GiveUp(c)
        BY <1>0, <2>0, <2>2 DEF StartFails, GiveUp, ClientInv, TypeOK
    <2>3. CASE \E u \in Update : Edit(c, u)
        <3> PICK u \in Update : Edit(c, u)
            BY <2>3
        <3>1. /\ doc'[c] = doc[c] \cup {u} /\ signing'[c] = signing[c] \cup {u}
              /\ early'[c] = (IF phase[c] = "on" THEN early[c] ELSE early[c] \cup {u})
              /\ phase' = phase /\ broken' = broken /\ phase[c] # "closed"
            BY <1>0 DEF Edit, TypeOK
        <3>2. CASE phase[c] # "on"
            BY <1>0, <2>0, <3>1, <3>2 DEF ClientInv
        <3>3. CASE phase[c] = "on"
            <4> PICK k \in Conn : k = Current(c)
                BY <1>0, <3>3, CurrentFacts DEF Online
            <4>1. Current(c)' = k
                BY <2>0 DEF Current
            <4>2. /\ said[k] \cup Pushes(up[k]) \subseteq doc[c]
                  /\ signing[c] \cup early[c] \subseteq doc[c]
                  /\ broken[c] \/ (/\ doc[c] \subseteq Stored \cup Pushes(up[k]) \cup signing[c] \cup early[c]
                                   /\ early[c] = {} \/ JoinDue(k)
                                   /\ Hears(k, doc[c]))
                BY <1>0, <3>3 DEF ClientInv
            <4>3. Hears(k, doc[c]) => Hears(Current(c), doc[c])'
                <5>1. Coming(k)' = Coming(k)
                    BY <2>0 DEF Coming
                <5>2. \A S : Hears(k, S) => \A T : S \subseteq T => Hears(k, T)'
                    BY <1>1, <5>1, ClientHears
                <5> QED BY <3>1, <4>1, <5>2 DEF Hears
            <4>4. JoinDue(k) => JoinDue(Current(c))'
                BY <2>0, <4>1 DEF JoinDue
            <4> QED BY <2>0, <3>1, <3>3, <4>1, <4>2, <4>3, <4>4 DEF ClientInv
        <3> QED BY <3>2, <3>3
    <2> QED BY <2>1, <2>2, <2>3
<1> QED BY <1>3, <1>4, <1>5, <1>6 DEF IInv

\* The transport is started, and joins, or reconnects, and does not.
LEMMA ConnectStep == ASSUME IInv, NEW c \in Client, Started(c) \/ Reconnect(c) PROVE IInv'
<1>0. TypeOK /\ JournalType /\ HubInv /\ ClientInv(c) /\ phase[c] # "on"
    BY DEF IInv, TypeOK, Started, Reconnect
<1>k. conn[c] \in 0..MaxConn /\ (conn[c] < MaxConn => <<c, conn[c] + 1>> \in Conn)
    BY <1>0, JournalBounds DEF Conn, JournalType
<1>1. conn[c] < MaxConn
    BY <1>0 DEF ClientInv, Started, Reconnect
<1> PICK k \in Conn : k = <<c, conn[c] + 1>>
    BY <1>k, <1>1
<1>2. /\ phase' = [phase EXCEPT ![c] = "on"] /\ conn' = [conn EXCEPT ![c] = @ + 1]
      /\ alive' = alive \cup {k} /\ HubStill
      /\ UNCHANGED <<down, doc, signing, early, broken, made>>
    BY DEF Started, Reconnect, HubStill
<1>3. \/ phase[c] = "starting" /\ up' = [up EXCEPT ![k] = @ \o <<JoinCall>>]
      \/ phase[c] = "retry" /\ up' = up
    BY DEF Started, Reconnect, Send
<1>4. Current(c)' = k /\ Online' = Online \cup {c}
    BY <1>0, <1>2 DEF Current, Online, JournalType, TypeOK
<1>5. \A d \in Client : d # c => Current(d)' = Current(d) /\ Current(d) # k
    BY <1>0, <1>2 DEF Current, JournalType
<1>6. /\ LinkInv(k)' /\ up'[k] \in Seq(Call)
      /\ phase[c] = "starting" => Has(up'[k], "join")
      /\ said[k] = {} /\ Pushes(up'[k]) = {}
    <2>1. conn[c] < conn[c] + 1 /\ ~(conn'[c] < conn[c] + 1)
        BY <1>0, <1>k, <1>2, JournalBounds DEF JournalType
    <2>2. /\ phase[c] = "starting" => up'[k] = up[k] \o <<JoinCall>>
          /\ up'[k] \in {up[k], up[k] \o <<JoinCall>>} /\ down'[k] = down[k] /\ LinkInv(k)
        BY <1>0, <1>2, <1>3 DEF JournalType, HubInv
    <2>3. conn[k[1]] < k[2] /\ ~(conn'[k[1]] < k[2])
        BY <1>k, <2>1
    <2> QED BY <1>0, <1>2, <2>2, <2>3, NewLink
<1>7. TypeOK'
    <2>1. up' \in [Conn -> Seq(Call)]
        BY <1>0, <1>3, <1>6 DEF JournalType
    <2>2. conn' \in [Client -> 0..MaxConn]
        BY <1>0, <1>1, <1>2, JournalBounds DEF JournalType
    <2>3. JournalType'
        BY <1>0, <1>2, <2>1, <2>2, HubStillFacts DEF JournalType
    <2>4. alive' = {Current(d)' : d \in Online'}
        BY <1>0, <1>2, <1>4, <1>5 DEF TypeOK, Online
    <2> QED BY <1>0, <1>2, <2>3, <2>4 DEF TypeOK, Online
<1>8. HubInv'
    <2>1. ASSUME NEW j \in Conn, j # k PROVE LinkInv(j)'
        <3>1. up'[j] = up[j] /\ DownStep(j)
            BY <1>0, <1>2, <1>3, <2>1 DEF JournalType, DownStep
        <3>2. conn'[j[1]] < j[2] => conn[j[1]] < j[2]
            <4>1. j[1] \in Client /\ j[2] \in Nat /\ conn[j[1]] \in Nat
                BY <1>0, JournalBounds DEF Conn, JournalType
            <4> QED BY <1>0, <1>2, <4>1 DEF JournalType
        <3> QED BY <1>0, <1>2, <3>1, <3>2, OtherLinks
    <2>2. \A j \in Conn : LinkInv(j)'
        BY <1>6, <2>1
    <2> QED BY <1>0, <1>2, <1>7, <2>2, HubStillFacts DEF HubInv, TypeOK
<1>9. ASSUME NEW d \in Client, d # c PROVE ClientInv(d)'
    <2>1. d \in Online => up'[Current(d)] = up[Current(d)]
        BY <1>0, <1>3, <1>5, <1>9, CurrentFacts DEF JournalType
    <2>2. Same(d)
        BY <1>0, <1>2, <1>9, <2>1 DEF TypeOK, JournalType, Same
    <2> QED BY <1>2, <2>2, OtherClient
<1>10. ClientInv(c)'
    <2>1. /\ signing[c] \cup early[c] \subseteq doc[c]
          /\ phase[c] = "starting" => broken[c] \/ doc[c] \subseteq early[c]
          /\ phase[c] = "retry" => broken[c]
        BY <1>0 DEF ClientInv
    <2>2. said' = said /\ phase'[c] = "on"
        BY <1>0, <1>2, HubStillFacts DEF TypeOK
    <2>3. phase[c] = "starting" => JoinDue(Current(c))' /\ Hears(Current(c), doc[c])'
        BY <1>4, <1>6 DEF JoinDue, Hears
    <2> QED BY <1>2, <1>3, <1>4, <1>6, <2>1, <2>2, <2>3 DEF ClientInv
<1> QED BY <1>7, <1>8, <1>9, <1>10 DEF IInv

LEMMA DropStep == ASSUME IInv, NEW c \in Client, Drop(c) PROVE IInv'
<1>0. TypeOK /\ JournalType /\ HubInv /\ c \in Online /\ Current(c) \in Conn /\ ClientInv(c)
    BY CurrentFacts DEF IInv, TypeOK, Drop, Online
<1> PICK k \in Conn : k = Current(c)
    BY <1>0
<1>1. /\ phase' = [phase EXCEPT ![c] = "retry"] /\ broken' = [broken EXCEPT ![c] = TRUE]
      /\ alive' = alive \ {k} /\ down' = [down EXCEPT ![k] = <<>>]
      /\ HubStill /\ UNCHANGED <<up, conn, doc, signing, early, made>>
    BY DEF Drop, HubStill
<1>2. Online' = Online \ {c} /\ \A d \in Client : Current(d)' = Current(d)
    BY <1>0, <1>1 DEF Online, Current, TypeOK
<1>3. TypeOK'
    <2>1. <<>> \in Seq(Msg)
        OBVIOUS
    <2>2. JournalType'
        BY <1>0, <1>1, <2>1, HubStillFacts DEF JournalType
    <2>3. alive' = {Current(d)' : d \in Online'}
        BY <1>0, <1>1, <1>2, CurrentFacts DEF TypeOK, Online
    <2> QED BY <1>0, <1>1, <2>2, <2>3 DEF TypeOK, Online
<1>4. HubInv'
    BY <1>0, <1>1, <1>3, LostHub DEF TypeOK, JournalType
<1>5. ASSUME NEW d \in Client, d # c PROVE ClientInv(d)'
    <2>1. d \in Online => down'[Current(d)] = down[Current(d)]
        BY <1>0, <1>1, <1>5, CurrentFacts DEF JournalType
    <2>2. Same(d)
        BY <1>0, <1>1, <1>5, <2>1 DEF TypeOK, Same
    <2> QED BY <1>1, <2>2, OtherClient
<1>6. ClientInv(c)'
    BY <1>0, <1>1 DEF ClientInv, TypeOK
<1> QED BY <1>3, <1>4, <1>5, <1>6 DEF IInv

LEMMA CloseStep == ASSUME IInv, NEW c \in Client, Close(c) PROVE IInv'
<1>0. TypeOK /\ JournalType /\ HubInv
    BY DEF IInv, TypeOK
<1>1. /\ phase' = [phase EXCEPT ![c] = "closed"] /\ doc' = [doc EXCEPT ![c] = {}]
      /\ signing' = [signing EXCEPT ![c] = {}] /\ early' = [early EXCEPT ![c] = {}]
      /\ alive' = {k \in alive : k[1] # c}
      /\ down' = [k \in Conn |-> IF k[1] = c THEN <<>> ELSE down[k]]
      /\ HubStill /\ UNCHANGED <<up, conn, broken, made>>
    BY DEF Close, HubStill
<1>2. Online' = Online \ {c} /\ \A d \in Client : Current(d)' = Current(d)
    BY <1>0, <1>1 DEF Online, Current, TypeOK
<1>3. TypeOK'
    <2>1. <<>> \in Seq(Msg)
        OBVIOUS
    <2>2. JournalType'
        BY <1>0, <1>1, <2>1, HubStillFacts DEF JournalType
    <2>3. alive' = {Current(d)' : d \in Online'}
        BY <1>0, <1>1, <1>2, CurrentFacts DEF TypeOK, Online
    <2> QED BY <1>0, <1>1, <2>2, <2>3 DEF TypeOK, Online
<1>4. HubInv'
    BY <1>0, <1>1, <1>3, LostHub DEF TypeOK, JournalType
<1>5. ASSUME NEW d \in Client, d # c PROVE ClientInv(d)'
    <2>1. d \in Online => down'[Current(d)] = down[Current(d)]
        BY <1>0, <1>1, <1>5, CurrentFacts DEF JournalType
    <2>2. Same(d)
        BY <1>0, <1>1, <1>5, <2>1 DEF TypeOK, Same
    <2> QED BY <1>1, <2>2, OtherClient
<1>6. ClientInv(c)'
    BY <1>0, <1>1 DEF ClientInv, TypeOK
<1> QED BY <1>3, <1>4, <1>5, <1>6 DEF IInv

LEMMA SignedStep == ASSUME IInv, NEW c \in Client, NEW u \in Update, Signed(c, u) PROVE IInv'
<1>0. TypeOK /\ JournalType /\ HubInv /\ ClientInv(c)
    BY DEF IInv, TypeOK
<1>1. /\ u \in signing[c] /\ signing' = [signing EXCEPT ![c] = @ \ {u}]
      /\ HubStill /\ UNCHANGED <<down, conn, alive, phase, doc, early, broken, made>>
    BY DEF Signed, HubStill
<1>2. Online' = Online /\ \A d \in Client : Current(d)' = Current(d)
    BY <1>1 DEF Online, Current
<1>3. alive' = {Current(d)' : d \in Online'}
    BY <1>0, <1>1, <1>2 DEF TypeOK, Online
<1>4. CASE c \notin Online
    <2>1. up' = up /\ phase[c] # "on"
        BY <1>4 DEF Signed, Online
    <2>2. TypeOK'
        <3>1. JournalType'
            BY <1>0, <1>1, <2>1, HubStillFacts DEF JournalType
        <3> QED BY <1>0, <1>1, <1>3, <3>1 DEF TypeOK, Online
    <2>3. HubInv'
        BY <1>0, <1>1, <2>1, <2>2, LostHub DEF TypeOK
    <2>4. ASSUME NEW d \in Client, d # c PROVE ClientInv(d)'
        <3>1. Same(d)
            BY <1>0, <1>1, <2>1, <2>4 DEF TypeOK, Same
        <3> QED BY <1>1, <3>1, OtherClient
    <2>5. ClientInv(c)'
        BY <1>0, <1>1, <2>1 DEF ClientInv, TypeOK
    <2> QED BY <2>2, <2>3, <2>4, <2>5 DEF IInv
<1>5. CASE c \in Online
    <2> PICK k \in Conn : k = Current(c)
        BY <1>0, <1>5, CurrentFacts
    <2>1. up' = [up EXCEPT ![k] = @ \o <<PushCall({u})>>] /\ phase[c] = "on"
        BY <1>5 DEF Signed, Send, Online
    <2>2. /\ {u} \in SUBSET Update /\ PushCall({u}) \in Call /\ up[k] \in Seq(Call)
          /\ LinkInv(k) /\ ~(conn[k[1]] < k[2])
        BY <1>0, CurrentFacts DEF PushCall, Call, JournalType, HubInv
    <2>3. up'[k] = Append(up[k], PushCall({u}))
        BY <1>0, <2>1, <2>2, SendFacts DEF JournalType
    <2>4. /\ LinkInv(k)' /\ up'[k] \in Seq(Call)
          /\ Has(up[k], "join") => Has(up'[k], "join")
          /\ Pushes(up'[k]) = Pushes(up[k]) \cup {u}
        <3>1. down'[k] = down[k] /\ conn' = conn /\ HubStill
            BY <1>1
        <3> QED BY <1>0, <2>2, <2>3, <3>1, PushLink
    <2>5. TypeOK'
        <3>1. up' \in [Conn -> Seq(Call)]
            BY <1>0, <2>1, <2>4 DEF JournalType
        <3>2. JournalType'
            BY <1>0, <1>1, <3>1, HubStillFacts DEF JournalType
        <3> QED BY <1>0, <1>1, <1>3, <3>2 DEF TypeOK, Online
    <2>6. HubInv'
        <3>1. ASSUME NEW j \in Conn, j # k PROVE LinkInv(j)'
            <4>1. up'[j] = up[j] /\ DownStep(j)
                BY <1>0, <1>1, <2>1, <3>1 DEF JournalType, DownStep
            <4> QED BY <1>0, <1>1, <4>1, OtherLinks
        <3>2. \A j \in Conn : LinkInv(j)'
            BY <2>4, <3>1
        <3> QED BY <1>0, <1>1, <2>5, <3>2, HubStillFacts DEF HubInv, TypeOK
    <2>7. ASSUME NEW d \in Client, d # c PROVE ClientInv(d)'
        <3>1. d \in Online => up'[Current(d)] = up[Current(d)]
            BY <1>0, <2>1, <2>7, CurrentFacts DEF JournalType
        <3>2. Same(d)
            BY <1>0, <1>1, <2>7, <3>1 DEF TypeOK, Same
        <3> QED BY <1>1, <3>2, OtherClient
    <2>8. ClientInv(c)'
        <3>1. /\ said[k] \cup Pushes(up[k]) \subseteq doc[c]
              /\ signing[c] \cup early[c] \subseteq doc[c]
              /\ broken[c] \/ (/\ doc[c] \subseteq Stored \cup Pushes(up[k]) \cup signing[c] \cup early[c]
                               /\ early[c] = {} \/ JoinDue(k)
                               /\ Hears(k, doc[c]))
            BY <1>0, <2>1 DEF ClientInv
        <3>2. signing'[c] = signing[c] \ {u} /\ Stored' = Stored /\ said' = said /\ Current(c)' = k
            BY <1>0, <1>1, <1>2, HubStillFacts DEF TypeOK
        <3>3. Hears(k, doc[c]) => Hears(Current(c), doc[c])'
            <4>1. Coming(k)' = Coming(k)
                BY <1>1 DEF Coming
            <4>2. \A S : Hears(k, S) => \A T : S \subseteq T => Hears(k, T)'
                BY <1>1, <2>4, <4>1, ClientHears
            <4> QED BY <1>1, <3>2, <4>2 DEF Hears
        <3>4. JoinDue(k) => JoinDue(Current(c))'
            BY <1>1, <2>4, <3>2, HubStillFacts DEF JoinDue
        <3> QED BY <1>1, <2>1, <2>4, <3>1, <3>2, <3>3, <3>4 DEF ClientInv
    <2> QED BY <2>5, <2>6, <2>7, <2>8 DEF IInv
<1> QED BY <1>4, <1>5

LEMMA ReceiveStep == ASSUME IInv, NEW c \in Client, Receive(c) PROVE IInv'
<1>0. TypeOK /\ JournalType /\ HubInv /\ c \in Online /\ Current(c) \in Conn /\ down[Current(c)] # <<>>
    BY CurrentFacts DEF IInv, TypeOK, Receive, Online
<1> PICK k \in Conn : k = Current(c)
    BY <1>0
<1> DEFINE msg == Head(down[k])
<1>1. /\ msg.st \subseteq Stored /\ msg.st \in SUBSET Update /\ doc[c] \in SUBSET Update
      /\ signing[c] \in SUBSET Update /\ early[c] \in SUBSET Update
    BY <1>0, ReceivedStored DEF TypeOK
<1> PICK D \in SUBSET Update : D = doc[c] \cup msg.st
    BY <1>1
<1>2. PICK snaps \in {<<>>, <<SnapCall(D)>>} :
         snaps = (IF msg.m = "init" /\ msg.long THEN <<SnapCall(D)>> ELSE <<>>)
    OBVIOUS
<1>3. PICK sign \in SUBSET Update, kept \in SUBSET Update :
         /\ sign = IF msg.m = "init" THEN signing[c] \cup early[c] ELSE signing[c]
         /\ kept = IF msg.m = "init" THEN {} ELSE early[c]
    BY <1>1
<1>4. /\ down' = [down EXCEPT ![k] = Tail(@)] /\ doc' = [doc EXCEPT ![c] = D]
      /\ up' = [up EXCEPT ![k] = @ \o snaps]
      /\ HubStill /\ UNCHANGED <<conn, alive, phase, broken, made>>
    BY <1>2 DEF Receive, Send, HubStill
<1>5. signing' = [signing EXCEPT ![c] = sign] /\ early' = [early EXCEPT ![c] = kept]
    BY <1>0, <1>3 DEF Receive, TypeOK
<1>6. /\ said[k] \cup Pushes(up[k]) \subseteq doc[c]
      /\ signing[c] \cup early[c] \subseteq doc[c]
      /\ broken[c] \/ (/\ doc[c] \subseteq Stored \cup Pushes(up[k]) \cup signing[c] \cup early[c]
                       /\ early[c] = {} \/ JoinDue(k)
                       /\ Hears(k, doc[c]))
    BY <1>0 DEF IInv, ClientInv, Online
<1>7. /\ LinkInv(k)' /\ up'[k] \in Seq(Call)
      /\ Has(up[k], "join") => Has(up'[k], "join")
      /\ Pushes(up'[k]) \subseteq D
      /\ Pushes(up[k]) \subseteq Pushes(up'[k])
    <2>1. LinkInv(k) /\ ~(conn[k[1]] < k[2])
        BY <1>0, CurrentFacts DEF HubInv
    <2>2. JournalType /\ HubStill /\ conn' = conn
        BY <1>0, <1>4
    <2>3. msg.st \subseteq D /\ said[k] \cup Pushes(up[k]) \subseteq D
        BY <1>6
    <2>4. down[k] # <<>> /\ down'[k] = Tail(down[k])
        BY <1>0, <1>4 DEF JournalType
    <2>5. up'[k] = up[k] \o (snaps \o <<>>)
        <3>1. up'[k] = up[k] \o snaps
            BY <1>0, <1>4 DEF JournalType
        <3>2. snaps \o <<>> = snaps
            <4> DEFINE s == SnapCall(D)
            <4>1. <<s>> \o <<>> = <<s>> /\ <<>> \o <<>> = <<>>
                <5> HIDE DEF s
                <5> QED OBVIOUS
            <4> QED BY <1>2, <4>1
        <3> QED BY <3>1, <3>2
    <2>6. snaps # <<>> => msg.m = "init"
        BY <1>2
    <2>7. Received(k, D, snaps, <<>>)
        BY <2>3, <2>4, <2>5, <2>6 DEF Received
    <2>8. LinkInv(k)' /\ SaysAfter(k, D, <<>>)
        BY <2>1, <2>2, <2>7, ReceiveLink, Zenon
    <2> QED BY <2>8 DEF SaysAfter
<1> HIDE DEF msg
<1>8. Online' = Online /\ \A d \in Client : Current(d)' = Current(d)
    BY <1>4 DEF Online, Current
<1>9. TypeOK'
    <2>1. up' \in [Conn -> Seq(Call)]
        BY <1>0, <1>4, <1>7 DEF JournalType
    <2>2. down' \in [Conn -> Seq(Msg)]
        BY <1>0, <1>4, MsgReceived DEF JournalType
    <2>3. JournalType'
        BY <1>0, <1>4, <2>1, <2>2, HubStillFacts DEF JournalType
    <2>4. alive' = {Current(d)' : d \in Online'}
        BY <1>0, <1>4, <1>8 DEF TypeOK, Online
    <2> QED BY <1>0, <1>4, <1>5, <2>3, <2>4 DEF TypeOK, Online
<1>10. HubInv'
    <2>1. ASSUME NEW j \in Conn, j # k PROVE LinkInv(j)'
        <3>1. up'[j] = up[j] /\ DownStep(j)
            BY <1>0, <1>4, <2>1 DEF JournalType, DownStep
        <3> QED BY <1>0, <1>4, <3>1, OtherLinks
    <2>2. \A j \in Conn : LinkInv(j)'
        BY <1>7, <2>1
    <2> QED BY <1>0, <1>4, <1>9, <2>2, HubStillFacts DEF HubInv, TypeOK
<1>11. ASSUME NEW d \in Client, d # c PROVE ClientInv(d)'
    <2>1. d \in Online => up'[Current(d)] = up[Current(d)] /\ down'[Current(d)] = down[Current(d)]
        BY <1>0, <1>4, <1>11, CurrentFacts DEF JournalType
    <2>2. Same(d)
        BY <1>0, <1>4, <1>5, <1>11, <2>1 DEF TypeOK, Same
    <2> QED BY <1>4, <2>2, OtherClient
<1>12. ClientInv(c)'
    <2>1. /\ doc'[c] = D /\ signing'[c] = sign /\ early'[c] = kept /\ broken' = broken
          /\ Stored' = Stored /\ said' = said /\ work' = work /\ doc[c] \subseteq D
        BY <1>0, <1>4, <1>5, HubStillFacts DEF TypeOK
    <2>2. Coming(k) \subseteq D \cup Coming(k)'
        BY <1>0, <1>4, ComingReceived DEF JournalType, msg
    <2>3. Current(c)' = k /\ phase'[c] = "on"
        BY <1>0, <1>4, <1>8 DEF Online
    <2>4. Hears(k, doc[c]) => Hears(Current(c), doc[c])'
        <3>1. Hears(k, doc[c]) => Hears(k, D)'
            BY <1>4, <1>7, <2>1, <2>2, ClientHears
        <3> QED BY <2>1, <2>3, <3>1 DEF Hears
    <2>5. msg.m # "init" /\ JoinDue(k) => JoinDue(Current(c))'
        <3>1. msg.m # "init" /\ Has(down[k], "init") => Has(down'[k], "init")
            BY <1>0, <1>4, KindStays DEF JournalType, msg
        <3> QED BY <1>7, <2>1, <2>3, <3>1 DEF JoinDue
    <2>6. sign \cup kept \subseteq D /\ signing[c] \cup early[c] = sign \cup kept
        BY <1>3, <1>6, <2>1
    <2>7. kept # {} => msg.m # "init" /\ early[c] # {}
        BY <1>3
    <2>8. said'[k] \cup Pushes(up'[k]) \subseteq doc'[c]
        BY <1>6, <1>7, <2>1
    <2>9. broken'[c] \/ doc'[c] \subseteq Stored' \cup Pushes(up'[k]) \cup signing'[c] \cup early'[c]
        BY <1>1, <1>6, <1>7, <2>1, <2>6
    <2> QED BY <1>6, <2>1, <2>3, <2>4, <2>5, <2>6, <2>7, <2>8, <2>9 DEF ClientInv
<1> QED BY <1>9, <1>10, <1>11, <1>12 DEF IInv

\* The answer to a join that is due stays due while the hub works.
LEMMA DueStays ==
    ASSUME HubInv, NEW j \in Conn, ServerOf(j), NEW k \in Conn, k \in alive, JoinDue(k)
    PROVE  JoinDue(k)'
<1>1. JournalType /\ LinkInv(k) /\ up[k] \in Seq(Call) /\ down[k] \in Seq(Msg)
    BY DEF HubInv, JournalType
<1>2. down'[k] # down[k] => \E e \in Msg : /\ down'[k] = Append(down[k], e)
                                           /\ work[k].m = "joining" /\ j = k => e.m = "init"
    <2>1. CASE PushCast(j)
        <3>1. work[j] \in Work /\ work[j].m = "casting"
            BY <1>1, <2>1 DEF PushCast, JournalType
        <3>2. [m |-> "op", st |-> work[j].st] \in Msg
            BY <3>1, WorkFields DEF Msg
        <3> QED BY <1>1, <2>1, <3>1, <3>2 DEF PushCast, JournalType
    <2>2. CASE JoinAnswer(j)
        <3> DEFINE init == [m |-> "init", st |-> Content(work[j].seen),
                            long |-> Len(work[j].seen) > CompactThreshold]
        <3>1. work[j] \in Work /\ work[j].m = "joining"
            BY <1>1, <2>2 DEF JoinAnswer, JournalType
        <3>2. init \in Msg /\ init.m = "init"
            BY <3>1, WorkFields, ContentFacts DEF Msg
        <3>3. down'[k] \in {down[k], Append(down[k], init)}
            BY <1>1, <2>2 DEF JoinAnswer, JournalType
        <3> HIDE DEF init
        <3> QED BY <3>2, <3>3
    <2>3. CASE ~PushCast(j) /\ ~JoinAnswer(j)
        <3>1. down'[k] = down[k]
            BY <2>3 DEF ServerOf, JoinRead, PushAppend, Snapshot, Hangup
        <3> QED BY <3>1
    <2> QED BY <2>1, <2>2, <2>3
<1>3. Has(down[k], "init") => Has(down'[k], "init")
    BY <1>1, <1>2, KindStays
<1>4. CASE j # k
    BY <1>3, <1>4, ServerElsewhere DEF JoinDue
<1>5. CASE j = k /\ JoinRead(k)
    <2>1. work'[k].m = "joining"
        BY <1>1, <1>5 DEF JoinRead, JournalType
    <2> QED BY <2>1 DEF JoinDue
<1>6. CASE j = k /\ JoinAnswer(k)
    <2> DEFINE init == [m |-> "init", st |-> Content(work[k].seen),
                        long |-> Len(work[k].seen) > CompactThreshold]
    <2>1. init \in Msg /\ init.m = "init"
        <3>1. work[k] \in Work /\ work[k].m = "joining"
            BY <1>1, <1>6 DEF JoinAnswer, JournalType
        <3> QED BY <3>1, WorkFields, ContentFacts DEF Msg
    <2>2. down'[k] = Append(down[k], init)
        BY <1>1, <1>6 DEF JoinAnswer, JournalType
    <2> HIDE DEF init
    <2>3. Has(down'[k], "init")
        <3>1. \A s \in Seq(Msg) : \A e \in Msg : e.m = "init" => Has(Append(s, e), "init")
            BY DEF Has
        <3> QED BY <1>1, <2>1, <2>2, <3>1
    <2> QED BY <2>3 DEF JoinDue
<1>7. CASE j = k /\ (PushAppend(k) \/ Snapshot(k))
    <2>1. up[k] # <<>> /\ Head(up[k]).m # "join" /\ up'[k] = Tail(up[k]) /\ work[k] = NoWork
        BY <1>1, <1>7 DEF PushAppend, Snapshot, Starts, Pop, JournalType
    <2>2. Has(up[k], "join") => Has(up'[k], "join")
        BY <1>1, <2>1, KindStays
    <2> QED BY <1>3, <2>1, <2>2 DEF JoinDue, NoWork
<1>8. CASE j = k /\ PushCast(k)
    <2>1. up' = up /\ work[k].m = "casting"
        BY <1>8 DEF PushCast
    <2> QED BY <1>3, <2>1 DEF JoinDue
<1> QED BY <1>4, <1>5, <1>6, <1>7, <1>8 DEF ServerOf, Hangup

LEMMA ServerStep == ASSUME IInv, NEW j \in Conn, Server(j) PROVE IInv'
<1>1. /\ TypeOK /\ HubInv /\ ServerOf(j)
      /\ UNCHANGED <<phase, doc, signing, early, broken, made, conn, alive>>
    BY DEF IInv, Server, ServerOf, docVars, JoinRead, JoinAnswer, PushAppend, PushCast,
           Snapshot, Hangup
<1>2. HubInv' /\ Stored \subseteq Stored'
    BY <1>1, ServerInv, ServerStores DEF HubInv
<1>3. Online' = Online /\ \A d \in Client : Current(d)' = Current(d)
    BY <1>1 DEF Online, Current
<1>4. TypeOK'
    <2>1. alive' = {Current(d)' : d \in Online'}
        BY <1>1, <1>3 DEF TypeOK, Online
    <2> QED BY <1>1, <1>2, <2>1 DEF TypeOK, HubInv, Online
<1>5. ASSUME NEW c \in Client, c \notin Online PROVE ClientInv(c)'
    BY <1>1, <1>5 DEF IInv, ClientInv, Online
<1>6. ASSUME NEW c \in Client, c \in Online PROVE ClientInv(c)'
    <2> PICK k \in Conn : k = Current(c) /\ k \in alive
        BY <1>1, <1>6, CurrentFacts
    <2>1. /\ said[k] \cup Pushes(up[k]) \subseteq doc[c]
          /\ signing[c] \cup early[c] \subseteq doc[c] /\ phase[c] = "on"
          /\ broken[c] \/ (/\ doc[c] \subseteq Stored \cup Pushes(up[k]) \cup signing[c] \cup early[c]
                           /\ early[c] = {} \/ JoinDue(k)
                           /\ Hears(k, doc[c]))
        BY <1>6 DEF IInv, ClientInv, Online
    <2>2. /\ said'[k] \cup Pushes(up'[k]) \subseteq said[k] \cup Pushes(up[k])
          /\ Stored \cup Pushes(up[k]) \subseteq Stored' \cup Pushes(up'[k])
        BY <1>1, ServerSays
    <2>3. Current(c)' = k
        BY <1>3
    <2>4. Hears(k, doc[c]) => Hears(Current(c), doc[c])'
        <3>1. \A S : said[k] \subseteq S /\ Hears(k, S) => Hears(k, S)'
            BY <1>1, ServerHears
        <3> QED BY <1>1, <2>1, <2>3, <3>1 DEF Hears
    <2>5. JoinDue(k) => JoinDue(Current(c))'
        BY <1>1, <2>3, DueStays DEF JoinDue
    <2> QED BY <1>1, <2>1, <2>2, <2>3, <2>4, <2>5 DEF ClientInv
<1> QED BY <1>2, <1>4, <1>5, <1>6 DEF IInv

LEMMA InitInv == Init => IInv
<1> SUFFICES ASSUME Init PROVE IInv
    OBVIOUS
<1>1. HubInv
    BY InitHub DEF Init
<1>2. Online = {} /\ alive = {}
    BY DEF Init, JournalInit, Online
<1>3. TypeOK
    BY <1>1, <1>2, SeedAssumption DEF Init, TypeOK, HubInv, Online
<1>4. \A c \in Client : ClientInv(c)
    BY DEF Init, ClientInv
<1> QED BY <1>1, <1>3, <1>4 DEF IInv

LEMMA StutterInv == IInv /\ UNCHANGED vars => IInv'
<1> SUFFICES ASSUME IInv, UNCHANGED vars PROVE IInv'
    OBVIOUS
<1>1. UNCHANGED journalVars /\ UNCHANGED <<phase, doc, signing, early, broken, made>>
    BY DEF vars
<1>2. HubInv' /\ HubStill /\ UNCHANGED <<up, down, conn, alive>>
    BY <1>1, StutterHub DEF IInv, journalVars, HubStill
<1>3. TypeOK'
    <2>1. alive' = {Current(d)' : d \in Online'}
        BY <1>1, <1>2 DEF IInv, TypeOK, Online, Current
    <2> QED BY <1>1, <1>2, <2>1 DEF IInv, TypeOK, HubInv, Online
<1>4. \A d \in Client : ClientInv(d)'
    BY <1>1, <1>2, OtherClient DEF Same
<1> QED BY <1>2, <1>3, <1>4 DEF IInv

LEMMA NextInv == ASSUME IInv, [Next]_vars PROVE IInv'
<1>1. CASE UNCHANGED vars
    BY <1>1, StutterInv
<1>2. ASSUME NEW c \in Client,
             \/ Open(c) \/ Started(c) \/ StartFails(c) \/ Drop(c) \/ Reconnect(c) \/ GiveUp(c)
             \/ Receive(c) \/ Close(c)
             \/ \E u \in Update : Edit(c, u) \/ Signed(c, u)
      PROVE  IInv'
    <2>1. CASE Open(c) \/ StartFails(c) \/ GiveUp(c) \/ \E u \in Update : Edit(c, u)
        BY <2>1, QuietStep
    <2>2. CASE Started(c) \/ Reconnect(c)
        BY <2>2, ConnectStep
    <2>3. CASE \E u \in Update : Signed(c, u)
        BY <2>3, SignedStep
    <2> QED BY <1>2, <2>1, <2>2, <2>3, DropStep, ReceiveStep, CloseStep
<1>3. CASE \E k \in Conn : Server(k)
    BY <1>3, ServerStep
<1> QED BY <1>1, <1>2, <1>3 DEF Next

-----------------------------------------------------------------------------
(* What the hub and its clients know of has been made by someone.           *)

Called(k) == UNION (States(up[k], "push") \cup States(up[k], "snap"))
MadeInv == /\ Stored \subseteq made
           /\ \A c \in Client : doc[c] \subseteq made
           /\ \A k \in Conn : Called(k) \subseteq made

\* One call more, or one call less.
LEMMA CalledSteps ==
    ASSUME JournalType, NEW k \in Conn
    PROVE  /\ up'[k] = up[k] \/ up'[k] = <<>> => Called(k)' \subseteq Called(k)
           /\ up[k] # <<>> /\ up'[k] = Tail(up[k]) => Called(k)' \subseteq Called(k)
           /\ \A e \in Call : up'[k] = Append(up[k], e) =>
                 /\ Called(k)' \subseteq Called(k) \cup e.st
                 /\ e.m = "join" => Called(k)' \subseteq Called(k)
           /\ up[k] # <<>> /\ Head(up[k]).m \in {"push", "snap"} => Head(up[k]).st \subseteq Called(k)
<1>1. up[k] \in Seq(Call)
    BY DEF JournalType
<1>2. ASSUME up'[k] = up[k] \/ up'[k] = <<>> PROVE Called(k)' \subseteq Called(k)
    BY <1>2, NoKinds DEF Called
<1>3. ASSUME up[k] # <<>>, up'[k] = Tail(up[k]) PROVE Called(k)' \subseteq Called(k)
    <2>1. \A m : States(up'[k], m) \subseteq States(up[k], m)
        BY <1>1, <1>3, KindsAfterTail
    <2> QED BY <2>1 DEF Called
<1>4. ASSUME NEW e \in Call, up'[k] = Append(up[k], e)
      PROVE  /\ Called(k)' \subseteq Called(k) \cup e.st
             /\ e.m = "join" => Called(k)' \subseteq Called(k)
    <2>1. ASSUME NEW m
          PROVE  /\ States(up'[k], m) \subseteq States(up[k], m) \cup {e.st}
                 /\ e.m # m => States(up'[k], m) \subseteq States(up[k], m)
        BY <1>1, <1>4, KindsAfterAppend
    <2>2. /\ States(up'[k], "push") \subseteq States(up[k], "push") \cup {e.st}
          /\ States(up'[k], "snap") \subseteq States(up[k], "snap") \cup {e.st}
        BY <2>1
    <2>3. ASSUME e.m = "join"
          PROVE  /\ States(up'[k], "push") \subseteq States(up[k], "push")
                 /\ States(up'[k], "snap") \subseteq States(up[k], "snap")
        BY <2>1, <2>3
    <2>4. Called(k)' \subseteq Called(k) \cup e.st
        <3>1. Called(k)' = UNION (States(up'[k], "push") \cup States(up'[k], "snap"))
            BY DEF Called
        <3> QED BY <2>2, <3>1 DEF Called
    <2> QED BY <2>3, <2>4 DEF Called
<1>5. ASSUME up[k] # <<>>, Head(up[k]).m \in {"push", "snap"} PROVE Head(up[k]).st \subseteq Called(k)
    <2>1. Head(up[k]).st \in States(up[k], Head(up[k]).m)
        BY <1>1, <1>5, KindsAfterTail
    <2> QED BY <1>5, <2>1 DEF Called
<1> QED BY <1>2, <1>3, <1>4, <1>5

\* A client's action that leaves the hub's half alone, and changes the queue of
\* calls of one connection at most.
LEMMA MadeKept ==
    ASSUME JournalType, MadeInv, HubStill, made \subseteq made',
           \A d \in Client : doc'[d] \subseteq made',
           up' = up \/ \E k \in Conn : /\ \A j \in Conn : j # k => up'[j] = up[j]
                                       /\ Called(k)' \subseteq Called(k) \cup made'
    PROVE  MadeInv'
<1>1. \A k \in Conn : Called(k)' \subseteq Called(k) \cup made'
    BY CalledSteps
<1> QED BY <1>1, HubStillFacts DEF MadeInv

\* What a step of a client is to the store: an edit, a lesson, a loss of memory.
LEMMA ClientStores ==
    ASSUME IInv, MadeInv, NEW c \in Client,
           \/ Open(c) \/ Started(c) \/ StartFails(c) \/ Drop(c) \/ Reconnect(c) \/ GiveUp(c)
           \/ Receive(c) \/ Close(c)
           \/ \E u \in Update : Edit(c, u) \/ Signed(c, u)
    PROVE  MadeInv' /\ (Store!Next \/ UNCHANGED Store!vars)
<1>0. TypeOK /\ JournalType /\ HubInv /\ ClientInv(c)
    BY DEF IInv, TypeOK
<1>1. HubStill /\ Stored' = Stored
    <2>1. HubStill
        BY DEF Open, Started, StartFails, Drop, Reconnect, GiveUp, Receive, Close, Edit, Signed,
               HubStill, journalVars
    <2> QED BY <2>1, HubStillFacts
<1>2. CASE Open(c) \/ StartFails(c) \/ Drop(c) \/ Reconnect(c) \/ GiveUp(c)
    <2>1. UNCHANGED <<up, doc, made>>
        BY <1>2 DEF Open, StartFails, Drop, Reconnect, GiveUp, journalVars
    <2>2. MadeInv'
        BY <1>0, <1>1, <2>1, MadeKept DEF MadeInv
    <2> QED BY <1>1, <2>1, <2>2 DEF Store!vars
<1>3. CASE Started(c)
    <2>0. conn[c] < MaxConn /\ conn[c] \in 0..MaxConn
        BY <1>0, <1>3 DEF ClientInv, Started, JournalType
    <2>k. <<c, conn[c] + 1>> \in Conn
        BY <2>0, JournalBounds DEF Conn
    <2> PICK k \in Conn : k = <<c, conn[c] + 1>>
        BY <2>k
    <2>1. up' = [up EXCEPT ![k] = @ \o <<JoinCall>>] /\ UNCHANGED <<doc, made>>
        BY <1>3 DEF Started, Send
    <2>2. up[k] \in Seq(Call) /\ JoinCall \in Call /\ JoinCall.m = "join"
        BY <1>0 DEF JournalType, JoinCall, Call
    <2>3. up'[k] = Append(up[k], JoinCall) /\ \A j \in Conn : j # k => up'[j] = up[j]
        BY <1>0, <2>1, <2>2, SendFacts DEF JournalType
    <2>4. Called(k)' \subseteq Called(k)
        BY <1>0, <2>2, <2>3, CalledSteps
    <2>5. MadeInv'
        BY <1>0, <1>1, <2>1, <2>3, <2>4, MadeKept DEF MadeInv
    <2> QED BY <1>1, <2>1, <2>5 DEF Store!vars
<1>4. CASE Receive(c)
    <2>0. c \in Online /\ Current(c) \in Conn /\ down[Current(c)] # <<>>
        BY <1>0, <1>4, CurrentFacts DEF Receive, Online
    <2> PICK k \in Conn : k = Current(c)
        BY <2>0
    <2> PICK S \in SUBSET Stored : S = Head(down[k]).st /\ S \in SUBSET Update
        BY <1>0, <2>0, ReceivedStored
    <2> PICK D \in SUBSET Update : D = doc[c] \cup S
        BY <1>0 DEF TypeOK
    <2>1. /\ doc' = [doc EXCEPT ![c] = @ \cup S] /\ doc'[c] = D /\ made' = made
          /\ up' = up \/ up' = [up EXCEPT ![k] = @ \o <<>>] \/ up' = [up EXCEPT ![k] = @ \o <<SnapCall(D)>>]
        BY <1>0, <1>4 DEF Receive, Send, TypeOK
    <2>2. up[k] \in Seq(Call) /\ SnapCall(D) \in Call /\ SnapCall(D).st = D
        BY <1>0 DEF JournalType, SnapCall, Call
    <2>3. /\ up'[k] = up[k] \/ up'[k] = Append(up[k], SnapCall(D))
          /\ \A j \in Conn : j # k => up'[j] = up[j]
        <3> DEFINE s == SnapCall(D)
        <3>1. up[k] \o <<>> = up[k] /\ up[k] \o <<s>> = Append(up[k], s)
            BY <2>2, SendFacts
        <3> HIDE DEF s
        <3>2. up' = up \/ up' = [up EXCEPT ![k] = @ \o <<>>] \/ up' = [up EXCEPT ![k] = @ \o <<s>>]
            BY <2>1 DEF s
        <3>3. up'[k] = up[k] \/ up'[k] = up[k] \o <<>> \/ up'[k] = up[k] \o <<s>>
            BY <1>0, <3>2 DEF JournalType
        <3>4. \A j \in Conn : j # k => up'[j] = up[j]
            BY <1>0, <3>2 DEF JournalType
        <3> QED BY <3>1, <3>3, <3>4 DEF s
    <2>4. Called(k)' \subseteq Called(k) \cup D
        BY <1>0, <2>2, <2>3, CalledSteps
    <2>5. D \subseteq made /\ \A d \in Client : doc'[d] \subseteq made
        BY <1>0, <2>1 DEF MadeInv, TypeOK
    <2>6. MadeInv'
        BY <1>0, <1>1, <2>1, <2>3, <2>4, <2>5, MadeKept
    <2>7. Store!Learn(c, S)
        BY <1>1, <2>1 DEF Store!Learn
    <2> QED BY <2>6, <2>7 DEF Store!Next
<1>5. CASE Close(c)
    <2>1. up' = up /\ made' = made /\ doc' = [doc EXCEPT ![c] = {}]
        BY <1>5 DEF Close
    <2>2. \A d \in Client : doc'[d] \subseteq made'
        BY <1>0, <2>1 DEF MadeInv, TypeOK
    <2>3. MadeInv'
        BY <1>0, <1>1, <2>1, <2>2, MadeKept
    <2>4. Store!Forget(c)
        BY <1>1, <2>1 DEF Store!Forget
    <2> QED BY <2>3, <2>4 DEF Store!Next
<1>6. ASSUME NEW u \in Update, Edit(c, u) PROVE MadeInv' /\ Store!Next
    <2>1. up' = up /\ u \notin made /\ made' = made \cup {u} /\ doc' = [doc EXCEPT ![c] = @ \cup {u}]
        BY <1>6 DEF Edit, journalVars
    <2>2. \A d \in Client : doc'[d] \subseteq made'
        BY <1>0, <2>1 DEF MadeInv, TypeOK
    <2>3. MadeInv'
        BY <1>0, <1>1, <2>1, <2>2, MadeKept
    <2>4. Store!Edit(c, u)
        BY <1>1, <2>1 DEF Store!Edit
    <2> QED BY <2>3, <2>4 DEF Store!Next
<1>7. ASSUME NEW u \in Update, Signed(c, u) PROVE MadeInv' /\ UNCHANGED Store!vars
    <2>1. made' = made /\ doc' = doc /\ u \in signing[c]
        BY <1>7 DEF Signed
    <2>2. u \in made /\ \A d \in Client : doc'[d] \subseteq made'
        BY <1>0, <2>1 DEF ClientInv, MadeInv
    <2>3. CASE phase[c] # "on"
        <3>1. up' = up
            BY <1>7, <2>3 DEF Signed
        <3> QED BY <1>0, <1>1, <2>1, <2>2, <3>1, MadeKept DEF Store!vars
    <2>4. CASE phase[c] = "on"
        <3> PICK k \in Conn : k = Current(c)
            BY <1>0, <2>4, CurrentFacts DEF Online
        <3>1. up' = [up EXCEPT ![k] = @ \o <<PushCall({u})>>]
            BY <1>7, <2>4 DEF Signed, Send
        <3>2. up[k] \in Seq(Call) /\ PushCall({u}) \in Call /\ PushCall({u}).st = {u}
            BY <1>0 DEF JournalType, PushCall, Call
        <3>3. up'[k] = Append(up[k], PushCall({u})) /\ \A j \in Conn : j # k => up'[j] = up[j]
            BY <1>0, <3>1, <3>2, SendFacts DEF JournalType
        <3>4. Called(k)' \subseteq Called(k) \cup {u}
            BY <1>0, <3>2, <3>3, CalledSteps
        <3>5. MadeInv'
            BY <1>0, <1>1, <2>1, <2>2, <3>3, <3>4, MadeKept
        <3> QED BY <1>1, <2>1, <3>5 DEF Store!vars
    <2> QED BY <2>3, <2>4
<1> QED BY <1>2, <1>3, <1>4, <1>5, <1>6, <1>7

\* What a step of the hub is to the store: it takes in what a call carries.
LEMMA HubStores ==
    ASSUME IInv, MadeInv, NEW j \in Conn, Server(j)
    PROVE  MadeInv' /\ (Store!Next \/ UNCHANGED Store!vars)
<1>1. JournalType /\ ServerOf(j) /\ UNCHANGED <<doc, made>>
    BY DEF IInv, TypeOK, Server, ServerOf, docVars
<1>2. Stored \subseteq Stored' /\ Stored' \subseteq Stored \cup Called(j)
    <2>1. CASE PushAppend(j)
        <3>1. up[j] # <<>> /\ Head(up[j]).m = "push" /\ cut' = cut
            BY <2>1 DEF PushAppend, Starts
        <3> QED BY <1>1, <2>1, <3>1, ServerStores, CalledSteps DEF Stored
    <2>2. CASE Snapshot(j)
        <3>1. /\ up[j] # <<>> /\ Head(up[j]).m = "snap"
              /\ cut' = cut \cup (Content(journal) \ Head(up[j]).st)
            BY <2>2 DEF Snapshot, Starts
        <3> QED BY <1>1, <2>2, <3>1, ServerStores, CalledSteps DEF Stored
    <2>3. CASE ~PushAppend(j) /\ ~Snapshot(j)
        BY <1>1, <2>3 DEF ServerOf, JoinRead, JoinAnswer, PushCast, Hangup, Stored, history
    <2> QED BY <2>1, <2>2, <2>3
<1>3. \A k \in Conn : Called(k)' \subseteq Called(k)
    <2>1. ASSUME NEW k \in Conn, k # j PROVE Called(k)' \subseteq Called(k)
        BY <1>1, <2>1, ServerElsewhere, CalledSteps DEF IInv
    <2>2. \/ up'[j] = up[j] \/ up'[j] = <<>>
          \/ up[j] # <<>> /\ up'[j] = Tail(up[j])
        BY <1>1 DEF ServerOf, JoinRead, JoinAnswer, PushAppend, PushCast, Snapshot, Hangup, Starts, Pop,
                    JournalType
    <2>3. Called(j)' \subseteq Called(j)
        BY <1>1, <2>2, CalledSteps
    <2> QED BY <2>1, <2>3
<1>4. MadeInv'
    BY <1>1, <1>2, <1>3 DEF MadeInv
<1>5. Store!Store(Stored') /\ Stored' \in SUBSET made
    BY <1>1, <1>2, <1>4 DEF Store!Store, MadeInv
<1> QED BY <1>4, <1>5 DEF Store!Next

-----------------------------------------------------------------------------
(* The theorems.                                                            *)

\* What a connection is told and says, and what a client shows, signs and keeps,
\* agree with the journal: the inductive invariant the properties below rest on.
THEOREM DocumentInvariant == Spec => []IInv
<1> QED BY InitInv, NextInv, PTL DEF Spec

\* The document's state is well-typed; the hub's live connections are those of
\* the transports that have one.
THEOREM TypeCorrect == Spec => []TypeOK
<1>1. IInv => TypeOK
    BY DEF IInv
<1> QED BY <1>1, DocumentInvariant, PTL

\* SnapshotDocument deletes every op of the journal, and still never what its
\* author was sent by InitDocument or has pushed: pushSnapshot follows the merge.
THEOREM CompactionKeeps == Spec => CompactionKeepsKnown
<1>1. ASSUME IInv
      PROVE  \A k \in Conn : Snapshot(k) => Known(k) \cap Content(journal) \subseteq Content(journal')
    BY <1>1, SnapshotKnows DEF IInv
<1> QED BY <1>1, DocumentInvariant, PTL DEF CompactionKeepsKnown

\* What a client at rest shows, whose transport has not lost its connection, the
\* server has stored: the ops made before the answer to its join are pushed then.
THEOREM SteadyIsSaved == Spec => []SteadySaved
<1>1. ASSUME IInv, NEW c \in Client, Steady(c)
      PROVE  doc[c] \subseteq Stored
    <2>1. /\ phase[c] = "on" /\ ~broken[c] /\ signing[c] = {}
          /\ work[Current(c)] = NoWork /\ up[Current(c)] = <<>> /\ down[Current(c)] = <<>>
        BY <1>1 DEF Steady, AtRest, Settled
    <2>2. ~JoinDue(Current(c)) /\ Pushes(<<>>) = {}
        BY <2>1, NoKinds DEF JoinDue, Pushes, NoWork
    <2> QED BY <1>1, <2>1, <2>2 DEF IInv, ClientInv
<1>2. IInv => SteadySaved
    BY <1>1 DEF SteadySaved
<1> QED BY <1>2, DocumentInvariant, PTL

\* Such a client misses, of what the group was told and the journal holds, only
\* what slipped between its join's read and its entry in the group, or what a
\* compaction has deleted in the meantime.
THEOREM SteadyMissesLittle == Spec => []SteadyMissesOnlySlipped
<1>1. ASSUME IInv, NEW c \in Client, Steady(c), ~Casting
      PROVE  Told \ doc[c] \subseteq slipped[Current(c)] \cup cut
    <2>1. /\ phase[c] = "on" /\ ~broken[c] /\ Current(c) \in Conn
          /\ work[Current(c)] = NoWork /\ up[Current(c)] = <<>> /\ down[Current(c)] = <<>>
        BY <1>1, CurrentFacts DEF Steady, AtRest, Settled, Online, IInv
    <2>2. Hears(Current(c), doc[c])
        BY <1>1, <2>1 DEF IInv, ClientInv
    <2> QED BY <1>1, <2>1, <2>2, AllHeard
<1>2. IInv => SteadyMissesOnlySlipped
    BY <1>1 DEF SteadyMissesOnlySlipped
<1> QED BY <1>2, DocumentInvariant, PTL

\* The hub, its journal and what compaction has cut from it, and the transports
\* together implement the grow-only store: JoinDocument, PushOperation and
\* SnapshotDocument store what users have made, and a client learns nothing else.
THEOREM DocumentImplementsStore == Spec => ImplementsStore
<1>1. Init => MadeInv /\ Store!Init
    <2> SUFFICES ASSUME Init PROVE MadeInv /\ Store!Init
        OBVIOUS
    <2>1. /\ Content(journal) = Seed /\ cut = {} /\ made = Seed /\ doc = [c \in Client |-> {}]
          /\ \A k \in Conn : up[k] = <<>>
        BY SeedOpsType DEF Init, JournalInit
    <2> QED BY <2>1, NoKinds DEF MadeInv, Called, Stored, Store!Init
<1>2. IInv /\ MadeInv /\ [Next]_vars => MadeInv' /\ [Store!Next]_(Store!vars)
    <2> SUFFICES ASSUME IInv, MadeInv, [Next]_vars
                 PROVE  MadeInv' /\ (Store!Next \/ UNCHANGED Store!vars)
        BY DEF Store!vars
    <2>1. CASE UNCHANGED vars
        BY <2>1 DEF vars, journalVars, history, MadeInv, Called, Stored, Store!vars
    <2>2. CASE \E k \in Conn : Server(k)
        BY <2>2, HubStores
    <2>3. CASE ~UNCHANGED vars /\ ~\E k \in Conn : Server(k)
        BY <2>3, ClientStores DEF Next
    <2> QED BY <2>1, <2>2, <2>3
<1> QED BY <1>1, <1>2, DocumentInvariant, PTL DEF Spec, ImplementsStore, Store!Spec
=============================================================================
