------------------------ MODULE VaultDirectoryProofs ------------------------
(***************************************************************************)
(* The directory of a vault, for any number of clients, connections, edits   *)
(* and ops of earlier sessions: what a session at rest shows has been stored *)
(* or is counted as lost, and it misses nothing the group was told but what  *)
(* slipped past its join or a compaction deleted.                            *)
(***************************************************************************)
EXTENDS VaultDirectory, HubJournalProofs

\* What a connected client says it shows, and a client with nothing to make up for
\* shows nothing that is not stored, or on its way to the journal.
ClientInv(c) ==
    LET k == Current(c)
    IN  /\ phase[c] = "closed" => doc[c] = {}
        /\ c \notin Linked => lossy[c] \/ doc[c] \subseteq Stored
        /\ c \in Linked =>
              /\ said[k] \cup Pushes(up[k]) \subseteq doc[c]
              /\ lossy[c] \/ doc[c] \subseteq Stored \cup Pushes(up[k])
              /\ Hears(k, doc[c])
IInv == TypeOK /\ HubInv /\ \A c \in Client : ClientInv(c)
-----------------------------------------------------------------------------
(* Connections.                                                             *)

LEMMA CurrentFacts ==
    ASSUME TypeOK
    PROVE  /\ \A c \in Linked : Current(c) \in Conn /\ Current(c) \in alive
           /\ \A c \in Client : /\ Current(c)[1] = c /\ Current(c)[2] = conn[c]
                                /\ conn[c] \in Nat /\ ~(conn[c] < conn[c])
                                /\ <<c, conn[c] + 1>> # Current(c) /\ conn[c] < conn[c] + 1
           /\ \A c \in Client, d \in Client : c # d => Current(c) # Current(d)
<1>1. \A c \in Linked : Current(c) \in Conn /\ Current(c) \in alive
    BY DEF TypeOK, JournalType
<1>2. ASSUME NEW c \in Client
      PROVE  /\ Current(c)[1] = c /\ Current(c)[2] = conn[c]
             /\ conn[c] \in Nat /\ ~(conn[c] < conn[c])
             /\ <<c, conn[c] + 1>> # Current(c) /\ conn[c] < conn[c] + 1
    <2>1. conn[c] \in Nat
        BY JournalBounds DEF TypeOK, JournalType
    <2> QED BY <2>1 DEF Current
<1>3. \A c \in Client, d \in Client : c # d => Current(c) # Current(d)
    BY DEF Current
<1> QED BY <1>1, <1>2, <1>3

\* A client whose connection, document and state are left alone.
LEMMA OtherClient ==
    ASSUME IInv, HubStill, NEW d \in Client,
           phase'[d] = phase[d], doc'[d] = doc[d], lossy'[d] = lossy[d], conn'[d] = conn[d],
           d \in Linked => up'[Current(d)] = up[Current(d)] /\ down'[Current(d)] = down[Current(d)]
    PROVE  ClientInv(d)'
<1> DEFINE k == Current(d)
<1>1. ClientInv(d) /\ Stored' = Stored /\ (d \in Linked)' = (d \in Linked) /\ said' = said /\ k' = k
    BY HubStillFacts DEF IInv, Linked, Current
<1>2. CASE d \notin Linked
    BY <1>1, <1>2 DEF ClientInv
<1>3. CASE d \in Linked
    <2>1. k \in Conn
        BY <1>3, CurrentFacts DEF IInv
    <2>2. /\ said[k] \cup Pushes(up[k]) \subseteq doc[d]
          /\ lossy[d] \/ doc[d] \subseteq Stored \cup Pushes(up[k])
          /\ Hears(k, doc[d])
        BY <1>1, <1>3 DEF ClientInv
    <2> HIDE DEF k
    <2>3. Hears(k, doc[d])'
        BY <1>1, <1>3, <2>1, <2>2, HubStillFacts DEF Hears, Coming, k
    <2> QED BY <1>1, <1>3, <2>2, <2>3 DEF ClientInv, k
<1> QED BY <1>2, <1>3

-----------------------------------------------------------------------------
(* The clients' actions.                                                    *)

LEMMA ConnectStep ==
    ASSUME IInv, NEW c \in Client, c \notin Linked, NEW next \in {"opening", "on", "rejoin"},
           Connect(c, next)
    PROVE  IInv'
<1>0. TypeOK /\ JournalType /\ HubInv
    BY DEF IInv, TypeOK
<1>k. conn[c] \in 0..MaxConn /\ conn[c] < MaxConn /\ <<c, conn[c] + 1>> \in Conn
    BY <1>0, JournalBounds DEF Connect, Conn, JournalType
<1> PICK k \in Conn : k = <<c, conn[c] + 1>>
    BY <1>k
<1>1. k \in Conn /\ k[1] = c /\ k[2] = conn[c] + 1 /\ conn[c] \in 0..MaxConn /\ conn[c] < MaxConn
    BY <1>k
<1>2. /\ phase' = [phase EXCEPT ![c] = next] /\ conn' = [conn EXCEPT ![c] = @ + 1]
      /\ alive' = alive \cup {k} /\ up' = [up EXCEPT ![k] = @ \o <<JoinCall>>]
      /\ HubStill /\ UNCHANGED <<down, doc, lossy, made>>
    BY DEF Connect, Send, HubStill
<1>3. Current(c)' = k /\ Linked' = Linked \cup {c}
    BY <1>0, <1>2 DEF Current, Linked, JournalType, TypeOK
<1>4. \A d \in Client : d # c => Current(d)' = Current(d) /\ Current(d) # k
    BY <1>0, <1>2 DEF Current, JournalType
<1>5. /\ LinkInv(k)' /\ up'[k] \in Seq(Call) /\ Has(up'[k], "join")
      /\ said[k] = {} /\ Pushes(up'[k]) = {}
    <2>1. conn[c] < conn[c] + 1 /\ ~(conn'[c] < conn[c] + 1)
        BY <1>0, <1>1, <1>2, JournalBounds DEF JournalType
    <2>2. up'[k] = up[k] \o <<JoinCall>> /\ down'[k] = down[k] /\ LinkInv(k)
        BY <1>0, <1>1, <1>2 DEF JournalType, HubInv
    <2>3. conn[k[1]] < k[2] /\ ~(conn'[k[1]] < k[2])
        BY <1>1, <2>1
    <2> QED BY <1>0, <1>1, <1>2, <2>2, <2>3, NewLink
<1>6. TypeOK'
    <2>1. up' \in [Conn -> Seq(Call)]
        BY <1>0, <1>1, <1>2, <1>5 DEF JournalType
    <2>2. conn' \in [Client -> 0..MaxConn]
        BY <1>0, <1>1, <1>2, JournalBounds DEF JournalType
    <2>3. JournalType'
        BY <1>0, <1>1, <1>2, <2>1, <2>2, HubStillFacts DEF JournalType
    <2>4. alive' = {Current(d)' : d \in Linked'}
        BY <1>0, <1>2, <1>3, <1>4 DEF TypeOK, Linked
    <2> QED BY <1>0, <1>2, <2>3, <2>4 DEF TypeOK
<1>7. HubInv'
    <2>1. ASSUME NEW j \in Conn, j # k PROVE LinkInv(j)'
        <3>1. up'[j] = up[j] /\ DownStep(j)
            BY <1>0, <1>2, <2>1 DEF JournalType, DownStep
        <3>2. conn'[j[1]] < j[2] => conn[j[1]] < j[2]
            <4>1. j[1] \in Client /\ j[2] \in Nat /\ conn[j[1]] \in Nat
                BY <1>0, JournalBounds DEF Conn, JournalType
            <4> QED BY <1>0, <1>2, <4>1 DEF JournalType
        <3> QED BY <1>0, <1>2, <3>1, <3>2, OtherLinks
    <2>2. JournalType' /\ Seed \subseteq Stored'
        BY <1>0, <1>2, <1>6, HubStillFacts DEF HubInv, TypeOK
    <2>3. \A j \in Conn : LinkInv(j)'
        BY <1>5, <2>1
    <2> QED BY <2>2, <2>3 DEF HubInv
<1>8. ASSUME NEW d \in Client, d # c PROVE ClientInv(d)'
    BY <1>0, <1>2, <1>4, <1>8, CurrentFacts, OtherClient DEF TypeOK, JournalType
<1>9. ClientInv(c)'
    <2>1. lossy[c] \/ doc[c] \subseteq Stored
        BY DEF IInv, ClientInv
    <2>3. Stored' = Stored /\ said' = said
        BY <1>2, HubStillFacts
    <2>4. phase'[c] # "closed"
        BY <1>0, <1>2 DEF TypeOK
    <2>5. Hears(Current(c), doc[c])'
        BY <1>3, <1>5 DEF Hears
    <2> QED BY <1>2, <1>3, <1>5, <2>1, <2>3, <2>4, <2>5 DEF ClientInv
<1> QED BY <1>6, <1>7, <1>8, <1>9 DEF IInv

LEMMA DropStep == ASSUME IInv, NEW c \in Client, Drop(c) PROVE IInv'
<1>0. TypeOK /\ JournalType /\ HubInv /\ c \in Linked /\ Current(c) \in Conn
    BY CurrentFacts DEF IInv, TypeOK, Drop
<1> PICK k \in Conn : k = Current(c)
    BY <1>0
<1>1. /\ phase' = [phase EXCEPT ![c] = "retry"] /\ alive' = alive \ {k}
      /\ down' = [down EXCEPT ![k] = <<>>]
      /\ HubStill /\ UNCHANGED <<up, conn, doc, made>>
    BY DEF Drop, HubStill
<1>2. PICK l \in BOOLEAN : /\ lossy[c] \/ Has(up[k], "push") => l
                           /\ lossy' = [lossy EXCEPT ![c] = l]
    BY DEF Drop, Has
<1>3. Linked' = Linked \ {c} /\ \A d \in Client : Current(d)' = Current(d)
    BY <1>0, <1>1 DEF Linked, Current, TypeOK
<1>4. TypeOK'
    <2>1. <<>> \in Seq(Msg)
        OBVIOUS
    <2>2. JournalType'
        BY <1>0, <1>1, <2>1, HubStillFacts DEF JournalType
    <2>3. alive' = {Current(d)' : d \in Linked'}
        BY <1>0, <1>1, <1>3, CurrentFacts DEF TypeOK, Linked
    <2> QED BY <1>0, <1>1, <1>2, <2>2, <2>3 DEF TypeOK
<1>5. HubInv'
    BY <1>0, <1>1, <1>4, LostHub DEF TypeOK, JournalType
<1>6. ASSUME NEW d \in Client, d # c PROVE ClientInv(d)'
    <2>1. d \in Linked => down'[Current(d)] = down[Current(d)]
        BY <1>0, <1>1, <1>6, CurrentFacts DEF JournalType
    <2> QED BY <1>0, <1>1, <1>2, <1>6, <2>1, OtherClient DEF TypeOK
<1>7. ClientInv(c)'
    <2>1. lossy[c] \/ doc[c] \subseteq Stored \cup Pushes(up[k])
        BY <1>0 DEF IInv, ClientInv
    <2>2. Has(up[k], "push") \/ Pushes(up[k]) = {}
        BY NoKinds DEF Pushes
    <2>3. lossy'[c] \/ doc'[c] \subseteq Stored'
        BY <1>0, <1>1, <1>2, <2>1, <2>2, HubStillFacts DEF TypeOK
    <2>4. c \notin Linked' /\ phase'[c] # "closed"
        BY <1>0, <1>1, <1>3 DEF TypeOK
    <2> QED BY <2>3, <2>4 DEF ClientInv
<1> QED BY <1>4, <1>5, <1>6, <1>7 DEF IInv

LEMMA CloseStep == ASSUME IInv, NEW c \in Client, Close(c) PROVE IInv'
<1>0. TypeOK /\ JournalType /\ HubInv
    BY DEF IInv, TypeOK
<1>1. /\ phase' = [phase EXCEPT ![c] = "closed"] /\ doc' = [doc EXCEPT ![c] = {}]
      /\ lossy' = [lossy EXCEPT ![c] = FALSE] /\ alive' = {k \in alive : k[1] # c}
      /\ down' = [k \in Conn |-> IF k[1] = c THEN <<>> ELSE down[k]]
      /\ HubStill /\ UNCHANGED <<up, conn, made>>
    BY DEF Close, HubStill
<1>2. Linked' = Linked \ {c} /\ \A d \in Client : Current(d)' = Current(d)
    BY <1>0, <1>1 DEF Linked, Current, TypeOK
<1>3. TypeOK'
    <2>1. <<>> \in Seq(Msg)
        OBVIOUS
    <2>2. JournalType'
        BY <1>0, <1>1, <2>1, HubStillFacts DEF JournalType
    <2>3. alive' = {Current(d)' : d \in Linked'}
        BY <1>0, <1>1, <1>2, CurrentFacts DEF TypeOK, Linked
    <2> QED BY <1>0, <1>1, <2>2, <2>3 DEF TypeOK
<1>4. HubInv'
    BY <1>0, <1>1, <1>3, LostHub DEF TypeOK, JournalType
<1>5. ASSUME NEW d \in Client, d # c PROVE ClientInv(d)'
    <2>1. d \in Linked => down'[Current(d)] = down[Current(d)]
        BY <1>0, <1>1, <1>5, CurrentFacts DEF JournalType
    <2> QED BY <1>0, <1>1, <1>5, <2>1, OtherClient DEF TypeOK
<1>6. ClientInv(c)'
    <2>1. c \notin Linked' /\ doc'[c] = {}
        BY <1>0, <1>1, <1>2 DEF TypeOK
    <2> QED BY <2>1 DEF ClientInv
<1> QED BY <1>3, <1>4, <1>5, <1>6 DEF IInv

LEMMA GiveUpStep == ASSUME IInv, NEW c \in Client, GiveUp(c) PROVE IInv'
<1>0. TypeOK /\ JournalType /\ HubInv
    BY DEF IInv, TypeOK
<1>1. /\ phase[c] = "retry" /\ phase' = [phase EXCEPT ![c] = "off"]
      /\ HubStill /\ UNCHANGED <<up, down, conn, alive, doc, lossy, made>> /\ UNCHANGED journalVars
    BY DEF GiveUp, HubStill, journalVars
<1>2. Linked' = Linked /\ c \notin Linked /\ \A d \in Client : Current(d)' = Current(d)
    BY <1>0, <1>1 DEF Linked, Current, TypeOK
<1>3. HubInv'
    BY <1>0, <1>1, StutterHub
<1>4. TypeOK'
    <2>1. alive' = {Current(d)' : d \in Linked'}
        BY <1>0, <1>1, <1>2 DEF TypeOK, Linked
    <2> QED BY <1>0, <1>1, <1>3, <2>1 DEF TypeOK, HubInv
<1>5. ASSUME NEW d \in Client, d # c PROVE ClientInv(d)'
    BY <1>0, <1>1, <1>5, OtherClient DEF TypeOK
<1>6. ClientInv(c)'
    <2>1. lossy[c] \/ doc[c] \subseteq Stored
        BY <1>2 DEF IInv, ClientInv
    <2>2. phase'[c] # "closed"
        BY <1>0, <1>1 DEF TypeOK
    <2> QED BY <1>1, <1>2, <2>1, <2>2, HubStillFacts DEF ClientInv
<1> QED BY <1>3, <1>4, <1>5, <1>6 DEF IInv

LEMMA EditStep == ASSUME IInv, NEW c \in Client, NEW u \in Update, Edit(c, u) PROVE IInv'
<1>0. TypeOK /\ JournalType /\ HubInv
    BY DEF IInv, TypeOK
<1>1. /\ made' = made \cup {u} /\ doc' = [doc EXCEPT ![c] = @ \cup {u}]
      /\ phase[c] # "closed"
      /\ HubStill /\ UNCHANGED <<down, conn, alive, phase>>
    BY DEF Edit, HubStill
<1>2. Linked' = Linked /\ \A d \in Client : Current(d)' = Current(d)
    BY <1>1 DEF Linked, Current
<1>2a. alive' = {Current(d)' : d \in Linked'}
    BY <1>0, <1>1, <1>2 DEF TypeOK, Linked
<1>3. CASE c \notin Linked
    <2>1. lossy' = [lossy EXCEPT ![c] = TRUE] /\ up' = up
        BY <1>3 DEF Edit
    <2>2. TypeOK'
        <3>1. JournalType'
            BY <1>0, <1>1, <2>1, HubStillFacts DEF JournalType
        <3> QED BY <1>0, <1>1, <1>2a, <2>1, <3>1 DEF TypeOK
    <2>3. HubInv'
        BY <1>0, <1>1, <2>1, <2>2, LostHub DEF TypeOK
    <2>4. ASSUME NEW d \in Client, d # c PROVE ClientInv(d)'
        BY <1>0, <1>1, <2>1, <2>4, OtherClient DEF TypeOK
    <2>5. ClientInv(c)'
        BY <1>0, <1>1, <1>2, <1>3, <2>1 DEF ClientInv, TypeOK
    <2> QED BY <2>2, <2>3, <2>4, <2>5 DEF IInv
<1>4. CASE c \in Linked
    <2> PICK k \in Conn : k = Current(c)
        BY <1>0, <1>4, CurrentFacts
    <2>1. lossy' = lossy /\ up' = [up EXCEPT ![k] = @ \o <<PushCall({u})>>]
        BY <1>4 DEF Edit, Send
    <2>2. {u} \in SUBSET Update /\ PushCall({u}) \in Call /\ up[k] \in Seq(Call) /\ LinkInv(k) /\ ~(conn[k[1]] < k[2])
        BY <1>0, CurrentFacts DEF PushCall, Call, JournalType, HubInv
    <2>3. up'[k] = Append(up[k], PushCall({u}))
        BY <1>0, <2>1, <2>2, SendFacts DEF JournalType
    <2>4. /\ LinkInv(k)' /\ up'[k] \in Seq(Call)
          /\ Has(up[k], "join") => Has(up'[k], "join")
          /\ Pushes(up'[k]) = Pushes(up[k]) \cup {u}
        <3>1. down'[k] = down[k] /\ conn' = conn /\ HubStill
            BY <1>1
        <3> QED BY <1>0, <2>2, <2>3, <3>1, PushLink
    <2>5. TypeOK'
        <3>1. up' \in [Conn -> Seq(Call)]
            BY <1>0, <2>1, <2>4 DEF JournalType
        <3>2. JournalType'
            BY <1>0, <1>1, <3>1, HubStillFacts DEF JournalType
        <3> QED BY <1>0, <1>1, <1>2a, <2>1, <3>2 DEF TypeOK
    <2>6. HubInv'
        <3>1. ASSUME NEW j \in Conn, j # k PROVE LinkInv(j)'
            <4>1. up'[j] = up[j] /\ DownStep(j)
                BY <1>0, <1>1, <2>1, <3>1 DEF JournalType, DownStep
            <4> QED BY <1>0, <1>1, <4>1, OtherLinks
        <3>2. \A j \in Conn : LinkInv(j)'
            BY <2>4, <3>1
        <3> QED BY <1>0, <1>1, <2>5, <3>2, HubStillFacts DEF HubInv, TypeOK
    <2>7. ASSUME NEW d \in Client, d # c PROVE ClientInv(d)'
        <3>1. d \in Linked => up'[Current(d)] = up[Current(d)]
            BY <1>0, <2>1, <2>7, CurrentFacts DEF JournalType
        <3> QED BY <1>0, <1>1, <2>1, <2>7, <3>1, OtherClient DEF TypeOK
    <2>8. ClientInv(c)'
        <3>1. /\ said[k] \cup Pushes(up[k]) \subseteq doc[c]
              /\ lossy[c] \/ doc[c] \subseteq Stored \cup Pushes(up[k])
              /\ Hears(k, doc[c])
            BY <1>4 DEF IInv, ClientInv
        <3>2. doc'[c] = doc[c] \cup {u} /\ Stored' = Stored /\ said' = said
            BY <1>0, <1>1, HubStillFacts DEF TypeOK
        <3>3. Coming(k)' = Coming(k)
            BY <1>1 DEF Coming
        <3>4. \A S : Hears(k, S) => \A T : S \subseteq T => Hears(k, T)'
            BY <1>1, <2>4, <3>3, ClientHears
        <3>5. Hears(k, doc[c])'
            BY <3>1, <3>2, <3>4 DEF Hears
        <3>6. Current(c)' = k /\ c \in Linked' /\ phase'[c] # "closed"
            BY <1>1, <1>2, <1>4
        <3>7. /\ said'[k] \cup Pushes(up'[k]) \subseteq doc'[c]
              /\ lossy'[c] \/ doc'[c] \subseteq Stored' \cup Pushes(up'[k])
            BY <2>1, <2>4, <3>1, <3>2
        <3>8. Hears(Current(c), doc[c])'
            BY <3>5, <3>6 DEF Hears
        <3> QED BY <3>6, <3>7, <3>8 DEF ClientInv
    <2> QED BY <2>5, <2>6, <2>7, <2>8 DEF IInv
<1> QED BY <1>3, <1>4

LEMMA ReceiveStep == ASSUME IInv, NEW c \in Client, Receive(c) PROVE IInv'
<1>0. TypeOK /\ JournalType /\ HubInv /\ c \in Linked /\ Current(c) \in Conn /\ down[Current(c)] # <<>>
    BY CurrentFacts DEF IInv, TypeOK, Receive
<1> PICK k \in Conn : k = Current(c)
    BY <1>0
<1> DEFINE msg == Head(down[k])
<1>1. msg.st \subseteq Stored /\ msg.st \in SUBSET Update /\ doc[c] \in SUBSET Update
    BY <1>0, ReceivedStored DEF TypeOK
<1> PICK D \in SUBSET Update : D = doc[c] \cup msg.st
    BY <1>1
<1>2. PICK again \in BOOLEAN : again <=> (msg.m = "init" /\ phase[c] = "rejoin" /\ lossy[c])
    OBVIOUS
<1>3. PICK snaps \in {<<>>, <<SnapCall(D)>>}, pushes \in {<<>>, <<PushCall(D)>>} :
         /\ snaps = (IF msg.m = "init" /\ msg.long THEN <<SnapCall(D)>> ELSE <<>>)
         /\ pushes = (IF again THEN <<PushCall(D)>> ELSE <<>>)
    OBVIOUS
<1>4. /\ down' = [down EXCEPT ![k] = Tail(@)] /\ doc' = [doc EXCEPT ![c] = D]
      /\ up' = [up EXCEPT ![k] = @ \o (snaps \o pushes)]
      /\ lossy' = IF again THEN [lossy EXCEPT ![c] = FALSE] ELSE lossy
      /\ phase' = IF msg.m = "init" THEN [phase EXCEPT ![c] = "on"] ELSE phase
      /\ HubStill /\ UNCHANGED <<conn, alive, made>>
    BY <1>2, <1>3 DEF Receive, Send, HubStill
<1>5. (snaps # <<>> => msg.m = "init") /\ (again <=> pushes # <<>>)
    BY <1>3
<1>6. /\ said[k] \cup Pushes(up[k]) \subseteq doc[c]
      /\ lossy[c] \/ doc[c] \subseteq Stored \cup Pushes(up[k])
      /\ Hears(k, doc[c])
    BY <1>0 DEF IInv, ClientInv
<1>7. /\ LinkInv(k)' /\ up'[k] \in Seq(Call)
      /\ Has(up[k], "join") => Has(up'[k], "join")
      /\ Pushes(up'[k]) \subseteq D
      /\ Pushes(up[k]) \subseteq Pushes(up'[k])
      /\ pushes # <<>> => D \subseteq Pushes(up'[k])
    <2>1. LinkInv(k) /\ ~(conn[k[1]] < k[2])
        BY <1>0, CurrentFacts DEF HubInv
    <2>2. JournalType /\ HubStill /\ conn' = conn
        BY <1>0, <1>4
    <2>3. msg.st \subseteq D /\ said[k] \cup Pushes(up[k]) \subseteq D
        BY <1>6
    <2>4. down[k] # <<>> /\ down'[k] = Tail(down[k]) /\ up'[k] = up[k] \o (snaps \o pushes)
        BY <1>0, <1>4 DEF JournalType
    <2>5. Received(k, D, snaps, pushes)
        BY <1>5, <2>3, <2>4 DEF Received
    <2>6. LinkInv(k)' /\ SaysAfter(k, D, pushes)
        BY <2>1, <2>2, <2>5, ReceiveLink, Zenon
    <2> QED BY <2>6 DEF SaysAfter
<1> HIDE DEF msg
<1>8. Linked' = Linked /\ \A d \in Client : Current(d)' = Current(d)
    BY <1>0, <1>4 DEF Linked, Current, TypeOK
<1>9. TypeOK'
    <2>1. up' \in [Conn -> Seq(Call)]
        BY <1>0, <1>4, <1>7 DEF JournalType
    <2>2. down' \in [Conn -> Seq(Msg)]
        BY <1>0, <1>4, MsgReceived DEF JournalType
    <2>3. JournalType'
        BY <1>0, <1>4, <2>1, <2>2, HubStillFacts DEF JournalType
    <2>4. alive' = {Current(d)' : d \in Linked'}
        BY <1>0, <1>4, <1>8 DEF TypeOK, Linked
    <2> QED BY <1>0, <1>4, <2>3, <2>4 DEF TypeOK
<1>10. HubInv'
    <2>1. ASSUME NEW j \in Conn, j # k PROVE LinkInv(j)'
        <3>1. up'[j] = up[j] /\ DownStep(j)
            BY <1>0, <1>4, <2>1 DEF JournalType, DownStep
        <3> QED BY <1>0, <1>4, <3>1, OtherLinks
    <2>2. \A j \in Conn : LinkInv(j)'
        BY <1>7, <2>1
    <2> QED BY <1>0, <1>4, <1>9, <2>2, HubStillFacts DEF HubInv, TypeOK
<1>11. ASSUME NEW d \in Client, d # c PROVE ClientInv(d)'
    <2>1. d \in Linked => up'[Current(d)] = up[Current(d)] /\ down'[Current(d)] = down[Current(d)]
        BY <1>0, <1>4, <1>11, CurrentFacts DEF JournalType
    <2> QED BY <1>0, <1>4, <1>11, <2>1, OtherClient DEF TypeOK
<1>12. ClientInv(c)'
    <2>1. doc'[c] = D /\ Stored' = Stored /\ said' = said /\ doc[c] \subseteq D
        BY <1>0, <1>4, HubStillFacts DEF TypeOK
    <2>2. Coming(k) \subseteq D \cup Coming(k)'
        BY <1>0, <1>4, ComingReceived DEF JournalType, msg
    <2>3. Hears(k, D)'
        BY <1>4, <1>6, <1>7, <2>1, <2>2, ClientHears
    <2>4. Hears(Current(c), doc[c])'
        BY <1>8, <2>1, <2>3 DEF Hears
    <2>5. Current(c)' = k /\ c \in Linked' /\ phase'[c] # "closed"
        BY <1>0, <1>8 DEF Linked
    <2>6. lossy'[c] \/ doc'[c] \subseteq Stored' \cup Pushes(up'[k])
        BY <1>0, <1>1, <1>4, <1>5, <1>6, <1>7, <2>1 DEF TypeOK
    <2>7. said'[k] \cup Pushes(up'[k]) \subseteq doc'[c]
        BY <1>6, <1>7, <2>1
    <2> QED BY <2>4, <2>5, <2>6, <2>7 DEF ClientInv
<1> QED BY <1>9, <1>10, <1>11, <1>12 DEF IInv

LEMMA ServerStep == ASSUME IInv, NEW j \in Conn, Server(j) PROVE IInv'
<1>1. TypeOK /\ HubInv /\ ServerOf(j) /\ UNCHANGED <<phase, doc, lossy, made, conn, alive>>
    BY DEF IInv, Server, ServerOf, sessionVars, JoinRead, JoinAnswer, PushAppend, PushCast,
           Snapshot, Hangup
<1>2. HubInv' /\ Stored \subseteq Stored'
    BY <1>1, ServerInv, ServerStores DEF HubInv
<1>3. Linked' = Linked /\ \A d \in Client : Current(d)' = Current(d)
    BY <1>1 DEF Linked, Current
<1>4. TypeOK'
    <2>1. alive' = {Current(d)' : d \in Linked'}
        BY <1>1, <1>3 DEF TypeOK, Linked
    <2> QED BY <1>1, <1>2, <2>1 DEF TypeOK, HubInv
<1>5. ASSUME NEW c \in Client, c \notin Linked PROVE ClientInv(c)'
    BY <1>1, <1>2, <1>3, <1>5 DEF IInv, ClientInv
<1>6. ASSUME NEW c \in Client, c \in Linked PROVE ClientInv(c)'
    <2> PICK k \in Conn : k = Current(c) /\ k \in alive
        BY <1>1, <1>6, CurrentFacts
    <2>1. /\ said[k] \cup Pushes(up[k]) \subseteq doc[c]
          /\ lossy[c] \/ doc[c] \subseteq Stored \cup Pushes(up[k])
          /\ Hears(k, doc[c]) /\ phase[c] # "closed"
        BY <1>6 DEF IInv, ClientInv, Linked
    <2>2. /\ said'[k] \cup Pushes(up'[k]) \subseteq said[k] \cup Pushes(up[k])
          /\ Stored \cup Pushes(up[k]) \subseteq Stored' \cup Pushes(up'[k])
        BY <1>1, ServerSays
    <2>3. Hears(k, doc[c])'
        <3>1. \A S : said[k] \subseteq S /\ Hears(k, S) => Hears(k, S)'
            BY <1>1, ServerHears
        <3> QED BY <1>1, <2>1, <3>1 DEF Hears
    <2>4. Hears(Current(c), doc[c])'
        BY <1>3, <2>3 DEF Hears
    <2>5. Current(c)' = k /\ c \in Linked'
        BY <1>3, <1>6
    <2> QED BY <1>1, <2>1, <2>2, <2>4, <2>5 DEF ClientInv
<1> QED BY <1>2, <1>4, <1>5, <1>6 DEF IInv

LEMMA InitInv == Init => IInv
<1> SUFFICES ASSUME Init PROVE IInv
    OBVIOUS
<1>1. HubInv
    BY InitHub DEF Init
<1>2. Linked = {} /\ alive = {}
    BY DEF Init, JournalInit, Linked
<1>3. TypeOK
    BY <1>1, <1>2, SeedAssumption DEF Init, TypeOK, HubInv
<1>4. \A c \in Client : ClientInv(c)
    BY <1>2 DEF Init, ClientInv
<1> QED BY <1>1, <1>3, <1>4 DEF IInv

LEMMA StutterInv == IInv /\ UNCHANGED vars => IInv'
<1> SUFFICES ASSUME IInv, UNCHANGED vars PROVE IInv'
    OBVIOUS
<1>1. UNCHANGED journalVars /\ UNCHANGED <<phase, doc, lossy, made>>
    BY DEF vars
<1>2. HubInv' /\ HubStill /\ UNCHANGED <<up, down, conn, alive>>
    BY <1>1, StutterHub DEF IInv, journalVars, HubStill
<1>3. TypeOK'
    <2>1. alive' = {Current(d)' : d \in Linked'}
        BY <1>1, <1>2 DEF IInv, TypeOK, Linked, Current
    <2> QED BY <1>1, <1>2, <2>1 DEF IInv, TypeOK, HubInv
<1>4. \A d \in Client : ClientInv(d)'
    BY <1>1, <1>2, OtherClient
<1> QED BY <1>2, <1>3, <1>4 DEF IInv

-----------------------------------------------------------------------------
(* The theorems.                                                            *)

LEMMA NextInv == ASSUME IInv, [Next]_vars PROVE IInv'
<1>1. CASE UNCHANGED vars
    BY <1>1, StutterInv
<1>2. ASSUME NEW c \in Client,
             \/ Start(c) \/ Drop(c) \/ Reconnect(c) \/ GiveUp(c) \/ Receive(c) \/ Close(c)
             \/ \E u \in Update : Edit(c, u)
      PROVE  IInv'
    <2>1. CASE Start(c) \/ Reconnect(c)
        <3>1. c \notin Linked /\ \E next \in {"opening", "on", "rejoin"} : Connect(c, next)
            BY <2>1 DEF Start, Reconnect, Linked
        <3> QED BY <3>1, ConnectStep
    <2> QED BY <1>2, <2>1, DropStep, GiveUpStep, ReceiveStep, CloseStep, EditStep
<1>3. CASE \E k \in Conn : Server(k)
    BY <1>3, ServerStep
<1> QED BY <1>1, <1>2, <1>3 DEF Next

\* What a connection is told and says, and what a client shows, agree with the
\* journal: the inductive invariant the properties below rest on.
THEOREM DirectoryInvariant == Spec => []IInv
<1> QED BY InitInv, NextInv, PTL DEF Spec

\* The directory's state is well-typed; the hub's live connections are those of
\* the sessions that have one.
THEOREM TypeCorrect == Spec => []TypeOK
<1>1. IInv => TypeOK
    BY DEF IInv
<1> QED BY <1>1, DirectoryInvariant, PTL

\* SnapshotVault deletes every op of the journal, and still never what its author
\* was sent by InitVault or has pushed: the snapshot was taken after the merge.
THEOREM CompactionKeeps == Spec => CompactionKeepsKnown
<1>1. ASSUME IInv
      PROVE  \A k \in Conn : Snapshot(k) => Known(k) \cap Content(journal) \subseteq Content(journal')
    BY <1>1, SnapshotKnows DEF IInv
<1> QED BY <1>1, DirectoryInvariant, PTL DEF CompactionKeepsKnown

\* What a session at rest shows is stored, or it has counted lost pushes and its
\* next flush() sends all of it.
THEOREM RestIsSavedOrCounted == Spec => []RestMeansSavedOrCounted
<1>1. ASSUME IInv, NEW c \in Client, AtRest(c)
      PROVE  lossy[c] \/ doc[c] \subseteq Stored
    <2>1. c \in Linked /\ up[Current(c)] = <<>>
        BY <1>1 DEF AtRest, Settled, Linked
    <2>2. Pushes(<<>>) = {}
        BY NoKinds DEF Pushes
    <2> QED BY <1>1, <2>1, <2>2 DEF IInv, ClientInv
<1>2. IInv => RestMeansSavedOrCounted
    BY <1>1 DEF RestMeansSavedOrCounted
<1> QED BY <1>2, DirectoryInvariant, PTL

\* A session at rest misses, of what the group was told and the journal holds,
\* only what slipped between its JoinVault's read and its entry in the group, or
\* what a compaction has deleted in the meantime.
THEOREM RestMissesLittle == Spec => []RestMissesOnlySlipped
<1>1. ASSUME IInv, NEW c \in Client, AtRest(c), ~Casting
      PROVE  Told \ doc[c] \subseteq slipped[Current(c)] \cup cut
    <2>1. c \in Linked /\ Current(c) \in Conn
        BY <1>1, CurrentFacts DEF AtRest, Linked, IInv
    <2>2. Hears(Current(c), doc[c])
        BY <1>1, <2>1 DEF IInv, ClientInv
    <2> QED BY <1>1, <2>1, <2>2, AllHeard DEF AtRest, Settled
<1>2. IInv => RestMissesOnlySlipped
    BY <1>1 DEF RestMissesOnlySlipped
<1> QED BY <1>2, DirectoryInvariant, PTL
=============================================================================
