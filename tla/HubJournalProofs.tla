-------------------------- MODULE HubJournalProofs --------------------------
(***************************************************************************)
(* What the server's side of a journal joined, pushed to and compacted by    *)
(* force (HubJournal) preserves, whatever its clients: each connection's     *)
(* queues, what its join has read, what its snapshots know, and who hears    *)
(* what.  The clients' half is in VaultDirectoryProofs, DocumentSyncProofs.  *)
(***************************************************************************)
EXTENDS HubJournal, Queues, TLAPS, FiniteSetTheorems, FunctionTheorems

\* What a connection's dispatcher is about to tell the group; all of it.
Cast(k) == IF work[k].m = "casting" THEN work[k].st ELSE {}
Casts == UNION {Cast(k) : k \in Conn}

\* The snapshots in the queue s carry K and what is pushed before them.
SnapKnows(s, K) ==
    \A i \in DOMAIN s : s[i].m = "snap" =>
        /\ K \subseteq s[i].st
        /\ \A j \in DOMAIN s : j < i /\ s[j].m = "push" => s[j].st \subseteq s[i].st

\* One join at most has been sent on a connection: its call, its handler, its
\* answer and the snapshot it leads to exclude each other, and before the answer
\* the connection is not in the group.
JoinInv(k) ==
    /\ Once(up[k], "join") /\ Once(down[k], "init")
    /\ Has(up[k], "join") => work[k].m # "joining" /\ read[k] = {}
    /\ Has(up[k], "join") \/ work[k].m = "joining" =>
          ~Has(up[k], "snap") /\ ~Has(down[k], "init") /\ k \notin member
    /\ Has(down[k], "init") => ~Has(up[k], "snap")

\* What the answer to a join, to be sent or received, and the snapshots carry of
\* what their connection has read and said.
KnownInv(k) ==
    /\ work[k].m = "joining" => read[k] \subseteq Content(work[k].seen)
    /\ \A S \in States(down[k], "init") : read[k] \subseteq S
    /\ Cast(k) \subseteq said[k]
    /\ SnapKnows(up[k], Known(k))

\* Whatever travels to the clients the journal holds, or held.
StoredInv(k) ==
    /\ \A S \in AllStates(down[k]) : S \subseteq Stored
    /\ work[k].m = "joining" => Content(work[k].seen) \subseteq Stored
    /\ said[k] \subseteq Stored

\* A connection its client has not opened yet.
Unused(k) == /\ up[k] = <<>> /\ down[k] = <<>> /\ work[k] = NoWork
             /\ k \notin member /\ read[k] = {} /\ said[k] = {}
UnusedInv(k) == conn[k[1]] < k[2] => Unused(k)

LinkInv(k) == JoinInv(k) /\ KnownInv(k) /\ StoredInv(k) /\ UnusedInv(k)
HubInv == /\ JournalType
          /\ Seed \subseteq Stored
          /\ \A k \in Conn : LinkInv(k)

\* Where the client of connection k stands that shows S: its join has not been
\* heard, or has read what the group had been told, or it is in the group; the
\* rest is being told, or slipped.
Missing == Told \ cut
Coming(k) == UNION AllStates(down[k])
Slipping(k) == slipped[k] \cup Casts
Hears(k, S) ==
    \/ Has(up[k], "join")
    \/ work[k].m = "joining" /\ Missing \subseteq Content(work[k].seen) \cup Slipping(k)
    \/ k \in member /\ Missing \subseteq S \cup Coming(k) \cup Slipping(k)
-----------------------------------------------------------------------------
(* Sequences: what appending to a queue and taking its head do to it.       *)

LEMMA AppendFacts ==
    ASSUME NEW T, NEW s \in Seq(T), NEW e \in T
    PROVE  /\ Append(s, e) \in Seq(T)
           /\ \A i \in DOMAIN Append(s, e) :
                 (i \in DOMAIN s /\ Append(s, e)[i] = s[i]) \/ (i = Len(s) + 1 /\ Append(s, e)[i] = e)
           /\ \A i \in DOMAIN s : i \in DOMAIN Append(s, e) /\ Append(s, e)[i] = s[i] /\ i # Len(s) + 1
    OBVIOUS

LEMMA TailFacts ==
    ASSUME NEW T, NEW s \in Seq(T), s # <<>>
    PROVE  /\ Tail(s) \in Seq(T)
           /\ 1 \in DOMAIN s /\ Head(s) = s[1] /\ Head(s) \in T
           /\ \A i \in DOMAIN Tail(s) : i + 1 \in DOMAIN s /\ Tail(s)[i] = s[i + 1] /\ i + 1 # 1
    OBVIOUS

LEMMA KindsAfterAppend ==
    ASSUME NEW T, NEW s \in Seq(T), NEW e \in T, NEW m
    PROVE  /\ Has(Append(s, e), m) => Has(s, m) \/ e.m = m
           /\ Once(s, m) /\ (e.m # m \/ ~Has(s, m)) => Once(Append(s, e), m)
           /\ e.m # m => States(Append(s, e), m) \subseteq States(s, m)
           /\ States(Append(s, e), m) \subseteq States(s, m) \cup {e.st}
    BY AppendFacts DEF Has, Once, States

LEMMA KindsAfterTail ==
    ASSUME NEW T, NEW s \in Seq(T), s # <<>>, NEW m
    PROVE  /\ Has(Tail(s), m) => Has(s, m)
           /\ Once(s, m) => Once(Tail(s), m)
           /\ Once(s, m) /\ Head(s).m = m => ~Has(Tail(s), m)
           /\ States(Tail(s), m) \subseteq States(s, m)
           /\ Head(s).m = m => Has(s, m) /\ Head(s).st \in States(s, m)
    BY TailFacts DEF Has, Once, States

LEMMA NoKinds ==
    /\ \A m : ~Has(<<>>, m) /\ Once(<<>>, m) /\ States(<<>>, m) = {}
    /\ \A s, m : ~Has(s, m) => States(s, m) = {}
    BY DEF Has, Once, States

LEMMA AllStatesSteps ==
    /\ AllStates(<<>>) = {}
    /\ \A T : \A s \in Seq(T) : \A e \in T : AllStates(Append(s, e)) = AllStates(s) \cup {e.st}
    /\ \A T : \A s \in Seq(T) :
          s # <<>> => /\ AllStates(Tail(s)) \subseteq AllStates(s)
                      /\ Head(s).st \in AllStates(s)
                      /\ AllStates(s) \subseteq AllStates(Tail(s)) \cup {Head(s).st}
<1>1. AllStates(<<>>) = {}
    BY DEF AllStates
<1>2. ASSUME NEW T, NEW s \in Seq(T), NEW e \in T
      PROVE  AllStates(Append(s, e)) = AllStates(s) \cup {e.st}
    <2>1. DOMAIN Append(s, e) = DOMAIN s \cup {Len(s) + 1} /\ Append(s, e)[Len(s) + 1] = e
        OBVIOUS
    <2>2. \A i \in DOMAIN s : Append(s, e)[i] = s[i]
        OBVIOUS
    <2> QED BY <2>1, <2>2 DEF AllStates
<1>3. ASSUME NEW T, NEW s \in Seq(T), s # <<>>
      PROVE  /\ AllStates(Tail(s)) \subseteq AllStates(s)
             /\ Head(s).st \in AllStates(s)
             /\ AllStates(s) \subseteq AllStates(Tail(s)) \cup {Head(s).st}
    <2>1. \A i \in DOMAIN s : i = 1 \/ (i - 1 \in DOMAIN Tail(s) /\ Tail(s)[i - 1] = s[i])
        BY <1>3
    <2>2. /\ 1 \in DOMAIN s /\ Head(s) = s[1]
          /\ \A i \in DOMAIN Tail(s) : i + 1 \in DOMAIN s /\ Tail(s)[i] = s[i + 1]
        BY <1>3, TailFacts
    <2>3. AllStates(Tail(s)) \subseteq AllStates(s) /\ Head(s).st \in AllStates(s)
        BY <2>2 DEF AllStates
    <2>4. AllStates(s) \subseteq AllStates(Tail(s)) \cup {Head(s).st}
        BY <2>1, <2>2 DEF AllStates
    <2> QED BY <2>3, <2>4
<1> QED BY <1>1, <1>2, <1>3

LEMMA PushesAfterAppend ==
    ASSUME NEW T, NEW s \in Seq(T), NEW e \in T
    PROVE  /\ e.m # "push" => Pushes(Append(s, e)) = Pushes(s)
           /\ e.m = "push" => Pushes(Append(s, e)) = Pushes(s) \cup e.st
<1>1. /\ \A i \in DOMAIN Append(s, e) :
            (i \in DOMAIN s /\ Append(s, e)[i] = s[i]) \/ (i = Len(s) + 1 /\ Append(s, e)[i] = e)
      /\ \A i \in DOMAIN s : i \in DOMAIN Append(s, e) /\ Append(s, e)[i] = s[i]
      /\ Len(s) + 1 \in DOMAIN Append(s, e) /\ Append(s, e)[Len(s) + 1] = e
    BY AppendFacts
<1>2. CASE e.m # "push"
    <2>1. States(Append(s, e), "push") = States(s, "push")
        BY <1>1, <1>2 DEF States
    <2> QED BY <1>2, <2>1 DEF Pushes
<1>3. CASE e.m = "push"
    <2>1. States(Append(s, e), "push") = States(s, "push") \cup {e.st}
        BY <1>1, <1>3 DEF States
    <2> QED BY <1>3, <2>1 DEF Pushes
<1> QED BY <1>2, <1>3

LEMMA PushesAfterTail ==
    ASSUME NEW T, NEW s \in Seq(T), s # <<>>
    PROVE  /\ Pushes(Tail(s)) \subseteq Pushes(s)
           /\ Head(s).m # "push" => Pushes(s) = Pushes(Tail(s))
           /\ Head(s).m = "push" => Pushes(s) = Pushes(Tail(s)) \cup Head(s).st
<1>1. /\ 1 \in DOMAIN s /\ Head(s) = s[1]
      /\ \A i \in DOMAIN Tail(s) : i + 1 \in DOMAIN s /\ Tail(s)[i] = s[i + 1]
    BY TailFacts
<1>2. \A i \in DOMAIN s : i = 1 \/ (i - 1 \in DOMAIN Tail(s) /\ Tail(s)[i - 1] = s[i])
    OBVIOUS
<1>3. States(Tail(s), "push") \subseteq States(s, "push")
    BY <1>1 DEF States
<1>4. States(s, "push") \subseteq States(Tail(s), "push") \cup {Head(s).st}
    <2>1. ASSUME NEW i \in DOMAIN s, s[i].m = "push", i # 1
          PROVE  s[i].st \in States(Tail(s), "push")
        BY <1>2, <2>1 DEF States
    <2> QED BY <1>1, <2>1 DEF States
<1>5. CASE Head(s).m # "push"
    <2>1. ASSUME NEW i \in DOMAIN s, s[i].m = "push" PROVE s[i].st \in States(Tail(s), "push")
        BY <1>1, <1>2, <1>5, <2>1 DEF States
    <2>2. States(s, "push") = States(Tail(s), "push")
        BY <1>3, <2>1 DEF States
    <2> QED BY <1>5, <2>2 DEF Pushes
<1>6. CASE Head(s).m = "push"
    <2>1. Head(s).st \in States(s, "push")
        BY <1>1, <1>6 DEF States
    <2>2. States(s, "push") = States(Tail(s), "push") \cup {Head(s).st}
        BY <1>3, <1>4, <2>1
    <2> QED BY <1>6, <2>2 DEF Pushes
<1>3a. Pushes(Tail(s)) \subseteq Pushes(s)
    BY <1>3 DEF Pushes
<1> QED BY <1>3a, <1>5, <1>6

LEMMA SendFacts ==
    ASSUME NEW T, NEW s \in Seq(T)
    PROVE  /\ s \o <<>> = s /\ <<>> \o s = s
           /\ \A e \in T : s \o <<e>> = Append(s, e)
           /\ \A e, f \in T : s \o (<<e>> \o <<f>>) = Append(Append(s, e), f)
    OBVIOUS
-----------------------------------------------------------------------------
(* Journals, and the snapshots in a queue.                                  *)

LEMMA ContentFacts ==
    /\ \A j \in Seq(SUBSET Update) : Content(j) \in SUBSET Update
    /\ \A j \in Seq(SUBSET Update) : \A S \in SUBSET Update :
          Append(j, S) \in Seq(SUBSET Update) /\ Content(Append(j, S)) = Content(j) \cup S
    /\ \A S : Content(<<S>>) = S
<1>1. ASSUME NEW j \in Seq(SUBSET Update) PROVE Content(j) \in SUBSET Update
    BY DEF Content
<1>2. ASSUME NEW j \in Seq(SUBSET Update), NEW S \in SUBSET Update
      PROVE  Append(j, S) \in Seq(SUBSET Update) /\ Content(Append(j, S)) = Content(j) \cup S
    <2>1. /\ DOMAIN Append(j, S) = DOMAIN j \cup {Len(j) + 1} /\ Append(j, S)[Len(j) + 1] = S
          /\ \A i \in DOMAIN j : Append(j, S)[i] = j[i]
        OBVIOUS
    <2> QED BY <2>1 DEF Content
<1>3. ASSUME NEW S PROVE Content(<<S>>) = S
    <2>1. DOMAIN <<S>> = {1} /\ <<S>>[1] = S
        OBVIOUS
    <2> QED BY <2>1 DEF Content
<1> QED BY <1>1, <1>2, <1>3

LEMMA SnapKnowsAfterAppend ==
    ASSUME NEW s \in Seq(Call), NEW e \in Call, NEW K, SnapKnows(s, K),
           e.m = "snap" => K \cup Pushes(s) \subseteq e.st
    PROVE  SnapKnows(Append(s, e), K)
<1> DEFINE t == Append(s, e)
<1>1. /\ \A i \in DOMAIN t : (i \in DOMAIN s /\ t[i] = s[i]) \/ (i = Len(s) + 1 /\ t[i] = e)
      /\ \A i \in DOMAIN s : i \in DOMAIN t /\ t[i] = s[i] /\ i \in Nat /\ i < Len(s) + 1
      /\ Len(s) \in Nat
    <2>1. \A i \in DOMAIN s : i \in Nat /\ i < Len(s) + 1
        OBVIOUS
    <2> QED BY <2>1, AppendFacts
<1> HIDE DEF t
<1> SUFFICES ASSUME NEW i \in DOMAIN t, t[i].m = "snap"
             PROVE  /\ K \subseteq t[i].st
                    /\ \A j \in DOMAIN t : j < i /\ t[j].m = "push" => t[j].st \subseteq t[i].st
    BY DEF SnapKnows, t
<1>2. CASE i \in DOMAIN s
    <2>1. \A j \in DOMAIN t : j < i => j \in DOMAIN s /\ t[j] = s[j]
        BY <1>1, <1>2
    <2> QED BY <1>1, <1>2, <2>1 DEF SnapKnows
<1>3. CASE i \notin DOMAIN s
    <2>1. t[i] = e /\ K \cup Pushes(s) \subseteq e.st /\ i = Len(s) + 1
        BY <1>1, <1>3
    <2>2. \A j \in DOMAIN t : j < i => j \in DOMAIN s /\ t[j] = s[j]
        BY <1>1, <2>1
    <2>3. \A j \in DOMAIN s : s[j].m = "push" => s[j].st \subseteq Pushes(s)
        BY DEF Pushes, States
    <2> QED BY <2>1, <2>2, <2>3
<1> QED BY <1>2, <1>3

\* What is pushed is known to the snapshots behind it.
LEMMA SnapKnowsAfterTail ==
    ASSUME NEW s \in Seq(Call), s # <<>>, NEW K, SnapKnows(s, K)
    PROVE  /\ SnapKnows(Tail(s), K)
           /\ Head(s).m = "push" => SnapKnows(Tail(s), K \cup Head(s).st)
           /\ Head(s).m = "snap" => K \subseteq Head(s).st
<1>1. /\ 1 \in DOMAIN s /\ Head(s) = s[1]
      /\ \A i \in DOMAIN Tail(s) : i \in Nat /\ 1 < i + 1 /\ i + 1 \in DOMAIN s /\ Tail(s)[i] = s[i + 1]
    <2>1. \A i \in DOMAIN Tail(s) : i \in Nat /\ 1 < i + 1
        OBVIOUS
    <2> QED BY <2>1, TailFacts
<1>2. ASSUME NEW i \in DOMAIN Tail(s), Tail(s)[i].m = "snap"
      PROVE  /\ K \subseteq Tail(s)[i].st
             /\ \A j \in DOMAIN Tail(s) : j < i /\ Tail(s)[j].m = "push" => Tail(s)[j].st \subseteq Tail(s)[i].st
             /\ Head(s).m = "push" => Head(s).st \subseteq Tail(s)[i].st
    <2>1. s[i + 1].m = "snap" /\ i + 1 \in DOMAIN s
        BY <1>1, <1>2
    <2>2. \A j \in DOMAIN s : j < i + 1 /\ s[j].m = "push" => s[j].st \subseteq s[i + 1].st
        BY <2>1 DEF SnapKnows
    <2>3. K \subseteq s[i + 1].st
        BY <2>1 DEF SnapKnows
    <2>4. \A j \in DOMAIN Tail(s) : j < i => j + 1 < i + 1
        BY <1>1
    <2> QED BY <1>1, <2>2, <2>3, <2>4
<1>3. SnapKnows(Tail(s), K)
    BY <1>2 DEF SnapKnows
<1>4. ASSUME Head(s).m = "push" PROVE SnapKnows(Tail(s), K \cup Head(s).st)
    BY <1>2, <1>4 DEF SnapKnows
<1>5. ASSUME Head(s).m = "snap" PROVE K \subseteq Head(s).st
    BY <1>1, <1>5 DEF SnapKnows
<1> QED BY <1>3, <1>4, <1>5

LEMMA NoSnapKnows == \A s, K : ~Has(s, "snap") => SnapKnows(s, K)
    BY DEF Has, SnapKnows

-----------------------------------------------------------------------------
(* Types.                                                                   *)

\* The journal begins as the ops of earlier sessions, in some order.
LEMMA SeedOpsType == SeedOps \in Seq(SUBSET Update) /\ Content(SeedOps) = Seed
<1> DEFINE n == Cardinality(Seed)
           J == [1..n -> {{u} : u \in Seed}]
<1>1. n \in Nat /\ ExistsBijection(1..n, Seed)
    <2>1. PICK m \in Nat : ExistsBijection(1..m, Seed)
        BY SeedAssumption, FS_NatBijection
    <2>2. m = n
        BY <2>1, FS_CountingElements
    <2> QED BY <2>1, <2>2
<1>2. PICK f \in [1..n -> Seed] : \A u \in Seed : \E i \in 1..n : f[i] = u
    BY <1>1, Fun_IsBij DEF ExistsBijection, Bijection, Surjection
<1>3. [i \in 1..n |-> {f[i]}] \in J /\ Content([i \in 1..n |-> {f[i]}]) = Seed
    BY <1>2 DEF Content
<1>4. SeedOps \in J /\ Content(SeedOps) = Seed
    <2> HIDE DEF J
    <2>1. \E s \in J : Content(s) = Seed
        BY <1>3
    <2>2. SeedOps = CHOOSE s \in J : Content(s) = Seed
        BY DEF SeedOps, J
    <2> QED BY <2>1, <2>2
<1>5. J \subseteq Seq(SUBSET Update)
    <2>1. {{u} : u \in Seed} \subseteq SUBSET Update
        BY SeedAssumption
    <2> QED BY <1>1, <2>1
<1> QED BY <1>4, <1>5

LEMMA WorkFields ==
    ASSUME NEW w \in Work
    PROVE  /\ w.m = "joining" => w.seen \in Seq(SUBSET Update)
           /\ w.m = "casting" => w.st \in SUBSET Update
<1>1. CASE w = NoWork
    BY <1>1 DEF NoWork
<1>2. CASE w \in [m : {"joining"}, seen : Seq(SUBSET Update)]
    BY <1>2
<1>3. CASE w \in [m : {"casting"}, st : SUBSET Update]
    BY <1>3
<1> QED BY <1>1, <1>2, <1>3 DEF Work

\* The head of a queue of calls, of messages.
LEMMA CallStarted ==
    ASSUME JournalType, NEW k \in Conn, up[k] # <<>>
    PROVE  /\ Head(up[k]) \in Call /\ Tail(up[k]) \in Seq(Call)
           /\ Head(up[k]).m \in {"push", "snap"} => Head(up[k]).st \in SUBSET Update
<1>1. Head(up[k]) \in Call /\ Tail(up[k]) \in Seq(Call)
    BY TailFacts DEF JournalType
<1> QED BY <1>1 DEF Call

LEMMA MsgReceived ==
    ASSUME JournalType, NEW k \in Conn, down[k] # <<>>
    PROVE  /\ Head(down[k]) \in Msg /\ Tail(down[k]) \in Seq(Msg)
           /\ Head(down[k]).st \in SUBSET Update
<1>1. Head(down[k]) \in Msg /\ Tail(down[k]) \in Seq(Msg)
    BY TailFacts DEF JournalType
<1> QED BY <1>1 DEF Msg

ServerOf(k) == \/ JoinRead(k) \/ JoinAnswer(k) \/ PushAppend(k) \/ PushCast(k)
               \/ Snapshot(k) \/ Hangup(k)

LEMMA ServerType == ASSUME JournalType, NEW k \in Conn, ServerOf(k) PROVE JournalType'
<1>0. NoWork \in Work /\ <<>> \in Seq(Call)
    BY DEF Work
<1>1. CASE JoinRead(k)
    <2>1. up' = [up EXCEPT ![k] = Tail(@)] /\ Tail(up[k]) \in Seq(Call)
        BY <1>1, CallStarted DEF JoinRead, Starts, Pop
    <2>2. work' \in [Conn -> Work]
        BY <1>1 DEF JoinRead, JournalType, Work
    <2>3. read' \in [Conn -> SUBSET Update]
        BY <1>1, ContentFacts DEF JoinRead, JournalType
    <2> QED BY <1>1, <2>1, <2>2, <2>3 DEF JoinRead, JournalType
<1>2. CASE JoinAnswer(k)
    <2> DEFINE init == [m |-> "init", st |-> Content(work[k].seen),
                        long |-> Len(work[k].seen) > CompactThreshold]
    <2>1. init \in Msg
        <3>1. work[k] \in Work /\ work[k].m = "joining"
            BY <1>2 DEF JoinAnswer, JournalType
        <3>2. Content(work[k].seen) \in SUBSET Update
            BY <3>1, WorkFields, ContentFacts
        <3> QED BY <3>2 DEF Msg
    <2>2. /\ down' = IF k \in alive THEN [down EXCEPT ![k] = Append(@, init)] ELSE down
          /\ work' = [work EXCEPT ![k] = NoWork] /\ member' = member \cup {k}
          /\ UNCHANGED <<journal, up, conn, alive, history>>
        BY <1>2 DEF JoinAnswer
    <2> HIDE DEF init
    <2>3. Append(down[k], init) \in Seq(Msg)
        BY <2>1, AppendFacts DEF JournalType
    <2>4. down' \in [Conn -> Seq(Msg)]
        BY <2>2, <2>3 DEF JournalType
    <2> QED BY <1>0, <2>2, <2>4 DEF JournalType, history
<1>3. CASE PushAppend(k)
    <2>1. up' = [up EXCEPT ![k] = Tail(@)] /\ Tail(up[k]) \in Seq(Call)
          /\ Head(up[k]).st \in SUBSET Update
        BY <1>3, CallStarted DEF PushAppend, Starts, Pop
    <2>2. work' \in [Conn -> Work]
        BY <1>3, <2>1 DEF PushAppend, JournalType, Work
    <2>3. journal' \in Seq(SUBSET Update) /\ said' \in [Conn -> SUBSET Update]
        BY <1>3, <2>1, ContentFacts DEF PushAppend, JournalType
    <2> QED BY <1>3, <2>1, <2>2, <2>3 DEF PushAppend, JournalType
<1>4. CASE PushCast(k)
    <2> DEFINE op == [m |-> "op", st |-> work[k].st]
    <2>1. work[k].st \in SUBSET Update
        BY <1>4, WorkFields DEF PushCast, JournalType
    <2>2. op \in Msg
        BY <2>1 DEF Msg
    <2>3. \A j \in Conn : Append(down[j], op) \in Seq(Msg)
        BY <2>2, AppendFacts DEF JournalType
    <2>4. down' = [j \in Conn |-> IF j \in (member \cap alive) \ {k} THEN Append(down[j], op) ELSE down[j]]
          /\ work' = [work EXCEPT ![k] = NoWork]
          /\ UNCHANGED <<journal, member, up, conn, alive, read, said, cut>>
        BY <1>4 DEF PushCast
    <2>5. slipped' \in [Conn -> SUBSET Update]
        BY <1>4, <2>1 DEF PushCast, JournalType
    <2> HIDE DEF op
    <2>6. down' \in [Conn -> Seq(Msg)]
        BY <2>3, <2>4 DEF JournalType
    <2> QED BY <1>0, <2>4, <2>5, <2>6 DEF JournalType
<1>5. CASE Snapshot(k)
    <2>1. up' = [up EXCEPT ![k] = Tail(@)] /\ Tail(up[k]) \in Seq(Call)
          /\ Head(up[k]).st \in SUBSET Update
        BY <1>5, CallStarted DEF Snapshot, Starts, Pop
    <2>2. journal' \in Seq(SUBSET Update) /\ cut' \in SUBSET Update
        <3>1. Content(journal) \in SUBSET Update
            BY ContentFacts DEF JournalType
        <3>2. /\ journal' = <<Head(up[k]).st>>
              /\ cut' = cut \cup (Content(journal) \ Head(up[k]).st)
            BY <1>5 DEF Snapshot
        <3> QED BY <2>1, <3>1, <3>2 DEF JournalType
    <2> QED BY <1>5, <2>1, <2>2 DEF Snapshot, JournalType
<1>6. CASE Hangup(k)
    BY <1>0, <1>6 DEF Hangup, JournalType, history
<1> QED BY <1>1, <1>2, <1>3, <1>4, <1>5, <1>6 DEF ServerOf

-----------------------------------------------------------------------------
(* One connection, step by step.                                            *)

LEMMA ServerStores ==
    ASSUME JournalType, NEW k \in Conn, ServerOf(k)
    PROVE  /\ Stored \subseteq Stored'
           /\ PushAppend(k) => /\ Content(journal') = Content(journal) \cup Head(up[k]).st
                               /\ Head(up[k]).st \subseteq Stored'
           /\ Snapshot(k) => Content(journal') = Head(up[k]).st
<1>1. CASE PushAppend(k)
    <2>1. journal' = Append(journal, Head(up[k]).st) /\ cut' = cut /\ Head(up[k]).st \in SUBSET Update
          /\ journal \in Seq(SUBSET Update) /\ ~Snapshot(k)
        BY <1>1, CallStarted DEF PushAppend, Starts, JournalType, Snapshot
    <2>2. Content(journal') = Content(journal) \cup Head(up[k]).st
        BY <2>1, ContentFacts
    <2> QED BY <2>1, <2>2 DEF Stored
<1>2. CASE Snapshot(k)
    <2>1. /\ journal' = <<Head(up[k]).st>> /\ cut' = cut \cup (Content(journal) \ Head(up[k]).st)
          /\ ~PushAppend(k)
        BY <1>2 DEF Snapshot, PushAppend, Starts
    <2>2. Content(journal') = Head(up[k]).st
        BY <2>1, ContentFacts
    <2> QED BY <2>1, <2>2 DEF Stored
<1>3. CASE ~PushAppend(k) /\ ~Snapshot(k)
    BY <1>3 DEF ServerOf, JoinRead, JoinAnswer, PushCast, Hangup, Stored, history
<1> QED BY <1>1, <1>2, <1>3

\* Messages received, lost with the connection, or broadcast to it.
DownStep(k) ==
    \/ down'[k] \in {down[k], <<>>}
    \/ down[k] # <<>> /\ down'[k] = Tail(down[k])
    \/ /\ k \in member
       /\ \E S \in SUBSET Update : /\ S \subseteq Stored'
                                   /\ down'[k] = Append(down[k], [m |-> "op", st |-> S])

LEMMA DownKinds ==
    ASSUME JournalType, NEW k \in Conn, LinkInv(k), DownStep(k), Stored \subseteq Stored'
    PROVE  /\ Once(down'[k], "init") /\ (Has(down'[k], "init") => Has(down[k], "init"))
           /\ States(down'[k], "init") \subseteq States(down[k], "init")
           /\ \A S \in AllStates(down'[k]) : S \subseteq Stored'
           /\ down[k] = <<>> /\ k \notin member => down'[k] = <<>>
<1>1. /\ down[k] \in Seq(Msg) /\ Once(down[k], "init")
      /\ \A S \in AllStates(down[k]) : S \subseteq Stored'
    BY DEF JournalType, LinkInv, JoinInv, StoredInv
<1>2. CASE down'[k] \in {down[k], <<>>}
    BY <1>1, <1>2, NoKinds, AllStatesSteps
<1>3. CASE down[k] # <<>> /\ down'[k] = Tail(down[k])
    BY <1>1, <1>3, KindsAfterTail, AllStatesSteps
<1>4. CASE k \in member /\ \E S \in SUBSET Update : /\ S \subseteq Stored'
                                                    /\ down'[k] = Append(down[k], [m |-> "op", st |-> S])
    <2> PICK S \in SUBSET Update : /\ S \subseteq Stored'
                                   /\ down'[k] = Append(down[k], [m |-> "op", st |-> S])
        BY <1>4
    <2> DEFINE op == [m |-> "op", st |-> S]
    <2>1. op \in Msg /\ op.m # "init" /\ op.st = S /\ down'[k] = Append(down[k], op)
        BY DEF Msg
    <2> HIDE DEF op
    <2>2. /\ Has(Append(down[k], op), "init") => Has(down[k], "init")
          /\ Once(Append(down[k], op), "init")
          /\ States(Append(down[k], op), "init") \subseteq States(down[k], "init")
        BY <1>1, <2>1, KindsAfterAppend
    <2>3. AllStates(Append(down[k], op)) = AllStates(down[k]) \cup {op.st}
        BY <1>1, <2>1, AllStatesSteps
    <2> QED BY <1>1, <1>4, <2>1, <2>2, <2>3
<1> QED BY <1>2, <1>3, <1>4 DEF DownStep

\* Nothing but its messages changes: neither a call of its own, nor an answer.
LEMMA LinkStill ==
    ASSUME JournalType, NEW k \in Conn, LinkInv(k), DownStep(k), Stored \subseteq Stored',
           up'[k] = up[k], work'[k] = work[k], read'[k] = read[k], said'[k] = said[k],
           k \in member' => k \in member,
           conn'[k[1]] < k[2] => conn[k[1]] < k[2]
    PROVE  LinkInv(k)'
<1>1. /\ Once(down'[k], "init") /\ (Has(down'[k], "init") => Has(down[k], "init"))
      /\ States(down'[k], "init") \subseteq States(down[k], "init")
      /\ \A S \in AllStates(down'[k]) : S \subseteq Stored'
      /\ down[k] = <<>> /\ k \notin member => down'[k] = <<>>
    BY DownKinds
<1>2. JoinInv(k)'
    BY <1>1 DEF LinkInv, JoinInv
<1>3. KnownInv(k)'
    BY <1>1 DEF LinkInv, KnownInv, Cast, Known
<1>4. StoredInv(k)'
    BY <1>1 DEF LinkInv, StoredInv
<1>5. UnusedInv(k)'
    BY <1>1 DEF LinkInv, UnusedInv, Unused
<1> QED BY <1>2, <1>3, <1>4, <1>5 DEF LinkInv

\* A connection whose dispatcher has something to do is in use.
LEMMA InUse ==
    ASSUME NEW k \in Conn, UnusedInv(k), up[k] # <<>> \/ work[k] # NoWork \/ k \in member
    PROVE  ~(conn[k[1]] < k[2])
    BY DEF UnusedInv, Unused

LEMMA JoinReadLink ==
    ASSUME JournalType, NEW k \in Conn, LinkInv(k), JoinRead(k)
    PROVE  LinkInv(k)'
<1>1. /\ up[k] \in Seq(Call) /\ up[k] # <<>> /\ Head(up[k]).m = "join" /\ work[k] = NoWork
      /\ up'[k] = Tail(up[k]) /\ work'[k] = [m |-> "joining", seen |-> journal]
      /\ read'[k] = read[k] \cup Content(journal)
      /\ UNCHANGED <<journal, member, down, conn, alive, slipped, said, cut>>
      /\ ~(conn[k[1]] < k[2])
    BY InUse DEF JoinRead, Starts, Pop, JournalType, LinkInv
<1>2. Has(up[k], "join") /\ ~Has(Tail(up[k]), "join")
    BY <1>1, KindsAfterTail DEF LinkInv, JoinInv
<1>3. Has(Tail(up[k]), "snap") => Has(up[k], "snap")
    BY <1>1, KindsAfterTail
<1>4. Once(Tail(up[k]), "join")
    BY <1>2 DEF Has, Once
<1>5. read'[k] = Content(journal) /\ ~Has(up'[k], "snap") /\ ~Has(down[k], "init") /\ k \notin member
    BY <1>1, <1>2, <1>3 DEF LinkInv, JoinInv
<1>6. JoinInv(k)'
    BY <1>1, <1>2, <1>4, <1>5 DEF LinkInv, JoinInv
<1>7. KnownInv(k)'
    <2>1. States(down[k], "init") = {}
        BY <1>5, NoKinds
    <2>2. SnapKnows(up'[k], Known(k)')
        BY <1>5, NoSnapKnows
    <2> QED BY <1>1, <1>5, <2>1, <2>2 DEF KnownInv, Cast
<1>8. StoredInv(k)' /\ UnusedInv(k)'
    BY <1>1 DEF LinkInv, StoredInv, UnusedInv, Stored
<1> QED BY <1>6, <1>7, <1>8 DEF LinkInv

LEMMA JoinAnswerLink ==
    ASSUME JournalType, NEW k \in Conn, LinkInv(k), JoinAnswer(k)
    PROVE  LinkInv(k)'
<1> DEFINE init == [m |-> "init", st |-> Content(work[k].seen),
                    long |-> Len(work[k].seen) > CompactThreshold]
<1>1. /\ work[k].m = "joining" /\ work'[k] = NoWork /\ down[k] \in Seq(Msg)
      /\ down'[k] \in {down[k], Append(down[k], init)}
      /\ UNCHANGED <<journal, up, conn, alive, slipped, read, said, cut>>
      /\ ~(conn[k[1]] < k[2])
      /\ Content(work[k].seen) \in SUBSET Update
    <2>1. work[k] \in Work /\ work[k].m = "joining"
        BY DEF JoinAnswer, JournalType
    <2>2. Content(work[k].seen) \in SUBSET Update
        BY <2>1, WorkFields, ContentFacts
    <2>3. ~(conn[k[1]] < k[2])
        BY <2>1, InUse DEF LinkInv, NoWork
    <2> QED BY <2>1, <2>2, <2>3 DEF JoinAnswer, JournalType, history
<1>2. init \in Msg /\ init.m = "init" /\ init.st = Content(work[k].seen)
    BY <1>1 DEF Msg
<1> HIDE DEF init
<1>3. /\ ~Has(down[k], "init") /\ Once(down[k], "init") /\ States(down[k], "init") = {}
      /\ ~Has(up[k], "snap") /\ ~Has(up[k], "join") /\ Once(up[k], "join")
    BY <1>1, NoKinds DEF LinkInv, JoinInv
<1>4. Once(down'[k], "init") /\ States(down'[k], "init") \subseteq {Content(work[k].seen)}
    <2>1. Once(Append(down[k], init), "init")
        BY <1>1, <1>2, <1>3, KindsAfterAppend
    <2>2. States(Append(down[k], init), "init") \subseteq States(down[k], "init") \cup {init.st}
        BY <1>1, <1>2, KindsAfterAppend
    <2> QED BY <1>1, <1>2, <1>3, <2>1, <2>2
<1>5. \A S \in AllStates(down'[k]) : S \in AllStates(down[k]) \/ S = Content(work[k].seen)
    <2>1. AllStates(Append(down[k], init)) = AllStates(down[k]) \cup {init.st}
        BY <1>1, <1>2, AllStatesSteps
    <2> QED BY <1>1, <1>2, <2>1
<1>6. JoinInv(k)'
    BY <1>1, <1>3, <1>4 DEF JoinInv, NoWork
<1>7. KnownInv(k)'
    BY <1>1, <1>4 DEF LinkInv, KnownInv, Cast, NoWork, Known
<1>8. StoredInv(k)' /\ UnusedInv(k)'
    BY <1>1, <1>5 DEF LinkInv, StoredInv, UnusedInv, Stored, NoWork
<1> QED BY <1>6, <1>7, <1>8 DEF LinkInv

\* A call that is started leaves a queue with no more joins, and no snapshot
\* that knows less.
LEMMA CallTaken ==
    ASSUME JournalType, NEW k \in Conn, LinkInv(k), up[k] # <<>>, work[k] = NoWork,
           Head(up[k]).m # "join", Pop(k)
    PROVE  /\ up[k] \in Seq(Call) /\ up'[k] = Tail(up[k])
           /\ Once(up'[k], "join")
           /\ Has(up'[k], "join") => Has(up[k], "join")
           /\ Has(up'[k], "snap") => Has(up[k], "snap")
           /\ SnapKnows(up'[k], Known(k))
           /\ Head(up[k]).m = "push" => SnapKnows(up'[k], Known(k) \cup Head(up[k]).st)
           /\ Head(up[k]).m = "snap" => Known(k) \subseteq Head(up[k]).st
           /\ ~(conn[k[1]] < k[2])
<1>1. up[k] \in Seq(Call) /\ up'[k] = Tail(up[k]) /\ ~(conn[k[1]] < k[2])
    BY InUse DEF JournalType, Pop, LinkInv
<1>2. Once(up[k], "join") /\ SnapKnows(up[k], Known(k))
    BY DEF LinkInv, JoinInv, KnownInv
<1>3. Once(Tail(up[k]), "join") /\ (Has(Tail(up[k]), "join") => Has(up[k], "join"))
    BY <1>1, <1>2, KindsAfterTail
<1>4. Has(Tail(up[k]), "snap") => Has(up[k], "snap")
    BY <1>1, KindsAfterTail
<1>5. /\ SnapKnows(Tail(up[k]), Known(k))
      /\ Head(up[k]).m = "push" => SnapKnows(Tail(up[k]), Known(k) \cup Head(up[k]).st)
      /\ Head(up[k]).m = "snap" => Known(k) \subseteq Head(up[k]).st
    BY <1>1, <1>2, SnapKnowsAfterTail
<1> QED BY <1>1, <1>3, <1>4, <1>5

LEMMA PushAppendLink ==
    ASSUME JournalType, NEW k \in Conn, LinkInv(k), PushAppend(k)
    PROVE  LinkInv(k)'
<1> DEFINE st == Head(up[k]).st
<1>1. /\ up[k] # <<>> /\ Head(up[k]).m = "push" /\ work[k] = NoWork /\ Pop(k)
      /\ work'[k] = [m |-> "casting", st |-> st] /\ said'[k] = said[k] \cup st
      /\ UNCHANGED <<member, down, conn, alive, slipped, read, cut>>
    BY DEF PushAppend, Starts, JournalType
<1>2. Stored \subseteq Stored' /\ st \subseteq Stored'
    BY ServerStores DEF ServerOf
<1>3. /\ Once(up'[k], "join")
      /\ Has(up'[k], "join") => Has(up[k], "join")
      /\ Has(up'[k], "snap") => Has(up[k], "snap")
      /\ SnapKnows(up'[k], Known(k) \cup st)
      /\ ~(conn[k[1]] < k[2])
    BY <1>1, CallTaken
<1> HIDE DEF st
<1>4. Known(k)' = Known(k) \cup st
    BY <1>1 DEF Known
<1>5. JoinInv(k)'
    BY <1>1, <1>3 DEF LinkInv, JoinInv
<1>6. KnownInv(k)'
    BY <1>1, <1>3, <1>4 DEF LinkInv, KnownInv, Cast
<1>7. StoredInv(k)' /\ UnusedInv(k)'
    BY <1>1, <1>2, <1>3 DEF LinkInv, StoredInv, UnusedInv
<1> QED BY <1>5, <1>6, <1>7 DEF LinkInv

LEMMA PushCastLink ==
    ASSUME JournalType, NEW k \in Conn, LinkInv(k), PushCast(k)
    PROVE  LinkInv(k)'
<1>1. /\ work[k].m = "casting" /\ work'[k] = NoWork /\ down'[k] = down[k]
      /\ UNCHANGED <<journal, member, up, conn, alive, read, said, cut>>
    BY DEF PushCast, JournalType
<1>2. ~(conn[k[1]] < k[2])
    BY <1>1, InUse DEF LinkInv, NoWork
<1>3. JoinInv(k)'
    BY <1>1 DEF LinkInv, JoinInv, NoWork
<1>4. KnownInv(k)'
    BY <1>1 DEF LinkInv, KnownInv, Cast, NoWork, Known
<1>5. StoredInv(k)' /\ UnusedInv(k)'
    BY <1>1, <1>2 DEF LinkInv, StoredInv, UnusedInv, Stored, NoWork
<1> QED BY <1>3, <1>4, <1>5 DEF LinkInv

LEMMA SnapshotLink ==
    ASSUME JournalType, NEW k \in Conn, LinkInv(k), Snapshot(k)
    PROVE  LinkInv(k)'
<1>1. /\ up[k] # <<>> /\ Head(up[k]).m = "snap" /\ work[k] = NoWork /\ Pop(k)
      /\ UNCHANGED <<member, work, down, conn, alive, slipped, read, said>>
    BY DEF Snapshot, Starts
<1>2. Stored \subseteq Stored'
    BY ServerStores DEF ServerOf
<1>3. /\ Once(up'[k], "join")
      /\ Has(up'[k], "join") => Has(up[k], "join")
      /\ Has(up'[k], "snap") => Has(up[k], "snap")
      /\ SnapKnows(up'[k], Known(k))
      /\ ~(conn[k[1]] < k[2])
    BY <1>1, CallTaken
<1>4. JoinInv(k)'
    BY <1>1, <1>3 DEF LinkInv, JoinInv
<1>5. KnownInv(k)'
    BY <1>1, <1>3 DEF LinkInv, KnownInv, Cast, Known
<1>6. StoredInv(k)' /\ UnusedInv(k)'
    BY <1>1, <1>2, <1>3 DEF LinkInv, StoredInv, UnusedInv
<1> QED BY <1>4, <1>5, <1>6 DEF LinkInv

LEMMA HangupLink ==
    ASSUME JournalType, NEW k \in Conn, LinkInv(k), Hangup(k)
    PROVE  LinkInv(k)'
<1>1. /\ up'[k] = <<>> /\ work[k] = NoWork /\ k \notin member'
      /\ UNCHANGED <<journal, work, down, conn, alive, slipped, read, said, cut>>
    BY DEF Hangup, JournalType, history
<1>2. /\ ~Has(up'[k], "join") /\ Once(up'[k], "join") /\ ~Has(up'[k], "snap")
      /\ SnapKnows(up'[k], Known(k)')
    BY <1>1, NoKinds, NoSnapKnows
<1>3. JoinInv(k)'
    BY <1>1, <1>2 DEF LinkInv, JoinInv, NoWork
<1>4. KnownInv(k)'
    BY <1>1, <1>2 DEF LinkInv, KnownInv, Cast
<1>5. StoredInv(k)' /\ UnusedInv(k)'
    BY <1>1 DEF LinkInv, StoredInv, UnusedInv, Unused, Stored
<1> QED BY <1>3, <1>4, <1>5 DEF LinkInv

\* What a step of connection j's dispatcher does to another connection.
LEMMA ServerElsewhere ==
    ASSUME HubInv, NEW j \in Conn, ServerOf(j), NEW k \in Conn, k # j
    PROVE  /\ up'[k] = up[k] /\ work'[k] = work[k] /\ read'[k] = read[k] /\ said'[k] = said[k]
           /\ k \in member' <=> k \in member
           /\ DownStep(k)
<1>1. /\ up'[k] = up[k] /\ work'[k] = work[k] /\ read'[k] = read[k] /\ said'[k] = said[k]
      /\ k \in member' <=> k \in member
    <2>1. JournalType
        BY DEF HubInv
    <2>2. CASE JoinRead(j) \/ JoinAnswer(j)
        BY <2>1, <2>2 DEF JoinRead, JoinAnswer, Pop, JournalType, history
    <2>3. CASE PushAppend(j) \/ PushCast(j)
        BY <2>1, <2>3 DEF PushAppend, PushCast, Pop, JournalType
    <2>4. CASE Snapshot(j) \/ Hangup(j)
        BY <2>1, <2>4 DEF Snapshot, Hangup, Pop, JournalType, history
    <2> QED BY <2>2, <2>3, <2>4 DEF ServerOf
<1>2. CASE PushCast(j)
    <2>1. /\ work[j] \in Work /\ work[j].m = "casting"
          /\ down'[k] = down[k] \/ (k \in member /\ down'[k] = Append(down[k], [m |-> "op", st |-> work[j].st]))
        BY <1>2 DEF PushCast, HubInv, JournalType
    <2>2. work[j].st \in SUBSET Update /\ work[j].st \subseteq Stored
        BY <2>1, WorkFields DEF HubInv, LinkInv, KnownInv, StoredInv, Cast
    <2>3. Stored \subseteq Stored'
        BY ServerStores DEF HubInv
    <2> QED BY <1>1, <2>1, <2>2, <2>3 DEF DownStep
<1>3. CASE ~PushCast(j)
    <2>1. down'[k] = down[k]
        BY <1>3 DEF ServerOf, JoinRead, JoinAnswer, PushAppend, Snapshot, Hangup, HubInv, JournalType
    <2> QED BY <1>1, <2>1 DEF DownStep
<1> QED BY <1>2, <1>3

LEMMA ServerInv ==
    ASSUME HubInv, NEW j \in Conn, ServerOf(j)
    PROVE  HubInv'
<1>1. JournalType /\ JournalType' /\ Stored \subseteq Stored' /\ conn' = conn
    <2>1. conn' = conn
        BY DEF ServerOf, JoinRead, JoinAnswer, PushAppend, PushCast, Snapshot, Hangup
    <2> QED BY <2>1, ServerType, ServerStores DEF HubInv
<1>2. LinkInv(j)'
    <2>1. LinkInv(j)
        BY DEF HubInv
    <2> QED BY <1>1, <2>1, JoinReadLink, JoinAnswerLink, PushAppendLink, PushCastLink, SnapshotLink,
               HangupLink DEF ServerOf
<1>3. ASSUME NEW k \in Conn, k # j PROVE LinkInv(k)'
    <2>1. LinkInv(k)
        BY DEF HubInv
    <2>2. /\ up'[k] = up[k] /\ work'[k] = work[k] /\ read'[k] = read[k] /\ said'[k] = said[k]
          /\ k \in member' <=> k \in member
          /\ DownStep(k)
        BY <1>3, ServerElsewhere
    <2> QED BY <1>1, <2>1, <2>2, LinkStill
<1> QED BY <1>1, <1>2, <1>3 DEF HubInv

\* A snapshot knows what its connection has read and said.
LEMMA SnapshotKnows ==
    ASSUME HubInv, NEW k \in Conn, Snapshot(k)
    PROVE  Known(k) \subseteq Content(journal')
<1>1. /\ up[k] # <<>> /\ Head(up[k]).m = "snap" /\ work[k] = NoWork /\ Pop(k)
      /\ JournalType /\ LinkInv(k)
    BY DEF Snapshot, Starts, HubInv
<1>2. Known(k) \subseteq Head(up[k]).st
    BY <1>1, CallTaken
<1> QED BY <1>1, <1>2, ServerStores DEF ServerOf

-----------------------------------------------------------------------------
(* Who hears what.                                                          *)

LEMMA CastsStep ==
    ASSUME HubInv, NEW j \in Conn, ServerOf(j)
    PROVE  /\ \A k \in Conn : slipped[k] \subseteq slipped'[k]
           /\ ~PushCast(j) => Casts \subseteq Casts'
           /\ Casts \subseteq Casts' \cup Cast(j)
           /\ PushAppend(j) => Head(up[j]).st \subseteq Casts'
<1>1. \A k \in Conn : k # j => Cast(k)' = Cast(k)
    BY ServerElsewhere DEF Cast
<1>2. ~PushCast(j) => Cast(j) \subseteq Cast(j)'
    <2>1. work'[j] = work[j] \/ work[j] = NoWork \/ work[j].m = "joining" \/ PushCast(j)
        BY DEF ServerOf, JoinRead, JoinAnswer, PushAppend, Snapshot, Hangup, Starts
    <2> QED BY <2>1 DEF Cast, NoWork
<1>3. PushAppend(j) => Cast(j)' = Head(up[j]).st
    BY DEF PushAppend, Cast, HubInv, JournalType
<1>4. \A k \in Conn : slipped[k] \subseteq slipped'[k]
    <2>1. CASE PushCast(j)
        BY <2>1 DEF PushCast
    <2>2. CASE ~PushCast(j)
        BY <2>2 DEF ServerOf, JoinRead, JoinAnswer, PushAppend, Snapshot, Hangup, history
    <2> QED BY <2>1, <2>2
<1> QED BY <1>1, <1>2, <1>3, <1>4 DEF Casts

\* What is new to the group is being told; what a snapshot brings back has been cut.
LEMMA MissingStep ==
    ASSUME HubInv, NEW j \in Conn, ServerOf(j)
    PROVE  Missing' \subseteq Missing \cup Casts'
<1> DEFINE Heard == UNION {said[k] : k \in Conn}
<1>1. /\ Heard \subseteq Stored /\ Seed \subseteq Stored
    BY DEF HubInv, LinkInv, StoredInv
<1>2. CASE PushAppend(j)
    <2>1. /\ Content(journal') = Content(journal) \cup Head(up[j]).st
          /\ Head(up[j]).st \subseteq Casts'
        BY <1>2, ServerStores, CastsStep DEF HubInv
    <2>2. /\ said' = [said EXCEPT ![j] = @ \cup Head(up[j]).st] /\ cut' = cut
        BY <1>2 DEF PushAppend
    <2>3. Heard' \subseteq Heard \cup Casts'
        BY <2>1, <2>2 DEF HubInv, JournalType
    <2> HIDE DEF Heard
    <2>4. /\ Missing = (Content(journal) \cap (Seed \cup Heard)) \ cut
          /\ Missing' = (Content(journal') \cap (Seed \cup Heard')) \ cut'
        BY DEF Missing, Told, Heard
    <2> QED BY <2>1, <2>2, <2>3, <2>4
<1>3. CASE Snapshot(j)
    <2>1. said' = said /\ cut' = cut \cup (Content(journal) \ Head(up[j]).st)
        BY <1>3 DEF Snapshot
    <2> HIDE DEF Heard
    <2>2. /\ Missing = (Content(journal) \cap (Seed \cup Heard)) \ cut
          /\ Missing' = (Content(journal') \cap (Seed \cup Heard)) \ cut'
        BY <2>1 DEF Missing, Told, Heard
    <2> QED BY <1>1, <2>1, <2>2 DEF Stored
<1>4. CASE ~PushAppend(j) /\ ~Snapshot(j)
    BY <1>4 DEF ServerOf, JoinRead, JoinAnswer, PushCast, Hangup, Missing, Told, history
<1> QED BY <1>2, <1>3, <1>4

\* A kind is still in the queue when another call is taken, or one is added.
LEMMA KindStays ==
    ASSUME NEW T, NEW s \in Seq(T), NEW m, Has(s, m)
    PROVE  /\ s # <<>> /\ Head(s).m # m => Has(Tail(s), m)
           /\ \A e \in T : Has(Append(s, e), m)
<1> PICK i \in DOMAIN s : s[i].m = m
    BY DEF Has
<1>1. ASSUME s # <<>>, Head(s).m # m PROVE Has(Tail(s), m)
    <2>1. Head(s) = s[1] /\ i # 1
        BY <1>1
    <2>2. i - 1 \in DOMAIN Tail(s) /\ Tail(s)[i - 1] = s[i]
        BY <2>1
    <2> QED BY <2>2 DEF Has
<1>2. ASSUME NEW e \in T PROVE Has(Append(s, e), m)
    BY AppendFacts DEF Has
<1> QED BY <1>1, <1>2

\* A step of the hub leaves no live client behind that shows what it has said.
LEMMA ServerHears ==
    ASSUME HubInv, NEW j \in Conn, ServerOf(j), NEW k \in Conn, k \in alive,
           NEW S, said[k] \subseteq S, Hears(k, S)
    PROVE  Hears(k, S)'
<1>1. /\ Missing' \subseteq Missing \cup Casts'
      /\ slipped[k] \subseteq slipped'[k]
      /\ ~PushCast(j) => Casts \subseteq Casts'
      /\ Casts \subseteq Casts' \cup Cast(j)
    BY MissingStep, CastsStep
<1>2. JournalType /\ LinkInv(k) /\ JoinInv(k) /\ up[k] \in Seq(Call) /\ down[k] \in Seq(Msg)
    BY DEF HubInv, LinkInv, JournalType
<1>3. ~PushCast(j) => Slipping(k) \subseteq Slipping(k)'
    BY <1>1 DEF Slipping
<1>4. CASE j # k
    <2>1. /\ up'[k] = up[k] /\ work'[k] = work[k] /\ (k \in member' <=> k \in member)
          /\ DownStep(k)
        BY <1>4, ServerElsewhere
    <2>2. CASE ~PushCast(j)
        <3>1. down'[k] = down[k]
            BY <1>2, <1>4, <2>2 DEF ServerOf, JoinRead, JoinAnswer, PushAppend, Snapshot, Hangup, JournalType
        <3>2. Missing' \subseteq Missing \cup Slipping(k)'
            BY <1>1 DEF Slipping
        <3> QED BY <1>3, <2>1, <2>2, <3>1, <3>2 DEF Hears, Coming
    <2>3. CASE PushCast(j)
        <3>1. /\ work[j] \in Work /\ work[j].m = "casting" /\ Cast(j) = work[j].st
              /\ k \in member => down'[k] = Append(down[k], [m |-> "op", st |-> work[j].st])
              /\ work[k].m = "joining" =>
                    slipped'[k] = slipped[k] \cup (work[j].st \ Content(work[k].seen))
            BY <1>2, <1>4, <2>3 DEF PushCast, JournalType, Cast
        <3>2. CASE Has(up[k], "join")
            BY <2>1, <3>2 DEF Hears
        <3>3. CASE work[k].m = "joining" /\ Missing \subseteq Content(work[k].seen) \cup Slipping(k)
            BY <1>1, <2>1, <3>1, <3>3 DEF Hears, Slipping, Coming
        <3>4. CASE k \in member /\ Missing \subseteq S \cup Coming(k) \cup Slipping(k)
            <4> DEFINE op == [m |-> "op", st |-> work[j].st]
            <4>1. op \in Msg /\ op.st = Cast(j)
                BY <3>1, WorkFields DEF Msg
            <4>2. down'[k] = Append(down[k], op)
                BY <3>1, <3>4
            <4> HIDE DEF op
            <4>3. AllStates(down'[k]) = AllStates(down[k]) \cup {Cast(j)}
                BY <1>2, <4>1, <4>2, AllStatesSteps
            <4>4. Missing' \subseteq S \cup Coming(k)' \cup Slipping(k)'
                BY <1>1, <3>4, <4>3 DEF Slipping, Coming
            <4> QED BY <2>1, <3>4, <4>4 DEF Hears
        <3> QED BY <3>2, <3>3, <3>4 DEF Hears
    <2> QED BY <2>2, <2>3
<1>5. CASE JoinRead(k)
    <2>1. work'[k] = [m |-> "joining", seen |-> journal] /\ journal' = journal
        BY <1>2, <1>5 DEF JoinRead, JournalType
    <2> QED BY <2>1 DEF Hears, Missing, Told
<1>6. CASE JoinAnswer(k)
    <2> DEFINE init == [m |-> "init", st |-> Content(work[k].seen),
                        long |-> Len(work[k].seen) > CompactThreshold]
    <2>1. /\ work[k] \in Work /\ work[k].m = "joining" /\ k \in member'
          /\ down'[k] = Append(down[k], init)
          /\ ~PushCast(k)
        BY <1>2, <1>6 DEF JoinAnswer, JournalType, PushCast
    <2>2. init \in Msg /\ init.st = Content(work[k].seen)
        BY <2>1, WorkFields, ContentFacts DEF Msg
    <2>3. ~Has(up[k], "join") /\ k \notin member
        BY <1>2, <2>1 DEF JoinInv
    <2> HIDE DEF init
    <2>4. AllStates(down'[k]) = AllStates(down[k]) \cup {Content(work[k].seen)}
        BY <1>2, <2>1, <2>2, AllStatesSteps
    <2>5. Missing \subseteq Content(work[k].seen) \cup Slipping(k)
        BY <2>3 DEF Hears
    <2>6. Casts \subseteq Casts'
        <3>1. ServerOf(k) 
            BY <1>6 DEF ServerOf
        <3> QED BY <2>1, <3>1, CastsStep
    <2>7. Missing' \subseteq Missing /\ slipped' = slipped
        BY <1>6 DEF JoinAnswer, Missing, Told, history
    <2> QED BY <2>1, <2>4, <2>5, <2>6, <2>7 DEF Hears, Slipping, Coming
<1>7. CASE j = k /\ (PushAppend(k) \/ Snapshot(k))
    <2>1. /\ up[k] # <<>> /\ Head(up[k]).m # "join" /\ up'[k] = Tail(up[k]) /\ work[k] = NoWork
          /\ member' = member /\ down' = down /\ ~PushCast(k)
        BY <1>2, <1>7 DEF PushAppend, Snapshot, PushCast, Starts, Pop, JournalType, NoWork
    <2>2. CASE Has(up[k], "join")
        BY <1>2, <2>1, <2>2, KindStays DEF Hears
    <2>3. CASE k \in member /\ Missing \subseteq S \cup Coming(k) \cup Slipping(k)
        BY <1>1, <1>3, <1>7, <2>1, <2>3 DEF Hears, Slipping, Coming
    <2> QED BY <2>1, <2>2, <2>3 DEF Hears, NoWork
<1>8. CASE j = k /\ PushCast(k)
    <2>1. /\ work[k].m = "casting" /\ up' = up /\ member' = member /\ down'[k] = down[k]
        BY <1>2, <1>8 DEF PushCast, JournalType
    <2>2. Cast(k) \subseteq S
        BY <1>2 DEF LinkInv, KnownInv
    <2> QED BY <1>1, <1>8, <2>1, <2>2 DEF Hears, Slipping, Coming
<1> QED BY <1>4, <1>5, <1>6, <1>7, <1>8 DEF ServerOf, Hangup

-----------------------------------------------------------------------------
(* What the clients do to a connection: the hub's half is unchanged.        *)

HubStill == UNCHANGED <<journal, member, work, history>>

LEMMA HubStillFacts ==
    ASSUME HubStill
    PROVE  /\ UNCHANGED <<journal, member, work, slipped, read, said, cut>>
           /\ Stored' = Stored /\ Missing' = Missing /\ Casts' = Casts
           /\ \A k \in Conn : Slipping(k)' = Slipping(k) /\ Known(k)' = Known(k) /\ Cast(k)' = Cast(k)
    BY DEF HubStill, history, Stored, Missing, Told, Casts, Cast, Slipping, Known

\* Adding a call to a queue.
LEMMA CallSent ==
    ASSUME NEW s \in Seq(Call), NEW e \in Call, e.m # "join", NEW K, SnapKnows(s, K),
           e.m = "snap" => K \cup Pushes(s) \subseteq e.st
    PROVE  /\ Append(s, e) \in Seq(Call)
           /\ SnapKnows(Append(s, e), K)
           /\ Once(s, "join") => Once(Append(s, e), "join")
           /\ Has(Append(s, e), "join") <=> Has(s, "join")
           /\ e.m # "snap" /\ Has(Append(s, e), "snap") => Has(s, "snap")
           /\ e.m = "push" => Pushes(Append(s, e)) = Pushes(s) \cup e.st
           /\ e.m # "push" => Pushes(Append(s, e)) = Pushes(s)
<1>1. Append(s, e) \in Seq(Call) /\ SnapKnows(Append(s, e), K)
    BY AppendFacts, SnapKnowsAfterAppend
<1>2. /\ Once(s, "join") => Once(Append(s, e), "join")
      /\ Has(Append(s, e), "join") => Has(s, "join")
    BY KindsAfterAppend
<1>3. Has(s, "join") => Has(Append(s, e), "join")
    BY KindStays
<1>4. e.m # "snap" /\ Has(Append(s, e), "snap") => Has(s, "snap")
    BY KindsAfterAppend
<1>5. /\ e.m = "push" => Pushes(Append(s, e)) = Pushes(s) \cup e.st
      /\ e.m # "push" => Pushes(Append(s, e)) = Pushes(s)
    BY PushesAfterAppend
<1> QED BY <1>1, <1>2, <1>3, <1>4, <1>5

LEMMA PushLink ==
    ASSUME JournalType, HubStill, conn' = conn, NEW k \in Conn, LinkInv(k), ~(conn[k[1]] < k[2]),
           down'[k] = down[k], NEW S \in SUBSET Update, up'[k] = Append(up[k], PushCall(S))
    PROVE  /\ LinkInv(k)' /\ up'[k] \in Seq(Call)
           /\ Has(up[k], "join") => Has(up'[k], "join")
           /\ Pushes(up'[k]) = Pushes(up[k]) \cup S
<1> DEFINE e == PushCall(S)
<1>1. e \in Call /\ e.m = "push" /\ e.st = S /\ up[k] \in Seq(Call)
    BY DEF PushCall, Call, JournalType
<1> HIDE DEF e
<1>2. /\ Append(up[k], e) \in Seq(Call)
      /\ SnapKnows(Append(up[k], e), Known(k))
      /\ Once(Append(up[k], e), "join")
      /\ Has(Append(up[k], e), "join") <=> Has(up[k], "join")
      /\ Has(Append(up[k], e), "snap") => Has(up[k], "snap")
      /\ Pushes(Append(up[k], e)) = Pushes(up[k]) \cup S
    <2>1. SnapKnows(up[k], Known(k)) /\ Once(up[k], "join")
        BY DEF LinkInv, KnownInv, JoinInv
    <2> QED BY <1>1, <2>1, CallSent
<1>3. up'[k] = Append(up[k], e)
    BY DEF e
<1>4. JoinInv(k)'
    BY <1>2, <1>3, HubStillFacts DEF LinkInv, JoinInv
<1>5. KnownInv(k)'
    BY <1>2, <1>3, HubStillFacts DEF LinkInv, KnownInv
<1>6. StoredInv(k)' /\ UnusedInv(k)'
    BY HubStillFacts DEF LinkInv, StoredInv, UnusedInv
<1> QED BY <1>2, <1>3, <1>4, <1>5, <1>6 DEF LinkInv

\* A connection that is opened: a join is its first call, if any.
LEMMA NewLink ==
    ASSUME JournalType, HubStill, NEW k \in Conn, LinkInv(k),
           conn[k[1]] < k[2], ~(conn'[k[1]] < k[2]),
           down'[k] = down[k], up'[k] \in {up[k], up[k] \o <<JoinCall>>}
    PROVE  /\ LinkInv(k)' /\ up'[k] \in Seq(Call)
           /\ up'[k] = up[k] \o <<JoinCall>> => Has(up'[k], "join")
           /\ said[k] = {} /\ Pushes(up'[k]) = {}
<1>1. up[k] = <<>> /\ down[k] = <<>> /\ work[k] = NoWork /\ k \notin member /\ read[k] = {} /\ said[k] = {}
    BY DEF LinkInv, UnusedInv, Unused
<1>2. up'[k] = <<>> \/ up'[k] = <<JoinCall>>
    BY <1>1
<1>3. /\ up'[k] \in Seq(Call) /\ Once(up'[k], "join") /\ ~Has(up'[k], "snap")
      /\ ~Has(up'[k], "push")
      /\ up'[k] = <<JoinCall>> => Has(up'[k], "join")
    <2>1. JoinCall \in Call /\ JoinCall.m = "join"
        BY DEF JoinCall, Call
    <2>2. CASE up'[k] = <<>>
        BY <2>2, NoKinds
    <2>3. CASE up'[k] = <<JoinCall>>
        <3>1. DOMAIN up'[k] = {1} /\ up'[k][1] = JoinCall /\ up'[k] \in Seq(Call)
            BY <2>1, <2>3
        <3> QED BY <2>1, <3>1 DEF Once, Has
    <2> QED BY <1>2, <2>2, <2>3
<1>4. Pushes(up'[k]) = {}
    BY <1>3, NoKinds DEF Pushes
<1>5. ~Has(down[k], "init") /\ Once(down[k], "init") /\ States(down[k], "init") = {} /\ AllStates(down[k]) = {}
    BY <1>1, NoKinds, AllStatesSteps
<1>6. JoinInv(k)'
    BY <1>1, <1>3, <1>5, HubStillFacts DEF JoinInv, NoWork
<1>7. KnownInv(k)'
    BY <1>1, <1>3, <1>5, HubStillFacts, NoSnapKnows DEF KnownInv, Cast, NoWork
<1>8. StoredInv(k)'
    BY <1>1, <1>5, HubStillFacts DEF StoredInv, NoWork
<1>9. UnusedInv(k)'
    BY DEF UnusedInv
<1>10. <<>> \o <<JoinCall>> = <<JoinCall>>
    OBVIOUS
<1> QED BY <1>1, <1>3, <1>4, <1>6, <1>7, <1>8, <1>9, <1>10 DEF LinkInv

\* k receives a message and merges it into D; the answer to a join may be followed
\* by a snapshot of the result, and by a push of it.
Received(k, D, snaps, pushes) ==
    /\ D \in SUBSET Update
    /\ snaps \in {<<>>, <<SnapCall(D)>>} /\ pushes \in {<<>>, <<PushCall(D)>>}
    /\ down[k] # <<>> /\ down'[k] = Tail(down[k])
    /\ Head(down[k]).st \subseteq D /\ said[k] \cup Pushes(up[k]) \subseteq D
    /\ snaps # <<>> => Head(down[k]).m = "init"
    /\ up'[k] = up[k] \o (snaps \o pushes)

\* What is on its way to the hub then.
SaysAfter(k, D, pushes) ==
    /\ up'[k] \in Seq(Call)
    /\ Has(up[k], "join") => Has(up'[k], "join")
    /\ Pushes(up'[k]) \subseteq D
    /\ Pushes(up[k]) \subseteq Pushes(up'[k])
    /\ pushes # <<>> => D \subseteq Pushes(up'[k])

\* The connection stays as it should be.
LEMMA ReceiveLink ==
    ASSUME JournalType, HubStill, conn' = conn, NEW k \in Conn, LinkInv(k), ~(conn[k[1]] < k[2]),
           NEW D, NEW snaps, NEW pushes, Received(k, D, snaps, pushes)
    PROVE  LinkInv(k)' /\ SaysAfter(k, D, pushes)
<1> USE DEF Received
<1> DEFINE s == SnapCall(D)
           p == PushCall(D)
           q == IF snaps = <<>> THEN up[k] ELSE Append(up[k], s)
<1>1. /\ s \in Call /\ s.m = "snap" /\ s.st = D /\ p \in Call /\ p.m = "push" /\ p.st = D
      /\ up[k] \in Seq(Call)
    BY DEF SnapCall, PushCall, Call, JournalType
<1>2. up'[k] = (IF pushes = <<>> THEN q ELSE Append(q, p))
    <2>1. <<s>> # <<>> /\ <<p>> # <<>>
        OBVIOUS
    <2>2. /\ up[k] \o (<<>> \o <<>>) = up[k]
          /\ up[k] \o (<<s>> \o <<>>) = Append(up[k], s)
          /\ up[k] \o (<<>> \o <<p>>) = Append(up[k], p)
          /\ up[k] \o (<<s>> \o <<p>>) = Append(Append(up[k], s), p)
        <3> HIDE DEF s, p
        <3> QED BY <1>1
    <2> HIDE DEF s, p
    <2>3. snaps \in {<<>>, <<s>>} /\ pushes \in {<<>>, <<p>>}
        BY DEF s, p
    <2> QED BY <2>1, <2>2, <2>3
<1> HIDE DEF s, p
<1>3. /\ Once(down[k], "init") /\ States(Tail(down[k]), "init") \subseteq States(down[k], "init")
      /\ Has(Tail(down[k]), "init") => Has(down[k], "init")
      /\ Head(down[k]).m = "init" => /\ ~Has(Tail(down[k]), "init") /\ Has(down[k], "init")
                                     /\ Head(down[k]).st \in States(down[k], "init")
      /\ Once(Tail(down[k]), "init")
      /\ AllStates(Tail(down[k])) \subseteq AllStates(down[k])
    <2>1. down[k] \in Seq(Msg) /\ Once(down[k], "init")
        BY DEF JournalType, LinkInv, JoinInv
    <2>2. /\ States(Tail(down[k]), "init") \subseteq States(down[k], "init")
          /\ Has(Tail(down[k]), "init") => Has(down[k], "init")
          /\ Once(Tail(down[k]), "init")
          /\ Head(down[k]).m = "init" => /\ ~Has(Tail(down[k]), "init") /\ Has(down[k], "init")
                                         /\ Head(down[k]).st \in States(down[k], "init")
        BY <2>1, KindsAfterTail
    <2> QED BY <2>1, <2>2, AllStatesSteps
<1>4. snaps # <<>> => Known(k) \cup Pushes(up[k]) \subseteq D
    BY <1>3 DEF LinkInv, KnownInv, Known
<1>5. /\ q \in Seq(Call) /\ SnapKnows(q, Known(k)) /\ Once(q, "join")
      /\ Has(q, "join") <=> Has(up[k], "join")
      /\ Has(q, "snap") => snaps # <<>> \/ Has(up[k], "snap")
      /\ Pushes(q) = Pushes(up[k])
    <2>1. SnapKnows(up[k], Known(k)) /\ Once(up[k], "join")
        BY DEF LinkInv, KnownInv, JoinInv
    <2>2. CASE snaps = <<>>
        BY <1>1, <2>1, <2>2
    <2>3. CASE snaps # <<>>
        <3>1. /\ Append(up[k], s) \in Seq(Call)
              /\ SnapKnows(Append(up[k], s), Known(k))
              /\ Once(Append(up[k], s), "join")
              /\ Has(Append(up[k], s), "join") <=> Has(up[k], "join")
              /\ Pushes(Append(up[k], s)) = Pushes(up[k])
            BY <1>1, <1>4, <2>1, <2>3, CallSent
        <3> QED BY <2>3, <3>1
    <2> QED BY <2>2, <2>3
<1> HIDE DEF q
<1>6. /\ up'[k] \in Seq(Call) /\ SnapKnows(up'[k], Known(k)) /\ Once(up'[k], "join")
      /\ Has(up'[k], "join") <=> Has(up[k], "join")
      /\ Has(up'[k], "snap") => snaps # <<>> \/ Has(up[k], "snap")
      /\ Pushes(up'[k]) = Pushes(up[k]) \cup (IF pushes = <<>> THEN {} ELSE D)
    <2>1. CASE pushes = <<>>
        BY <1>2, <1>5, <2>1
    <2>2. CASE pushes # <<>>
        <3>1. /\ Append(q, p) \in Seq(Call)
              /\ SnapKnows(Append(q, p), Known(k))
              /\ Once(Append(q, p), "join")
              /\ Has(Append(q, p), "join") <=> Has(q, "join")
              /\ Has(Append(q, p), "snap") => Has(q, "snap")
              /\ Pushes(Append(q, p)) = Pushes(q) \cup D
            BY <1>1, <1>5, CallSent
        <3> QED BY <1>2, <1>5, <2>2, <3>1
    <2> QED BY <2>1, <2>2
<1>7. JoinInv(k)'
    BY <1>3, <1>6, HubStillFacts DEF LinkInv, JoinInv
<1>8. KnownInv(k)'
    BY <1>3, <1>6, HubStillFacts DEF LinkInv, KnownInv
<1>9. StoredInv(k)' /\ UnusedInv(k)'
    BY <1>3, HubStillFacts DEF LinkInv, StoredInv, UnusedInv
<1> QED BY <1>6, <1>7, <1>8, <1>9 DEF LinkInv, SaysAfter

\* A client that only adds calls, and to what it shows, hears as much.
LEMMA ClientHears ==
    ASSUME HubStill, NEW k \in Conn, NEW S, Hears(k, S), NEW T, S \subseteq T,
           Has(up[k], "join") => Has(up'[k], "join"),
           Coming(k) \subseteq T \cup Coming(k)'
    PROVE  Hears(k, T)'
    BY HubStillFacts DEF Hears

LEMMA ComingReceived ==
    ASSUME JournalType, NEW k \in Conn, down[k] # <<>>, down'[k] = Tail(down[k])
    PROVE  Coming(k) \subseteq Head(down[k]).st \cup Coming(k)'
    BY AllStatesSteps DEF JournalType, Coming

\* The messages of the hub are about what it has stored.
LEMMA ReceivedStored ==
    ASSUME HubInv, NEW k \in Conn, down[k] # <<>>
    PROVE  Head(down[k]).st \subseteq Stored /\ Head(down[k]).st \in SUBSET Update
<1>1. Head(down[k]).st \in AllStates(down[k])
    BY AllStatesSteps DEF HubInv, JournalType
<1> QED BY <1>1, MsgReceived DEF HubInv, LinkInv, StoredInv

LEMMA InitHub == JournalInit => HubInv
<1> SUFFICES ASSUME JournalInit PROVE HubInv
    OBVIOUS
<1>1. JournalType
    BY JournalBounds, SeedOpsType DEF JournalInit, JournalType, Work
<1>2. Seed \subseteq Stored
    BY SeedOpsType DEF JournalInit, Stored
<1>3. ASSUME NEW k \in Conn PROVE LinkInv(k)
    <2>1. /\ up[k] = <<>> /\ down[k] = <<>> /\ work[k] = NoWork /\ member = {}
          /\ read[k] = {} /\ said[k] = {}
        BY DEF JournalInit
    <2>2. JoinInv(k) /\ KnownInv(k)
        BY <2>1, NoKinds, NoSnapKnows DEF JoinInv, KnownInv, NoWork, Cast
    <2>3. StoredInv(k) /\ UnusedInv(k)
        BY <2>1, AllStatesSteps DEF StoredInv, UnusedInv, Unused, NoWork
    <2> QED BY <2>2, <2>3 DEF LinkInv
<1> QED BY <1>1, <1>2, <1>3 DEF HubInv

LEMMA StutterHub ==
    ASSUME UNCHANGED journalVars
    PROVE  /\ HubInv => HubInv'
           /\ Stored' = Stored /\ \A k : said'[k] = said[k] /\ up'[k] = up[k]
           /\ \A k \in Conn : \A S : Hears(k, S) => Hears(k, S)'
<1>1. HubStill /\ UNCHANGED <<up, down, conn, alive>>
    BY DEF journalVars, HubStill
<1>2. HubInv => HubInv'
    <2> SUFFICES ASSUME HubInv PROVE HubInv'
        OBVIOUS
    <2>1. JournalType'
        BY <1>1 DEF HubInv, JournalType, HubStill, history
    <2>2. ASSUME NEW k \in Conn PROVE LinkInv(k)'
        BY <1>1, HubStillFacts, LinkStill DEF HubInv, DownStep
    <2> QED BY <1>1, <2>1, <2>2, HubStillFacts DEF HubInv
<1>3. \A k \in Conn : \A S : Hears(k, S) => Hears(k, S)'
    BY <1>1, HubStillFacts DEF Hears, Coming
<1> QED BY <1>1, <1>2, <1>3, HubStillFacts

\* Connections whose queue of calls is left alone.
LEMMA OtherLinks ==
    ASSUME HubInv, HubStill, NEW k \in Conn, up'[k] = up[k],
           DownStep(k), conn'[k[1]] < k[2] => conn[k[1]] < k[2]
    PROVE  LinkInv(k)'
    BY HubStillFacts, LinkStill DEF HubInv

\* A connection is lost, or given up by its client.
LEMMA LostHub ==
    ASSUME HubInv, HubStill, JournalType', up' = up, conn' = conn,
           \A k \in Conn : down'[k] \in {down[k], <<>>}
    PROVE  HubInv'
<1>1. ASSUME NEW k \in Conn PROVE LinkInv(k)'
    <2>1. DownStep(k) /\ up'[k] = up[k]
        BY DEF DownStep
    <2> QED BY <2>1, OtherLinks
<1> QED BY <1>1, HubStillFacts DEF HubInv

\* What a connection is saying reaches the journal.
LEMMA ServerSays ==
    ASSUME HubInv, NEW j \in Conn, ServerOf(j), NEW k \in Conn, k \in alive
    PROVE  /\ said'[k] \cup Pushes(up'[k]) \subseteq said[k] \cup Pushes(up[k])
           /\ Stored \cup Pushes(up[k]) \subseteq Stored' \cup Pushes(up'[k])
<1>1. JournalType /\ Stored \subseteq Stored'
    BY ServerStores DEF HubInv
<1>2. CASE j # k
    BY <1>1, <1>2, ServerElsewhere
<1>3. CASE j = k /\ (PushCast(k) \/ JoinAnswer(k))
    BY <1>1, <1>3 DEF PushCast, JoinAnswer, history
<1>4. CASE j = k /\ (JoinRead(k) \/ PushAppend(k) \/ Snapshot(k))
    <2>1. up[k] # <<>> /\ up'[k] = Tail(up[k])
        BY <1>1, <1>4 DEF JoinRead, PushAppend, Snapshot, Starts, Pop, JournalType
    <2>4. (Head(up[k]).m = "push" /\ PushAppend(k)) \/ (Head(up[k]).m # "push" /\ said'[k] = said[k])
        BY <1>4 DEF JoinRead, PushAppend, Snapshot, Starts
    <2>5. PushAppend(k) => said'[k] = said[k] \cup Head(up[k]).st
        BY <1>1 DEF PushAppend, JournalType
    <2>2. /\ Pushes(Tail(up[k])) \subseteq Pushes(up[k])
          /\ Head(up[k]).m # "push" => Pushes(up[k]) = Pushes(Tail(up[k]))
          /\ Head(up[k]).m = "push" => Pushes(up[k]) = Pushes(Tail(up[k])) \cup Head(up[k]).st
        BY <1>1, <2>1, PushesAfterTail DEF JournalType
    <2>3. PushAppend(k) => Head(up[k]).st \subseteq Stored'
        BY <1>1, ServerStores DEF ServerOf
    <2> QED BY <1>1, <2>1, <2>4, <2>5, <2>2, <2>3
<1> QED BY <1>2, <1>3, <1>4 DEF ServerOf, Hangup

\* A client with nothing on its way, while nothing is being told, has heard all.
LEMMA AllHeard ==
    ASSUME NEW k \in Conn, work[k] = NoWork, up[k] = <<>>, down[k] = <<>>, ~Casting,
           NEW S, Hears(k, S)
    PROVE  Told \ S \subseteq slipped[k] \cup cut
<1>1. ~Has(up[k], "join") /\ Coming(k) = {}
    BY NoKinds, AllStatesSteps DEF Coming
<1>2. Casts = {}
    BY DEF Casts, Cast, Casting
<1> QED BY <1>1, <1>2 DEF Hears, Missing, Slipping, NoWork
=============================================================================
