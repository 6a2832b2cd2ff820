---------------------------- MODULE DocumentLocks ----------------------------
(***************************************************************************)
(* The edit lock of one document whose type is no CRDT: the registry of the *)
(* hub (DocumentLockRegistry, VaultHub), the calls and events of a client's *)
(* hub connection (VaultHubClient), and the editor that acts on them        *)
(* (EditorAreaWidget: it takes the lock when it opens, gives it back when it *)
(* closes, and lets the user ask for it and hand it over).                  *)
(*                                                                         *)
(* Calls of one connection run one at a time, in order; what the server     *)
(* sends down one connection arrives in order.  The locks of two documents  *)
(* do not touch each other.                                                 *)
(***************************************************************************)
EXTENDS Naturals, Sequences, FiniteSets

CONSTANTS Client,    \* the clients, one editor of the document each
          Free,      \* no holder
          MaxConn,   \* bound: connections of a client
          MaxMount,  \* bound: times a client opens the editor; no behaviour has both an
                       \* editor opened again and a connection made again
          MaxQueue,  \* bound: a user clicks while no connection has that many calls,
                       \* or messages, on their way
          Stable,    \* bound: clients whose connection does not break alone
          MayRestart \* bound: the server may restart

ASSUME LockBounds == MaxConn \in Nat \ {0} /\ MaxMount \in Nat \ {0} /\ MaxQueue \in Nat /\ MayRestart \in BOOLEAN
ASSUME FreeAssumption == Free \notin Client /\ Free \notin Client \X (1..MaxConn)

Conn == Client \X (1..MaxConn)
NoWork == [m |-> "none"]

VARIABLES
    holder,  \* the registry: the connection that holds the lock, or Free
    member,  \* connections in the vault's group
    work,    \* what a connection's dispatcher still has to tell
    up,      \* calls sent on a connection and not started
    down,    \* messages sent down a connection and not received
    alive,   \* connections that are up
    conn,    \* number of a client's connection
    mount,   \* how many times the client has opened the editor
    open,    \* the editor is open
    view,    \* its lock state: "none" (nobody holds it), "other", "mine"
    wants,   \* wantsLockRef: the lock is to be taken when it is freed
    asked,   \* lockRequest: someone asks for the lock
    broken   \* history: the connection broke while this editor was open

serverVars == <<holder, member, work>>
editorVars == <<mount, open, view, wants, asked>>
vars == <<holder, member, work, up, down, alive, conn,
          mount, open, view, wants, asked, broken>>

Call == [m : {"acquire"}, n : 1..MaxMount] \cup [m : {"join", "release", "request"}]
Work == {NoWork} \cup [m : {"answer"}, n : 1..MaxMount, by : Conn] \cup [m : {"freed"}]
Msg == [m : {"answer"}, n : 1..MaxMount, by : Conn]
       \cup [m : {"changed"}, by : Conn \cup {Free}] \cup [m : {"asked"}]

TypeOK ==
    /\ holder \in Conn \cup {Free}
    /\ member \in SUBSET Conn
    /\ work \in [Conn -> Work]
    /\ up \in [Conn -> Seq(Call)]
    /\ down \in [Conn -> Seq(Msg)]
    /\ alive \in SUBSET Conn
    /\ conn \in [Client -> 1..MaxConn]
    /\ mount \in [Client -> 0..MaxMount]
    /\ open \in [Client -> BOOLEAN]
    /\ view \in [Client -> {"none", "other", "mine"}]
    /\ wants \in [Client -> BOOLEAN]
    /\ asked \in [Client -> BOOLEAN]
    /\ broken \in [Client -> BOOLEAN]

Current(c) == <<c, conn[c]>>
Connected(c) == Current(c) \in alive

\* The vault is open everywhere, the document nowhere.
Init ==
    /\ holder = Free
    /\ conn = [c \in Client |-> 1]
    /\ alive = {Current(c) : c \in Client}
    /\ member = alive
    /\ work = [k \in Conn |-> NoWork]
    /\ up = [k \in Conn |-> <<>>]
    /\ down = [k \in Conn |-> <<>>]
    /\ mount = [c \in Client |-> 0]
    /\ open = [c \in Client |-> FALSE]
    /\ view = [c \in Client |-> "none"]
    /\ wants = [c \in Client |-> FALSE]
    /\ asked = [c \in Client |-> FALSE]
    /\ broken = [c \in Client |-> FALSE]
-----------------------------------------------------------------------------
(* The editor.                                                              *)

Acquire(n) == [m |-> "acquire", n |-> n]
Plain(m) == [m |-> m]
Quiet == \A k \in Conn : Len(up[k]) < MaxQueue /\ Len(down[k]) < MaxQueue

\* A call is sent when the hub is connected; otherwise it fails at once, or is
\* not tried, and answers null.
Invoke(c, call) ==
    IF Connected(c) THEN up' = [up EXCEPT ![Current(c)] = Append(@, call)] ELSE UNCHANGED up

\* The editor mounts and takes the lock.
Open(c) ==
    /\ ~open[c] /\ mount[c] < MaxMount /\ Quiet
    /\ mount[c] = 0 \/ (\A d \in Client : conn[d] = 1)
    /\ mount' = [mount EXCEPT ![c] = @ + 1]
    /\ open' = [open EXCEPT ![c] = TRUE]
    /\ view' = [view EXCEPT ![c] = "none"]
    /\ wants' = [wants EXCEPT ![c] = FALSE]
    /\ asked' = [asked EXCEPT ![c] = FALSE]
    /\ broken' = [broken EXCEPT ![c] = FALSE]
    /\ Invoke(c, Acquire(mount[c] + 1))
    /\ UNCHANGED <<serverVars, down, alive, conn>>

\* Mutant of Close: the lock is not given back.
CloseKeeps(c) ==
    /\ open[c] /\ Quiet
    /\ open' = [open EXCEPT ![c] = FALSE]
    /\ UNCHANGED <<serverVars, up, down, alive, conn, mount, view, wants, asked, broken>>

\* The editor unmounts and gives the lock back.
Close(c) ==
    /\ open[c] /\ Quiet
    /\ open' = [open EXCEPT ![c] = FALSE]
    /\ Invoke(c, Plain("release"))
    /\ UNCHANGED <<serverVars, down, alive, conn, mount, view, wants, asked, broken>>

\* "Prendre la main" when nobody holds the lock, "Demander la main" otherwise.
Ask(c) ==
    /\ open[c] /\ view[c] # "mine" /\ Quiet
    /\ wants' = [wants EXCEPT ![c] = TRUE]
    /\ Invoke(c, IF view[c] = "none" THEN Acquire(mount[c]) ELSE Plain("request"))
    /\ UNCHANGED <<serverVars, down, alive, conn, mount, open, view, asked, broken>>

\* "Ceder la main".
HandOver(c) ==
    /\ open[c] /\ asked[c] /\ Quiet
    /\ wants' = [wants EXCEPT ![c] = FALSE]
    /\ view' = [view EXCEPT ![c] = "none"]
    /\ asked' = [asked EXCEPT ![c] = FALSE]
    /\ Invoke(c, Plain("release"))
    /\ UNCHANGED <<serverVars, down, alive, conn, mount, open, broken>>

\* "Plus tard".
Later(c) ==
    /\ open[c] /\ asked[c]
    /\ asked' = [asked EXCEPT ![c] = FALSE]
    /\ UNCHANGED <<serverVars, up, down, alive, conn, mount, open, view, wants, broken>>

\* Mutant of Receive: every answer to an acquire is taken for a success.
ReceiveMine(c) ==
    LET k == Current(c)
        msg == Head(down[k])
    IN  /\ Connected(c) /\ down[k] # <<>>
        /\ down' = [down EXCEPT ![k] = Tail(@)]
        /\ view' = IF msg.m = "answer" /\ open[c] THEN [view EXCEPT ![c] = "mine"] ELSE view
        /\ UNCHANGED <<serverVars, up, alive, conn, mount, open, wants, asked, broken>>

\* The client receives the next message:
\*  - the answer to an acquire, ignored once its editor is gone;
\*  - LockChanged: freed, and wanted, it is taken; else it is shown;
\*  - LockRequested.
Receive(c) ==
    LET k == Current(c)
        msg == Head(down[k])
        ours == open[c] /\ (msg.m = "answer" => msg.n = mount[c])
        take == ours /\ msg.m = "changed" /\ wants[c] /\ msg.by = Free
        seen == CASE msg.by = Free -> "none"
                  [] msg.m = "answer" /\ msg.by = k -> "mine"
                  [] OTHER -> "other"
    IN  /\ Connected(c) /\ down[k] # <<>>
        /\ down' = [down EXCEPT ![k] = Tail(@)]
        /\ asked' = IF ours /\ msg.m = "asked" THEN [asked EXCEPT ![c] = TRUE] ELSE asked
        /\ view' = IF ours /\ msg.m # "asked" /\ ~take THEN [view EXCEPT ![c] = seen] ELSE view
        /\ IF take THEN Invoke(c, Acquire(mount[c])) /\ wants' = [wants EXCEPT ![c] = FALSE]
                   ELSE UNCHANGED <<up, wants>>
        /\ UNCHANGED <<serverVars, alive, conn, mount, open, broken>>

\* The connections of the clients in S break.  An acquire without an answer is
\* rejected, and its editor takes that for "nobody"; nothing else in the editor
\* hears of it.
Waiting(c) ==
    LET k == Current(c)
    IN  \/ \E i \in DOMAIN up[k] : up[k][i] = Acquire(mount[c])
        \/ work[k].m = "answer" /\ work[k].n = mount[c]
        \/ \E i \in DOMAIN down[k] : down[k][i].m = "answer" /\ down[k][i].n = mount[c]
Break(S) ==
    /\ alive' = alive \ {Current(c) : c \in S}
    /\ down' = [k \in Conn |-> IF k[1] \in S THEN <<>> ELSE down[k]]
    /\ view' = [c \in Client |-> IF c \in S /\ open[c] /\ Waiting(c) THEN "none" ELSE view[c]]
    /\ broken' = [c \in Client |-> broken[c] \/ (c \in S /\ open[c])]
    /\ UNCHANGED <<conn, mount, open, wants, asked>>

Drop(c) ==
    /\ Connected(c) /\ c \notin Stable
    /\ Break({c})
    /\ UNCHANGED <<serverVars, up>>

\* Automatic reconnection: JoinVault is sent; the lock is not asked for again.
Reconnect(c) ==
    LET k == <<c, conn[c] + 1>>
    IN  /\ ~Connected(c) /\ conn[c] < MaxConn /\ (\A d \in Client : mount[d] < 2)
        /\ conn' = [conn EXCEPT ![c] = @ + 1]
        /\ alive' = alive \cup {k}
        /\ up' = [up EXCEPT ![k] = <<Plain("join")>>]
        /\ UNCHANGED <<serverVars, down, editorVars, broken>>
-----------------------------------------------------------------------------
(* The server.                                                              *)

Starts(k, m) == work[k] = NoWork /\ up[k] # <<>> /\ Head(up[k]).m = m
Pop(k) == up' = [up EXCEPT ![k] = Tail(@)]
Told(S, msg) == [k \in Conn |-> IF k \in S \cap alive THEN Append(down[k], msg) ELSE down[k]]

\* JoinVault (see VaultDirectory): here, entering the group.
Join(k) ==
    /\ Starts(k, "join")
    /\ Pop(k)
    /\ member' = member \cup {k}
    /\ UNCHANGED <<holder, work, down, alive, conn, editorVars, broken>>

\* Mutant of AcquireLock: the registry remembers the user, not the connection.
AcquireByUser(k) ==
    /\ Starts(k, "acquire")
    /\ Pop(k)
    /\ holder' = IF holder = Free THEN k[1] ELSE holder
    /\ work' = [work EXCEPT ![k] = [m |-> "answer", n |-> Head(up[k]).n, by |-> holder']]
    /\ UNCHANGED <<member, down, alive, conn, editorVars, broken>>

\* AcquireLock up to TryAcquire: taken if free.
AcquireLock(k) ==
    /\ Starts(k, "acquire")
    /\ Pop(k)
    /\ holder' = IF holder = Free THEN k ELSE holder
    /\ work' = [work EXCEPT ![k] = [m |-> "answer", n |-> Head(up[k]).n, by |-> holder']]
    /\ UNCHANGED <<member, down, alive, conn, editorVars, broken>>

\* AcquireLock, the rest: the others in the group are told of a lock taken (or
\* held already) by the caller; the caller is answered.
Answer(k) ==
    LET w == work[k]
        others == IF w.by = k THEN member \ {k} ELSE {}
        changed == [m |-> "changed", by |-> k]
    IN  /\ w.m = "answer"
        /\ work' = [work EXCEPT ![k] = NoWork]
        /\ down' = [j \in Conn |-> IF j = k /\ k \in alive THEN Append(down[k], w)
                                   ELSE Told(others, changed)[j]]
        /\ UNCHANGED <<holder, member, up, alive, conn, editorVars, broken>>

\* ReleaseLock up to Release: only the holder frees the lock.
ReleaseLock(k) ==
    /\ Starts(k, "release")
    /\ Pop(k)
    /\ IF holder = k THEN holder' = Free /\ work' = [work EXCEPT ![k] = [m |-> "freed"]]
                     ELSE UNCHANGED <<holder, work>>
    /\ UNCHANGED <<member, down, alive, conn, editorVars, broken>>

\* ReleaseLock, OnDisconnectedAsync, the rest: the whole group is told.
Freed(k) ==
    /\ work[k].m = "freed"
    /\ work' = [work EXCEPT ![k] = NoWork]
    /\ down' = Told(member, [m |-> "changed", by |-> Free])
    /\ UNCHANGED <<holder, member, up, alive, conn, editorVars, broken>>

\* RequestLock: the holder is told that it is asked for the lock.
RequestLock(k) ==
    /\ Starts(k, "request")
    /\ Pop(k)
    /\ down' = Told({holder}, [m |-> "asked"])
    /\ UNCHANGED <<holder, member, work, alive, conn, editorVars, broken>>

\* Mutant of OnDisconnected: the locks of the connection are not released.
OnDisconnectedKeeps(k) ==
    /\ k \notin alive /\ work[k] = NoWork
    /\ k \in member \/ up[k] # <<>> \/ holder = k
    /\ up' = [up EXCEPT ![k] = <<>>]
    /\ member' = member \ {k}
    /\ UNCHANGED <<holder, work, down, alive, conn, editorVars, broken>>

\* OnDisconnectedAsync: the calls of a lost connection that have not started
\* are dropped, and its lock is released.
OnDisconnected(k) ==
    /\ k \notin alive /\ work[k] = NoWork
    /\ k \in member \/ up[k] # <<>> \/ holder = k
    /\ up' = [up EXCEPT ![k] = <<>>]
    /\ member' = member \ {k}
    /\ IF holder = k THEN holder' = Free /\ work' = [work EXCEPT ![k] = [m |-> "freed"]]
                     ELSE UNCHANGED <<holder, work>>
    /\ UNCHANGED <<down, alive, conn, editorVars, broken>>

\* The server restarts: the registry is in memory, every lock is gone.
Restart ==
    /\ MayRestart /\ alive # {}
    /\ Break(Client)
    /\ holder' = Free
    /\ member' = {}
    /\ work' = [k \in Conn |-> NoWork]
    /\ up' = [k \in Conn |-> <<>>]

Server(k) == \/ Join(k) \/ AcquireLock(k) \/ Answer(k) \/ ReleaseLock(k) \/ Freed(k)
             \/ RequestLock(k) \/ OnDisconnected(k)

Next ==
    \/ \E c \in Client :
        \/ Open(c) \/ Close(c) \/ Ask(c) \/ HandOver(c) \/ Later(c)
        \/ Receive(c) \/ Drop(c) \/ Reconnect(c)
    \/ \E k \in Conn : Server(k)
    \/ Restart

Spec == Init /\ [][Next]_vars

\* The dispatchers work, SignalR delivers, and OnDisconnectedAsync runs.
FairSpec == /\ Spec
            /\ \A k \in Conn : WF_vars(Server(k))
            /\ \A c \in Client : WF_vars(Receive(c))
-----------------------------------------------------------------------------
(* Properties.                                                              *)

\* Nothing of client c is on its way, in either direction.
AtRest(c) ==
    LET k == Current(c)
    IN  k \in alive \cap member /\ work[k] = NoWork /\ up[k] = <<>> /\ down[k] = <<>>

\* EditorAreaWidget: "on n'ecrit que si on le DETIENT".  An editor at rest that
\* lets its user write holds the lock, if its connection has not broken since it opened.
SteadyWritersHold ==
    \A c \in Client : AtRest(c) /\ ~broken[c] /\ open[c] /\ view[c] = "mine" => holder = Current(c)

\* Nobody is kept from a document by a client that no longer has it open.
NoForgottenLock == \A c \in Client : AtRest(c) /\ holder = Current(c) => open[c]

\* "fermer un onglet laisserait le document verrouille pour tout le monde":
\* the lock of a lost connection comes free, or goes to a connection that lives, again
\* and again.
LostLockFreed == []<>(holder \in alive \cup {Free})
=============================================================================
