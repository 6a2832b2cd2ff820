----------------------------- MODULE HubJournal -----------------------------
(***************************************************************************)
(* The server's side of a journal that is joined, pushed to and compacted   *)
(* by force: the directory of a vault (VaultHub: JoinVault,                 *)
(* PushVaultOperation, SnapshotVault) and a CRDT document (SyncHub:         *)
(* JoinDocument, PushOperation, SnapshotDocument) are the same code over    *)
(* EfCrdtOpRepository.  The clients are in VaultDirectory and DocumentSync. *)
(*                                                                         *)
(* An op is the set of the edits it carries; merging is union.              *)
(***************************************************************************)
EXTENDS Naturals, Sequences, FiniteSets

CONSTANTS Client,           \* the clients
          Update,           \* the edits the users may make
          Seed,             \* edits of earlier sessions, one op each
          MaxConn,          \* bound: connections a client may open
          CompactThreshold  \* a journal longer than this is compacted

ASSUME JournalBounds == MaxConn \in Nat \ {0} /\ CompactThreshold \in Nat
ASSUME SeedAssumption == Seed \subseteq Update /\ IsFiniteSet(Seed)

Conn == Client \X (1..MaxConn)
NoWork == [m |-> "none"]

VARIABLES
    journal,  \* the ops of the resource, by ReceivedAt
    member,   \* connections in the resource's SignalR group
    work,     \* the call a connection's dispatcher is in the middle of
    up,       \* calls sent on a connection and not started by the server
    down,     \* messages sent down a connection and not received
    conn,     \* number of a client's current, or last, connection
    alive,    \* connections whose client has not lost them
    slipped,  \* history: broadcasts a connection missed because its join had
              \* read the journal and not yet entered the group
    read,     \* history: what a connection's join has read
    said,     \* history: what a connection has pushed, and so had told to the group
    cut       \* history: what compaction has deleted

history == <<slipped, read, said, cut>>
journalVars == <<journal, member, work, up, down, conn, alive, history>>

Content(j) == UNION {j[i] : i \in DOMAIN j}
Call == [m : {"join"}] \cup [m : {"push", "snap"}, st : SUBSET Update]
Work == {NoWork} \cup [m : {"joining"}, seen : Seq(SUBSET Update)]
                 \cup [m : {"casting"}, st : SUBSET Update]
Msg == [m : {"init"}, st : SUBSET Update, long : BOOLEAN] \cup [m : {"op"}, st : SUBSET Update]

JournalType ==
    /\ journal \in Seq(SUBSET Update)
    /\ member \in SUBSET Conn
    /\ work \in [Conn -> Work]
    /\ up \in [Conn -> Seq(Call)]
    /\ down \in [Conn -> Seq(Msg)]
    /\ conn \in [Client -> 0..MaxConn]
    /\ alive \in SUBSET Conn
    /\ slipped \in [Conn -> SUBSET Update]
    /\ read \in [Conn -> SUBSET Update]
    /\ said \in [Conn -> SUBSET Update]
    /\ cut \in SUBSET Update

SeedOps == CHOOSE s \in [1..Cardinality(Seed) -> {{u} : u \in Seed}] : Content(s) = Seed

JournalInit ==
    /\ journal = SeedOps
    /\ member = {}
    /\ work = [k \in Conn |-> NoWork]
    /\ up = [k \in Conn |-> <<>>]
    /\ down = [k \in Conn |-> <<>>]
    /\ conn = [c \in Client |-> 0]
    /\ alive = {}
    /\ slipped = [k \in Conn |-> {}]
    /\ read = [k \in Conn |-> {}]
    /\ said = [k \in Conn |-> {}]
    /\ cut = {}

Starts(k, m) == work[k] = NoWork /\ up[k] # <<>> /\ Head(up[k]).m = m
Pop(k) == up' = [up EXCEPT ![k] = Tail(@)]

\* JoinVault, JoinDocument, first half: every op of the resource is read.
JoinRead(k) ==
    /\ Starts(k, "join")
    /\ Pop(k)
    /\ work' = [work EXCEPT ![k] = [m |-> "joining", seen |-> journal]]
    /\ read' = [read EXCEPT ![k] = @ \cup Content(journal)]
    /\ UNCHANGED <<journal, member, down, conn, alive, slipped, said, cut>>

\* ... second half: enter the group, then send what was read.
JoinAnswer(k) ==
    LET seen == work[k].seen
        init == [m |-> "init", st |-> Content(seen), long |-> Len(seen) > CompactThreshold]
    IN  /\ work[k].m = "joining"
        /\ work' = [work EXCEPT ![k] = NoWork]
        /\ member' = member \cup {k}
        /\ down' = IF k \in alive THEN [down EXCEPT ![k] = Append(@, init)] ELSE down
        /\ UNCHANGED <<journal, up, conn, alive, history>>

\* Mutant of PushAppend: the hub relays without storing.
RelayOnly(k) ==
    /\ Starts(k, "push")
    /\ Pop(k)
    /\ work' = [work EXCEPT ![k] = [m |-> "casting", st |-> Head(up[k]).st]]
    /\ said' = [said EXCEPT ![k] = @ \cup Head(up[k]).st]
    /\ UNCHANGED <<journal, member, down, conn, alive, slipped, read, cut>>

\* PushVaultOperation, PushOperation, first half: the op is appended.
PushAppend(k) ==
    /\ Starts(k, "push")
    /\ Pop(k)
    /\ journal' = Append(journal, Head(up[k]).st)
    /\ work' = [work EXCEPT ![k] = [m |-> "casting", st |-> Head(up[k]).st]]
    /\ said' = [said EXCEPT ![k] = @ \cup Head(up[k]).st]
    /\ UNCHANGED <<member, down, conn, alive, slipped, read, cut>>

\* Mutant of PushCast: the group is told only if it is the sender's too.
CastInsideGroup(k) ==
    /\ work[k].m = "casting"
    /\ work' = [work EXCEPT ![k] = NoWork]
    /\ slipped' = [j \in Conn |-> IF work[j].m = "joining"
                                  THEN slipped[j] \cup (work[k].st \ Content(work[j].seen))
                                  ELSE slipped[j]]
    /\ down' = [j \in Conn |-> IF k \in member /\ j \in (member \cap alive) \ {k}
                               THEN Append(down[j], [m |-> "op", st |-> work[k].st])
                               ELSE down[j]]
    /\ UNCHANGED <<journal, member, up, conn, alive, read, said, cut>>

\* ... second half: the others in the group are told.
PushCast(k) ==
    /\ work[k].m = "casting"
    /\ work' = [work EXCEPT ![k] = NoWork]
    /\ slipped' = [j \in Conn |-> IF work[j].m = "joining"
                                  THEN slipped[j] \cup (work[k].st \ Content(work[j].seen))
                                  ELSE slipped[j]]
    /\ down' = [j \in Conn |-> IF j \in (member \cap alive) \ {k}
                               THEN Append(down[j], [m |-> "op", st |-> work[k].st])
                               ELSE down[j]]
    /\ UNCHANGED <<journal, member, up, conn, alive, read, said, cut>>

\* SnapshotVault, SnapshotDocument: CompactAsync(force: true) deletes every op
\* of the resource and adds the snapshot.
Snapshot(k) ==
    /\ Starts(k, "snap")
    /\ Pop(k)
    /\ journal' = <<Head(up[k]).st>>
    /\ cut' = cut \cup (Content(journal) \ Head(up[k]).st)
    /\ UNCHANGED <<member, work, down, conn, alive, slipped, read, said>>

\* The server notices that a connection is gone: its queued calls are dropped
\* and it leaves the group.
Hangup(k) ==
    /\ k \notin alive
    /\ k \in member \/ up[k] # <<>>
    /\ work[k] = NoWork
    /\ up' = [up EXCEPT ![k] = <<>>]
    /\ member' = member \ {k}
    /\ UNCHANGED <<journal, work, down, conn, alive, history>>

-----------------------------------------------------------------------------
(* What the clients share: a connection, and the calls sent on it.          *)

Current(c) == <<c, conn[c]>>
Send(k, calls) == up' = [up EXCEPT ![k] = @ \o calls]
JoinCall == [m |-> "join"]
PushCall(st) == [m |-> "push", st |-> st]
SnapCall(st) == [m |-> "snap", st |-> st]

\* Nothing of client c's connection is on its way, in either direction.
Settled(c) == LET k == Current(c)
              IN  k \in alive /\ work[k] = NoWork /\ up[k] = <<>> /\ down[k] = <<>>
Casting == \E k \in Conn : work[k].m = "casting"

\* What the journal holds, or held until a compaction deleted it.
Stored == Content(journal) \cup cut
\* What of it the group has been told, or was there before (a snapshot may also
\* carry edits that were not pushed: its author is signing or has lost them).
Told == Content(journal) \cap (Seed \cup UNION {said[k] : k \in Conn})
\* What the author of a snapshot sent on connection k has seen of the journal.
Known(k) == read[k] \cup said[k]
=============================================================================
