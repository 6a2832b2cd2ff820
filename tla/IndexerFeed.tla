----------------------------- MODULE IndexerFeed -----------------------------
(***************************************************************************)
(* The indexer peer and the feed it follows.  The backend keeps one row per  *)
(* resource, with a sequence that grows at every change; the main thread     *)
(* (feed.ts, shards.ts, state.ts) reads the feed, hands the changes to the    *)
(* shards (IndexerStore), and saves once a second the position from which    *)
(* the feed is to be read again after a crash: below every change that is    *)
(* not yet in an index.                                                      *)
(*                                                                         *)
(* A page of the feed and the list of the vaults are computed by the backend *)
(* when they are asked for and used when they arrive.                        *)
(***************************************************************************)
EXTENDS IndexerStore

CONSTANTS Limit,      \* changes in a page
          MaxCrash,   \* bound: crashes of a shard or of the peer
          MaxMove,    \* bound: vaults given to the peer or to another
          Overlap     \* of Overlaps: what may happen while the code awaits

ASSUME PageAssumption == Limit \in Nat \ {0} /\ MaxCrash \in Nat /\ MaxMove \in Nat

\* early: a shard starts again before the first page.  page: one asked for before
\* a shard started again is used.  save: the position is worked out while the
\* feed is still to be read again.  epoch: a new one comes during a save or a build.
\* move: a vault is deleted or leaves, and another epoch comes.  orphan: a vault
\* becomes an orphan under a unit at work, or comes back before it has become one.
Overlaps == {"early", "page", "save", "epoch", "move", "orphan"}
ASSUME OverlapAssumption == Overlap \subseteq Overlaps

VARIABLES
    feedEpoch,  \* backend: epoch of the feed
    top,        \* backend: last sequence given out
    home,       \* backend: the vaults of this peer
    saved,      \* disk: indexer-state.json
    epoch,      \* main thread: epoch of the feed, NoEpoch before the first page
    cursor,     \* main thread: how far the feed has been handed out
    persisted,  \* main thread: the position saved
    rewindTo,   \* main thread: from where to read the feed again, or Nothing
    owned,      \* main thread: the vaults it takes for its own
    listed,     \* main thread: the list has been read
    listing,    \* a list on its way, and the vaults seen in the feed meanwhile
    poll,       \* a page on its way
    save,       \* a position being worked out
    crashes, moves  \* counters, for the bounds

backend == <<feedEpoch, top, row, home>>
main == <<epoch, cursor, persisted, rewindTo, owned, listed, listing, poll, save>>
vars == <<backend, storeVars, saved, main, crashes, moves>>

NoPage == [on |-> FALSE, epoch |-> NoEpoch, changes |-> {}, last |-> 0]
NoList == [on |-> FALSE, ids |-> {}, seen |-> {}]
NoSave == [on |-> FALSE, safe |-> 0]

Change == [seq : 1..MaxSeq, v : Vault, r : Res \cup {Gone}]
TypeOK ==
    /\ StoreType
    /\ row \in [Vault -> [Res \cup {Gone} -> Seq0]]
    /\ feedEpoch \in Epoch /\ top \in Seq0 /\ home \in SUBSET Vault
    /\ saved \in [epoch : Epoch \cup {NoEpoch}, cursor : Seq0]
    /\ epoch \in Epoch \cup {NoEpoch} /\ cursor \in Seq0 /\ persisted \in Seq0
    /\ rewindTo \in 0..Nothing
    /\ owned \in SUBSET Vault /\ listed \in BOOLEAN
    /\ listing \in [on : BOOLEAN, ids : SUBSET Vault, seen : SUBSET Vault]
    /\ poll \in [on : BOOLEAN, epoch : Epoch \cup {NoEpoch}, changes : SUBSET Change, last : Seq0]
    /\ save \in [on : BOOLEAN, safe : Seq0]
    /\ crashes \in 0..MaxCrash /\ moves \in 0..MaxMove

Init ==
    /\ StoreInit
    /\ row = [v \in Vault |-> [r \in Res \cup {Gone} |-> 0]]
    /\ feedEpoch = 1 /\ top = 0 /\ home = Vault
    /\ saved = [epoch |-> NoEpoch, cursor |-> 0]
    /\ epoch = NoEpoch /\ cursor = 0 /\ persisted = 0 /\ rewindTo = Nothing
    /\ owned = {} /\ listed = FALSE /\ listing = NoList /\ poll = NoPage /\ save = NoSave
    /\ crashes = 0 /\ moves = 0
-----------------------------------------------------------------------------
(* The backend.                                                             *)

\* A write of resource r: its row is replaced by one with a new sequence, in
\* the same transaction, one transaction at a time.
Edit(v, r) ==
    /\ top + feedEpoch <= MaxSeq /\ row[v][Gone] = 0
    /\ top' = top + 1
    /\ row' = [row EXCEPT ![v][r] = top + 1]
    /\ Outdate(v, {r})
    /\ UNCHANGED <<feedEpoch, home, up, know, feedPos, vault, saved, main, crashes, moves>>

\* The vault is deleted: its rows make place for one.
Delete(v) ==
    /\ top + feedEpoch <= MaxSeq /\ row[v][Gone] = 0 /\ v \in home /\ moves < MaxMove
    /\ "move" \in Overlap \/ feedEpoch = 1
    /\ moves' = moves + 1
    /\ top' = top + 1
    /\ row' = [row EXCEPT ![v] = [r \in Res \cup {Gone} |-> IF r = Gone THEN top + 1 ELSE 0]]
    /\ home' = home \ {v}
    /\ UNCHANGED <<feedEpoch, storeVars, saved, main, crashes>>

\* The instances of the peer change, and the vault is another's; nothing is
\* written to the feed.
Leave(v) ==
    /\ v \in home /\ moves < MaxMove
    /\ "move" \in Overlap \/ feedEpoch = 1
    /\ moves' = moves + 1
    /\ home' = home \ {v}
    /\ UNCHANGED <<feedEpoch, top, row, storeVars, saved, main, crashes>>

\* It comes back.  By then the peer has noticed that it had left.
Return(v) ==
    /\ v \notin home /\ row[v][Gone] = 0
    /\ v \notin owned /\ ~vault[v].owned
    /\ index[v].stale \/ ~index[v].there \/ ("orphan" \in Overlap /\ vault[v].leaving)
    /\ home' = home \cup {v}
    /\ UNCHANGED <<feedEpoch, top, row, storeVars, saved, main, crashes, moves>>

\* The database is created anew: another epoch, sequences from 0.
Recreate ==
    /\ feedEpoch < MaxEpoch
    /\ "move" \in Overlap \/ moves = 0
    /\ feedEpoch' = feedEpoch + 1
    /\ top' = 0
    /\ row' = [v \in Vault |-> [r \in Res \cup {Gone} |-> 0]]
    /\ index' = [v \in Vault |-> [index[v] EXCEPT !.fresh = {}]]
    /\ live' = [v \in Vault |-> [live[v] EXCEPT !.got = {}]]
    /\ build' = [v \in Vault |-> [build[v] EXCEPT !.got = {}]]
    /\ carried' = [v \in Vault |-> {}]
    /\ UNCHANGED <<home, up, know, feedPos, vault, saved, main, crashes, moves>>

Feed == {c \in Change : row[c.v][c.r] = c.seq /\ (c.v \in home \/ c.r = Gone)}

\* The first rows after a position among those of the peer; last is how far the
\* backend has looked.
Page(since) ==
    LET after == {c \in Feed : c.seq > since}
        first == {c \in after : Cardinality({d \in after : d.seq < c.seq}) < Limit}
        rows == {row[v][r] : v \in Vault, r \in Res \cup {Gone}} \cup {since}
    IN  [on |-> TRUE, epoch |-> feedEpoch, changes |-> first,
         last |-> IF Cardinality(first) = Limit THEN Max({c.seq : c \in first}) ELSE Max(rows)]
-----------------------------------------------------------------------------
(* The main thread.                                                         *)

\* The shards are told of the vaults ids when no orphan is left half done.
Calm(S, known, ids) ==
    \/ "orphan" \in Overlap
    \/ \A v \in Vault : ~vault[v].leaving /\ (v \in Orphans(S, known, ids) => ~live[v].on)

\* refreshVaults: the list is asked for...
ListAsk ==
    /\ ~listing.on
    /\ listing' = [on |-> TRUE, ids |-> home, seen |-> {}]
    /\ UNCHANGED <<backend, storeVars, saved, epoch, cursor, persisted, rewindTo, owned, listed,
                   poll, save, crashes, moves>>

\* ... and taken in, with what the feed has shown meanwhile.  Before the epoch
\* is known the shards are told nothing.
ListTake ==
    /\ listing.on
    /\ owned' = listing.ids \cup listing.seen
    /\ listed' = TRUE
    /\ listing' = NoList
    /\ IF epoch = NoEpoch THEN UNCHANGED <<vault, index, live, build>>
       ELSE Calm(up, vault, owned') /\ Own(up, vault, owned')
    /\ UNCHANGED <<backend, up, know, feedPos, carried, saved, epoch, cursor, persisted, rewindTo,
                   poll, save, crashes, moves>>

\* One turn of the loop: back to the safe position if asked to, then the next page.
Poll ==
    /\ listed /\ ~poll.on
    /\ cursor' = Smaller(cursor, rewindTo)
    /\ rewindTo' = Nothing
    /\ poll' = Page(cursor')
    /\ UNCHANGED <<backend, storeVars, saved, epoch, persisted, owned, listed, listing, save,
                   crashes, moves>>

PollFails ==
    /\ poll.on
    /\ poll' = NoPage
    /\ UNCHANGED <<backend, storeVars, saved, epoch, cursor, persisted, rewindTo, owned, listed,
                   listing, save, crashes, moves>>

Known == IF epoch = NoEpoch THEN saved.epoch ELSE epoch

\* onEpoch, the page is of another epoch than the one known: from the start again.
NewEpoch ==
    /\ poll.on /\ Known \notin {NoEpoch, poll.epoch}
    /\ "epoch" \in Overlap \/ (~save.on /\ \A v \in Vault : ~build[v].on)
    /\ epoch' = poll.epoch /\ cursor' = 0 /\ persisted' = 0
    /\ SetEpoch(up, poll.epoch)
    /\ feedPos' = [s \in Shard |-> IF s \in up THEN 0 ELSE feedPos[s]]
    /\ Calm(up, AfterEpoch(up), owned) /\ Own(up, AfterEpoch(up), owned)
    /\ poll' = NoPage
    /\ UNCHANGED <<backend, up, carried, saved, rewindTo, owned, listed, listing, save, crashes, moves>>

\* The changes go to their shards, and every shard learns how far the feed has
\* been handed out; with the first page, the epoch and its vaults before.  A
\* shard that does not run gets nothing.
TakePage ==
    LET gone == {c.v : c \in {x \in poll.changes : x.r = Gone}}
        here == {c.v : c \in poll.changes} \ gone
        first == epoch = NoEpoch
    IN  /\ poll.on /\ Known \in {NoEpoch, poll.epoch}
        /\ "page" \in Overlap \/ rewindTo = Nothing
        /\ Calm(up, vault, IF first THEN owned ELSE Vault)
        /\ epoch' = poll.epoch
        /\ SetEpoch(up, poll.epoch)
        /\ IF first
           THEN Changes(up, AfterOwn(up, vault, owned), Orphans(up, vault, owned), poll.changes, poll.last)
           ELSE Changes(up, vault, {}, poll.changes, poll.last)
        /\ owned' = (owned \ gone) \cup here
        /\ listing' = IF listing.on THEN [listing EXCEPT !.seen = @ \cup here] ELSE listing
        /\ cursor' = IF rewindTo = Nothing THEN Larger(cursor, poll.last) ELSE cursor
        /\ poll' = NoPage
        /\ UNCHANGED <<backend, up, carried, saved, persisted, rewindTo, listed, save, crashes, moves>>

\* persist: the cursor, or less if a shard has not got that far.  The answers
\* take time; a shard that does not run leaves the position unknown.
SaveBegin ==
    /\ epoch # NoEpoch /\ ~save.on /\ up = Shard
    /\ "save" \in Overlap \/ rewindTo = Nothing
    /\ save' = [on |-> TRUE, safe |-> Min({cursor} \cup {LowWater(s) : s \in Shard})]
    /\ UNCHANGED <<backend, storeVars, saved, epoch, cursor, persisted, rewindTo, owned, listed,
                   listing, poll, crashes, moves>>

\* All have answered: the position is written, under the epoch of now.
SaveEnd ==
    /\ save.on
    /\ saved' = [epoch |-> epoch, cursor |-> save.safe]
    /\ persisted' = save.safe
    /\ save' = NoSave
    /\ UNCHANGED <<backend, storeVars, epoch, cursor, rewindTo, owned, listed, listing, poll,
                   crashes, moves>>
-----------------------------------------------------------------------------
(* The shards.                                                              *)

Work ==
    /\ StoreNext
    /\ UNCHANGED <<backend, saved, main, crashes, moves>>

\* A worker thread falls; if it has not answered yet, no position is saved.
ShardDies(s) ==
    /\ s \in up /\ crashes < MaxCrash
    /\ crashes' = crashes + 1
    /\ up' = up \ {s}
    /\ Forget({s})
    /\ save' \in {save, NoSave}
    /\ UNCHANGED <<backend, index, carried, saved, epoch, cursor, persisted, rewindTo, owned,
                   listed, listing, poll, moves>>

\* Mutant of ShardRestarts: the feed goes on from where it is.
ShardRestartsOnwards(s) ==
    /\ s \notin up
    /\ "early" \in Overlap \/ epoch # NoEpoch
    /\ up' = up \cup {s}
    /\ SetEpoch({s}, epoch)
    /\ Calm(up', vault, owned \cap Of(s)) /\ Own(up', vault, owned \cap Of(s))
    /\ UNCHANGED <<backend, feedPos, carried, saved, epoch, cursor, persisted, rewindTo, owned,
                   listed, listing, poll, save, crashes, moves>>

\* It is started again and told what it needs: the epoch, if there is one, and
\* its vaults, by a full list that goes to every shard.  The feed will be read
\* again from the safe position.
ShardRestarts(s) ==
    /\ s \notin up
    /\ "early" \in Overlap \/ epoch # NoEpoch
    /\ up' = up \cup {s}
    /\ SetEpoch({s}, epoch)
    /\ Calm(up', vault, owned \cap Of(s)) /\ Own(up', vault, owned \cap Of(s))
    /\ rewindTo' = persisted
    /\ UNCHANGED <<backend, feedPos, carried, saved, epoch, cursor, persisted, owned, listed, listing, poll,
                   save, crashes, moves>>

\* The peer is killed and started again, with nothing but its files.
Crash ==
    /\ crashes < MaxCrash
    /\ crashes' = crashes + 1
    /\ up' = Shard /\ Forget(Shard)
    /\ epoch' = NoEpoch /\ cursor' = saved.cursor /\ persisted' = saved.cursor /\ rewindTo' = Nothing
    /\ owned' = {} /\ listed' = FALSE /\ listing' = NoList /\ poll' = NoPage /\ save' = NoSave
    /\ UNCHANGED <<backend, index, carried, saved, moves>>
-----------------------------------------------------------------------------
BackendNext ==
    \/ \E v \in Vault : Delete(v) \/ Leave(v) \/ Return(v) \/ \E r \in Res : Edit(v, r)
    \/ Recreate

MainNext ==
    \/ ListAsk \/ ListTake \/ Poll \/ PollFails \/ NewEpoch \/ TakePage
    \/ SaveBegin \/ SaveEnd

ShardNext == Work \/ \E s \in Shard : ShardDies(s) \/ ShardRestarts(s)

Next == BackendNext \/ MainNext \/ ShardNext \/ Crash

Spec == Init /\ [][Next]_vars
-----------------------------------------------------------------------------
(* Properties.                                                              *)

\* An index that would be built again if the peer started now.
Doomed(v) == ~index[v].built \/ index[v].epoch # feedEpoch \/ index[v].stale

\* What is missing from an index of the changes up to seq.
Missing(v, seq) == {r \in Res : row[v][r] <= seq} \ index[v].fresh

ResumeFrom == IF saved.epoch = feedEpoch THEN saved.cursor ELSE 0

\* feed.ts: "jamais au-dela d'un changement non traite".  Whatever the moment of
\* a crash, what lies before the saved position is in the indexes on disk, but for
\* the changes that a build has left pending: while it ran they did not hold it back.
SafeButCarried == \A v \in home : Doomed(v) \/ Missing(v, ResumeFrom) \subseteq carried[v]

\* liveUnit drops a change up to the sequence of the index: the index has it, but
\* again for those a build has left pending.
SequenceHonest ==
    \A v \in Vault :
        row[v][Gone] = 0 => Doomed(v) \/ Missing(v, index[v].seq) \subseteq carried[v]

\* Nothing is left to do.
Rest ==
    /\ up = Shard
    /\ epoch = feedEpoch /\ cursor >= top /\ rewindTo = Nothing
    /\ ~listing.on /\ owned = home
    /\ \A v \in Vault :
         /\ vault[v].owned = (v \in home) /\ ~vault[v].leaving
         /\ ~vault[v].queued /\ vault[v].why = "" /\ Waiting(vault[v].pending) = {}
         /\ ~live[v].on /\ ~build[v].on

\* Then the index of every vault of the peer is the vault's content, but for
\* what a build left pending when the peer crashed.
RestMeansIndexed ==
    Rest => \A v \in home :
        /\ index[v].built /\ ~index[v].stale
        /\ Res \ index[v].fresh \subseteq (IF crashes = 0 THEN {} ELSE carried[v])
=============================================================================
