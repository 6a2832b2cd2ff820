---------------------------- MODULE IndexerStore ----------------------------
(***************************************************************************)
(* The shards of the indexer peer (apps/indexer: shard.ts, store.ts): what   *)
(* the store of a shard does with the messages of the main thread, and its   *)
(* own work - checking an index found on disk, applying changes as they      *)
(* come, building an index again in place or beside the old one.  The main   *)
(* thread and the backend's feed are in IndexerFeed.                         *)
(*                                                                         *)
(* A resource is what a change of the feed names: a document of the vault,   *)
(* or its tree.  Of the contents of an index only this is kept: the set of   *)
(* the resources whose current content it holds (fresh).  An edit takes its  *)
(* resource out of every copy; reading it again puts it back.                *)
(***************************************************************************)
EXTENDS Naturals, Sequences, FiniteSets, FiniteSetsExt

CONSTANTS Vault,     \* the vaults
          Res,       \* the resources of a vault
          Shard,     \* the worker threads
          ShardOf,   \* the shard of each vault
          MaxSeq,    \* bound: changes in the first epoch, one less in every later one
          MaxEpoch   \* bound: epochs of the backend

ASSUME ShardAssumption == ShardOf \in [Vault -> Shard]
ASSUME FeedBounds == MaxSeq \in Nat \ {0} /\ MaxEpoch \in Nat \ {0}

Gone == "vault-deleted"   \* the one change that is not of a resource
ASSUME GoneAssumption == Gone \notin Res

Seq0 == 0..MaxSeq
Epoch == 1..MaxEpoch
NoEpoch == 0
Nothing == MaxSeq + 1     \* no position: beyond every sequence

VARIABLES
    row,       \* the backend's feed: sequence of the row of each resource, 0: none
    index,     \* the file {vault}.sqlite and the mark {vault}.sqlite.stale
    up,        \* shards that run
    know,      \* shard: epoch it has been told
    feedPos,   \* shard: how far the feed has been handed out
    vault,     \* what its shard knows of a vault
    live,      \* the unit of work that is applying changes to a vault's index
    build,     \* the build of a vault's index
    carried    \* history: changes a build has left pending, not applied since

storeVars == <<index, up, know, feedPos, vault, live, build, carried>>

Of(s) == {v \in Vault : ShardOf[v] = s}
NoPending == [r \in Res |-> 0]
NoIndex == [there |-> FALSE, built |-> FALSE, epoch |-> NoEpoch, seq |-> 0,
            fresh |-> {}, stale |-> FALSE]
NewVault == [owned |-> FALSE, leaving |-> FALSE, queued |-> FALSE, checked |-> FALSE, why |-> "",
             pending |-> NoPending, seen |-> 0, applied |-> 0]
NoUnit == [on |-> FALSE, work |-> NoPending, got |-> {}]
NoBuild == [on |-> FALSE, place |-> FALSE, from |-> 0, left |-> {}, got |-> {}, replay |-> {}]

InPlace == {"missing", "incomplete"}
Beside == {"epoch", "stale"}

StoreType ==
    /\ index \in [Vault -> [there : BOOLEAN, built : BOOLEAN, epoch : Epoch \cup {NoEpoch},
                            seq : Seq0, fresh : SUBSET Res, stale : BOOLEAN]]
    /\ up \in SUBSET Shard
    /\ know \in [Shard -> Epoch \cup {NoEpoch}]
    /\ feedPos \in [Shard -> Seq0]
    /\ vault \in [Vault -> [owned : BOOLEAN, leaving : BOOLEAN, queued : BOOLEAN, checked : BOOLEAN,
                            why : InPlace \cup Beside \cup {""}, pending : [Res -> Seq0],
                            seen : Seq0, applied : Seq0]]
    /\ live \in [Vault -> [on : BOOLEAN, work : [Res -> Seq0], got : SUBSET Res]]
    /\ build \in [Vault -> [on : BOOLEAN, place : BOOLEAN, from : Seq0, left : SUBSET Res,
                            got : SUBSET Res, replay : SUBSET Res]]
    /\ carried \in [Vault -> SUBSET Res]

StoreInit ==
    /\ index = [v \in Vault |-> NoIndex]
    /\ up = Shard
    /\ know = [s \in Shard |-> NoEpoch]
    /\ feedPos = [s \in Shard |-> 0]
    /\ vault = [v \in Vault |-> NewVault]
    /\ live = [v \in Vault |-> NoUnit]
    /\ build = [v \in Vault |-> NoBuild]
    /\ carried = [v \in Vault |-> {}]
-----------------------------------------------------------------------------
(* Helpers.                                                                 *)

Larger(a, b) == IF a >= b THEN a ELSE b
Smaller(a, b) == IF a <= b THEN a ELSE b

Waiting(p) == {r \in Res : p[r] # 0}

\* Mutant of MinPending: a resource that does not wait counts as 0.
MinPendingAll(p) == Min({p[r] : r \in Res})

MinPending(p) == Min({p[r] : r \in Waiting(p)})

\* The sequence to write into an index: everything up to it has been handled.
LowWaterOf(w, floor) ==
    IF Waiting(w.pending) = {}
    THEN Larger(floor, w.seen)
    ELSE Larger(floor, Smaller(w.seen, MinPending(w.pending) - 1))

\* Mutant of LowWater: the first change that waits is not kept out.
LowWaterWithin(s) ==
    LET held == {v \in Of(s) : vault[v].owned /\ vault[v].why = "" /\ Waiting(vault[v].pending) # {}}
    IN  IF held = {} THEN Nothing ELSE Min({MinPending(vault[v].pending) : v \in held})

\* The answer of a shard: below all that waits.  A vault that is to be built
\* again reads everything anew: its changes do not hold the feed back.
LowWater(s) ==
    LET held == {v \in Of(s) : vault[v].owned /\ vault[v].why = "" /\ Waiting(vault[v].pending) # {}}
    IN  IF held = {} THEN Nothing ELSE Min({MinPending(vault[v].pending) : v \in held}) - 1

\* A vault its shard did not own, taken in: to be built if it has no index, to
\* be checked otherwise, and known to have missed changes if it was an orphan.  One
\* on its way to be an orphan that was checked before is not checked again.
Adopted(v, w) ==
    IF w.owned \/ w.checked THEN [w EXCEPT !.owned = TRUE]
    ELSE [w EXCEPT !.owned = TRUE,
                   !.queued = index[v].there,
                   !.checked = ~index[v].there,
                   !.why = IF ~index[v].there THEN "missing"
                           ELSE IF index[v].stale THEN "stale" ELSE ""]

Clear(p, S) == [r \in Res |-> IF r \in S THEN 0 ELSE p[r]]

\* What must be done about an index found on disk.
Decide(v) ==
    LET i == index[v]
        e == know[ShardOf[v]]
    IN  CASE ~i.there -> "missing"
          [] i.there /\ ~i.built -> "incomplete"
          [] i.built /\ e # NoEpoch /\ i.epoch # e -> "epoch"
          [] i.built /\ (e = NoEpoch \/ i.epoch = e) /\ i.stale -> "stale"
          [] OTHER -> ""
-----------------------------------------------------------------------------
(* Messages of the main thread, to the shards S.  A shard reads nothing of the *)
(* main thread but its messages, in order: they are handled when posted, and   *)
(* what a shard does before it gets to one is done before the posting.         *)

\* setEpoch.  If it has changed, the sequences start again at 0 and every index is
\* to be built again: what is known of the vaults is AfterEpoch.
AfterEpoch(S) ==
    [v \in Vault |->
        IF ShardOf[v] \notin S THEN vault[v]
        ELSE [vault[v] EXCEPT !.applied = 0, !.seen = 0, !.pending = NoPending,
                              !.why = IF vault[v].owned /\ @ = "" THEN "epoch" ELSE @]]

SetEpoch(S, e) == know' = [s \in Shard |-> IF s \in S THEN e ELSE know[s]]

\* own: the full list of the vaults of the shards S.  The others are on their way to
\* be orphans: what waits for them is forgotten, their builds stop, a unit at work
\* does not.
Orphans(S, known, ids) ==
    {v \in Vault \ ids : ShardOf[v] \in S /\ (known[v].owned \/ (index[v].there /\ ~index[v].stale))}

AfterOwn(S, known, ids) ==
    [v \in Vault |->
        IF v \in Orphans(S, known, ids)
        THEN [known[v] EXCEPT !.owned = FALSE, !.leaving = TRUE, !.queued = FALSE, !.pending = NoPending]
        ELSE IF ShardOf[v] \in S /\ v \in ids THEN Adopted(v, known[v]) ELSE known[v]]

StopBuilds(V) == build' = [v \in Vault |-> IF v \in V THEN NoBuild ELSE build[v]]

Own(S, known, ids) ==
    /\ vault' = AfterOwn(S, known, ids)
    /\ StopBuilds(Orphans(S, known, ids))
    /\ UNCHANGED <<index, live>>

\* changes, after which orphans a list has made: a deleted vault goes with its
\* files, a change of a vault not known yet adopts it, and a resource keeps its
\* last sequence only.
Changes(S, known, orphans, batch, upTo) ==
    LET told == {v \in Vault : ShardOf[v] \in S}
        dead == told \cap {c.v : c \in {x \in batch : x.r = Gone}}
        of(v) == {c \in batch : c.v = v /\ c.r # Gone}
        last(v, r) == Max({c.seq : c \in {x \in of(v) : x.r = r}} \cup {known[v].pending[r]})
    IN  /\ vault' = [v \in Vault |->
              IF v \in dead THEN NewVault
              ELSE IF of(v) = {} \/ v \notin told THEN known[v]
              ELSE [Adopted(v, known[v]) EXCEPT !.pending = [r \in Res |-> last(v, r)],
                                                !.seen = Max({c.seq : c \in of(v)} \cup {known[v].seen})]]
        /\ index' = [v \in Vault |-> IF v \in dead THEN NoIndex ELSE index[v]]
        /\ live' = [v \in Vault |-> IF v \in dead THEN NoUnit ELSE live[v]]
        /\ StopBuilds(orphans \cup dead)
        /\ feedPos' = [s \in Shard |-> IF s \in S THEN Larger(feedPos[s], upTo) ELSE feedPos[s]]
-----------------------------------------------------------------------------
(* The shard's own work.                                                    *)

Working(v) == ShardOf[v] \in up /\ vault[v].owned

\* The inspection of an index found on disk.
Check(v) ==
    LET found == Decide(v)
        old == vault[v].why
        new == IF found # "" /\ ~(old # "" /\ found \in Beside) THEN found ELSE old
    IN  /\ Working(v) /\ vault[v].queued
        /\ vault' = [vault EXCEPT ![v] =
              IF @.checked THEN [@ EXCEPT !.queued = FALSE]
              ELSE [@ EXCEPT !.queued = FALSE, !.checked = TRUE, !.why = new,
                             !.applied = IF new \in {"", "stale"} THEN index[v].seq ELSE vault[v].applied]]
        /\ UNCHANGED <<index, up, know, feedPos, live, build, carried>>

\* Some of the changes that wait have waited long enough.  Those the index
\* already has are dropped; the resources of the others are read.
LiveTake(v, due) ==
    LET p == vault[v].pending
        new == {r \in due : p[r] > vault[v].applied}
    IN  /\ Working(v) /\ ~live[v].on
        /\ vault[v].checked /\ vault[v].why \notin InPlace
        /\ due # {} /\ due \subseteq Waiting(p)
        /\ vault' = [vault EXCEPT ![v].pending = Clear(@, due \ new)]
        /\ live' = IF new = {} THEN live
                   ELSE [live EXCEPT ![v] = [on |-> TRUE, work |-> Clear(p, Res \ new), got |-> new]]
        /\ UNCHANGED <<index, up, know, feedPos, build, carried>>

\* Mutant of LiveWrite: what has changed again meanwhile does not stay pending.
LiveWriteForgets(v) ==
    LET u == live[v]
        w == [vault[v] EXCEPT !.pending = Clear(@, Waiting(u.work))]
        seq == LowWaterOf(w, 0)
    IN  /\ ShardOf[v] \in up /\ u.on
        /\ vault' = [vault EXCEPT ![v] = [w EXCEPT !.applied = Larger(@, seq)]]
        /\ index' = [index EXCEPT ![v].fresh = (@ \ Waiting(u.work)) \cup u.got,
                                  ![v].seq = IF seq > w.applied THEN seq ELSE @]
        /\ build' = [build EXCEPT ![v].replay =
                        IF build[v].on /\ ~build[v].place THEN @ \cup Waiting(u.work) ELSE @]
        /\ live' = [live EXCEPT ![v] = NoUnit]
        /\ carried' = [carried EXCEPT ![v] = @ \ u.got]
        /\ UNCHANGED <<up, know, feedPos>>

\* They are written to the serving index.  What has changed again meanwhile
\* stays pending; a build beside is told what to read again.
LiveWrite(v) ==
    LET u == live[v]
        w == [vault[v] EXCEPT !.pending = Clear(@, {r \in Waiting(u.work) : @[r] = u.work[r]})]
        seq == LowWaterOf(w, 0)
    IN  /\ ShardOf[v] \in up /\ u.on
        /\ vault' = [vault EXCEPT ![v] = [w EXCEPT !.applied = Larger(@, seq)]]
        /\ index' = [index EXCEPT ![v].fresh = (@ \ Waiting(u.work)) \cup u.got,
                                  ![v].seq = IF seq > w.applied THEN seq ELSE @]
        /\ build' = [build EXCEPT ![v].replay =
                        IF build[v].on /\ ~build[v].place THEN @ \cup Waiting(u.work) ELSE @]
        /\ live' = [live EXCEPT ![v] = NoUnit]
        /\ carried' = [carried EXCEPT ![v] = @ \ u.got]
        /\ UNCHANGED <<up, know, feedPos>>

\* The backend did not answer: the changes stay where they are.
LiveFails(v) ==
    /\ ShardOf[v] \in up /\ live[v].on
    /\ live' = [live EXCEPT ![v] = NoUnit]
    /\ UNCHANGED <<index, up, know, feedPos, vault, build, carried>>

\* The vault is gone from the backend: nothing to apply or to try again.
LiveGone(v, due) ==
    /\ Working(v) /\ ~live[v].on /\ row[v][Gone] # 0
    /\ vault[v].checked /\ vault[v].why \notin InPlace
    /\ due # {} /\ due \subseteq Waiting(vault[v].pending)
    /\ vault' = [vault EXCEPT ![v].pending = Clear(@, due)]
    /\ UNCHANGED <<index, up, know, feedPos, live, build, carried>>

\* Every change handed out so far is covered by what the build will read.
BuildStart(v) ==
    LET from == feedPos[ShardOf[v]]
        place == vault[v].why \in InPlace
    IN  /\ Working(v) /\ vault[v].why # "" /\ ~build[v].on
        /\ vault[v].checked \/ vault[v].why = "epoch"
        /\ vault' = [vault EXCEPT ![v].pending = Clear(@, {r \in Res : @[r] <= from})]
        /\ build' = [build EXCEPT ![v] = [NoBuild EXCEPT !.on = TRUE, !.place = place,
                                                         !.from = from, !.left = Res]]
        /\ index' = IF place
                    THEN [index EXCEPT ![v] = [NoIndex EXCEPT !.there = TRUE, !.stale = index[v].stale]]
                    ELSE index
        /\ UNCHANGED <<up, know, feedPos, live, carried>>

\* In place, a change seen before its resource is read is in what is read.
BuildRead(v, r) ==
    /\ Working(v) /\ r \in build[v].left /\ row[v][Gone] = 0
    /\ build' = [build EXCEPT ![v].left = @ \ {r}, ![v].got = @ \cup {r}]
    /\ vault' = IF build[v].place THEN [vault EXCEPT ![v].pending[r] = 0] ELSE vault
    /\ UNCHANGED <<index, up, know, feedPos, live, carried>>

\* The end of a build, with no unit at work: what was applied to the old index
\* meanwhile is read again, and the new index takes the old one's place.
BuildEnd(v) ==
    LET b == build[v]
        seq == LowWaterOf(vault[v], b.from)
    IN  /\ Working(v) /\ b.on /\ b.left = {} /\ ~live[v].on
        /\ index' = [index EXCEPT ![v] =
              [there |-> TRUE, built |-> TRUE, epoch |-> know[ShardOf[v]], seq |-> seq,
               fresh |-> b.got \cup b.replay, stale |-> FALSE]]
        /\ vault' = [vault EXCEPT ![v].why = "", ![v].checked = TRUE, ![v].applied = seq]
        /\ build' = [build EXCEPT ![v] = NoBuild]
        /\ carried' = [carried EXCEPT ![v] = Waiting(vault[v].pending)]
        /\ UNCHANGED <<up, know, feedPos, live>>

\* A read fails, or the vault is unknown to the backend: again, later.
BuildFails(v) ==
    /\ Working(v) /\ build[v].on
    /\ build' = [build EXCEPT ![v] = NoBuild]
    /\ UNCHANGED <<index, up, know, feedPos, vault, live, carried>>

\* The end of orphan, with no unit at work: the index is marked, and nothing of what
\* was to be done about it is kept, even if the vault is owned again.
OrphanEnd(v) ==
    /\ ShardOf[v] \in up /\ vault[v].leaving /\ ~live[v].on
    /\ index' = [index EXCEPT ![v].stale = @ \/ index[v].there]
    /\ vault' = [vault EXCEPT ![v] = [@ EXCEPT !.leaving = FALSE, !.checked = FALSE, !.why = ""]]
    /\ UNCHANGED <<up, know, feedPos, live, build, carried>>

\* An orphan is kept for ORPHAN_TTL, then its files go.
Sweep(v) ==
    /\ ShardOf[v] \in up /\ ~vault[v].owned /\ ~vault[v].leaving /\ index[v].stale
    /\ index' = [index EXCEPT ![v] = NoIndex]
    /\ vault' = [vault EXCEPT ![v] = NewVault]
    /\ UNCHANGED <<up, know, feedPos, live, build, carried>>

StoreNext ==
    \E v \in Vault :
        \/ Check(v) \/ LiveWrite(v) \/ LiveFails(v) \/ BuildStart(v) \/ BuildEnd(v)
        \/ BuildFails(v) \/ OrphanEnd(v) \/ Sweep(v)
        \/ \E r \in Res : BuildRead(v, r)
        \/ \E due \in SUBSET Res : LiveTake(v, due) \/ LiveGone(v, due)
-----------------------------------------------------------------------------
(* What happens to a shard.                                                 *)

\* What a shard of which nothing is left but its files starts from.
Forget(S) ==
    /\ know' = [s \in Shard |-> IF s \in S THEN NoEpoch ELSE know[s]]
    /\ feedPos' = [s \in Shard |-> IF s \in S THEN 0 ELSE feedPos[s]]
    /\ vault' = [v \in Vault |-> IF ShardOf[v] \in S THEN NewVault ELSE vault[v]]
    /\ live' = [v \in Vault |-> IF ShardOf[v] \in S THEN NoUnit ELSE live[v]]
    /\ build' = [v \in Vault |-> IF ShardOf[v] \in S THEN NoBuild ELSE build[v]]

\* The content of resource r of vault v is no longer what any copy holds.
Outdate(v, S) ==
    /\ index' = [index EXCEPT ![v].fresh = @ \ S]
    /\ live' = [live EXCEPT ![v].got = @ \ S]
    /\ build' = [build EXCEPT ![v].got = @ \ S]
    /\ carried' = [carried EXCEPT ![v] = @ \ S]
=============================================================================
