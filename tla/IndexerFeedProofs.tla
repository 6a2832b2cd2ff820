-------------------------- MODULE IndexerFeedProofs --------------------------
(***************************************************************************)
(* The indexer peer, for any number of vaults, resources, shards, changes,   *)
(* crashes and moves: wherever it is killed, what lies before the saved      *)
(* position is in the indexes on disk, and a peer at rest has indexed all.   *)
(***************************************************************************)
EXTENDS IndexerFeed, FiniteSetTheorems, TLAPS

\* What the theorems on indexes assume.  None of the overlaps that lose a change; and
\* one shard or one epoch: onShardRestart sends the vaults of one shard to all, the
\* others mark theirs as orphans, and what is built again under another epoch then
\* starts from a sequence of the one before.
Apart == Overlap = {} /\ ((\A s \in Shard : \A t \in Shard : s = t) \/ MaxEpoch = 1)
-----------------------------------------------------------------------------
(* The inductive invariant: first of the main thread and the feed, then of   *)
(* one vault.                                                               *)

\* An index that is not to be built again; a vault that is not deleted; from where the
\* feed is read next; the epoch of the main thread is the feed's; the vaults of a page.
Good(v) == ~Doomed(v)
Alive(v) == row[v][Gone] = 0
Back == Smaller(cursor, rewindTo)
Current == Known \in {NoEpoch, feedEpoch}
Shown == {c.v : c \in poll.changes}

\* The shard of the vault is told, or about to be told, of its changes.
Fed(v) == v \in home \/ (v \in Shown /\ ~vault[v].leaving /\ rewindTo = Nothing /\ ShardOf[v] \in up)

\* A sequence is given once, to one row of one vault.
RowInv ==
    /\ \A v \in Vault : \A r \in Res \cup {Gone} : row[v][r] <= top
    /\ \A v \in Vault : \A w \in Vault : \A r \in Res \cup {Gone} : \A q \in Res \cup {Gone} :
          row[v][r] = row[w][q] /\ row[v][r] # 0 => v = w /\ r = q

\* The vaults of this peer are not deleted, and vaults move in the first epoch only.
FeedInv ==
    /\ \A v \in home : Alive(v)
    /\ feedEpoch > 1 => moves = 0
    /\ moves = 0 => home = Vault /\ \A v \in Vault : Alive(v)

\* Epochs only grow, on their way from the feed to the main thread and to its file; before
\* the first page the position is the one read from the file; without moves, every list
\* is complete.
MainInv ==
    /\ epoch <= feedEpoch /\ saved.epoch <= feedEpoch
    /\ epoch # NoEpoch => listed /\ saved.epoch <= epoch
    /\ epoch = NoEpoch => cursor = saved.cursor /\ persisted = saved.cursor /\ rewindTo = Nothing /\ ~save.on
    /\ saved.epoch = NoEpoch => saved.cursor = 0
    /\ ~poll.on => poll.changes = {}
    /\ poll.on => listed /\ Known <= poll.epoch /\ poll.epoch <= feedEpoch /\ poll.epoch # NoEpoch
    /\ moves = 0 => (listing.on => listing.ids = Vault) /\ (listed => owned = Vault)
    /\ \A c \in poll.changes : c.r = Gone => ~Alive(c.v)

\* A shard that runs has the main thread's epoch; one that does not, nothing.
ShardInv ==
    \A s \in Shard : /\ s \in up => know[s] = epoch
                     /\ s \notin up => know[s] = NoEpoch /\ feedPos[s] = 0 /\ crashes > 0
                     /\ epoch = NoEpoch => feedPos[s] = 0

\* Only a move makes an orphan, where a second epoch may come.
OrphanInv(v) == MaxEpoch # 1 /\ moves = 0 => ~vault[v].leaving /\ ~index[v].stale

\* What a shard believes of an index is what the file says: checked without a reason to
\* build means built, not stale, of this epoch; a reason is true of the file.
ReadsIndex(v) ==
    /\ index[v].built => index[v].there /\ index[v].epoch # NoEpoch
    /\ ~index[v].built => index[v].seq = 0
    /\ index[v].epoch <= feedEpoch
    /\ epoch # NoEpoch => index[v].epoch <= epoch
    /\ poll.on => index[v].epoch <= poll.epoch
    /\ vault[v].owned => 
        /\ vault[v].why = "" /\ vault[v].checked => index[v].built /\ ~index[v].stale /\ index[v].epoch = epoch
        /\ vault[v].why \in Beside /\ vault[v].checked => index[v].built
        /\ vault[v].why \in InPlace => ~index[v].built
        /\ vault[v].why = "stale" => index[v].stale
        /\ vault[v].why = "epoch" => index[v].epoch # epoch
    /\ live[v].on => index[v].built
    /\ build[v].on /\ build[v].place => ~index[v].built

\* A vault taken in is one of the main thread's, checked or waiting to be; one that is
\* not has no work under way.
TakenIn(v) ==
    /\ ShardOf[v] \notin up \/ epoch = NoEpoch => vault[v] = NewVault
    /\ vault[v].owned => v \in owned
    /\ vault[v].owned /\ v \in home => vault[v].checked \/ vault[v].queued
    /\ vault[v].owned /\ vault[v].leaving /\ Alive(v) => v \notin home \cup Shown
    /\ ~vault[v].owned => ~build[v].on /\ ~live[v].on
    /\ ~build[v].on => build[v].left = {}
    /\ ~vault[v].owned /\ ~vault[v].leaving => ~vault[v].checked
    /\ build[v].on /\ vault[v].queued /\ ~vault[v].checked => vault[v].why = "epoch"
    /\ feedEpoch = 1 => /\ vault[v].why # "epoch" /\ ~(vault[v].checked /\ vault[v].queued)
                        /\ build[v].on => ~vault[v].queued

\* A vault of this peer is dropped only with its index gone or marked: what a list leaves
\* out is not served unnoticed when it comes back.
ListInv(v) ==
    /\ ~vault[v].owned /\ ~vault[v].leaving /\ (crashes = 0 \/ (ShardOf[v] \in up /\ epoch # NoEpoch))
          => ~index[v].there \/ index[v].stale
    /\ crashes = 0 /\ vault[v].owned /\ ~vault[v].checked => ~Good(v)
    /\ v \in home /\ listed /\ v \notin owned => ~index[v].there \/ index[v].stale
    /\ v \in home /\ listing.on /\ v \notin listing.ids \cup listing.seen
          => v \notin owned /\ (~index[v].there \/ index[v].stale)

\* No position or sequence of the feed's epoch is beyond the feed.
MainBound ==
    /\ saved.epoch = feedEpoch => saved.cursor <= top
    /\ epoch = feedEpoch =>
        /\ cursor <= top /\ persisted <= top /\ (save.on => save.safe <= top)
        /\ \A s \in Shard : feedPos[s] <= top
VaultBound(v) ==
    /\ index[v].epoch = feedEpoch => index[v].seq <= top
    /\ epoch = feedEpoch =>
        /\ vault[v].seen <= top /\ vault[v].applied <= top
        /\ build[v].on => build[v].from <= top
        /\ Alive(v) => \A r \in Res : vault[v].pending[r] <= row[v][r]
PageBound ==
    poll.on /\ poll.epoch = feedEpoch /\ Current =>
        /\ poll.last <= top
        /\ \A c \in poll.changes : c.seq <= poll.last /\ (Alive(c.v) => c.seq <= row[c.v][c.r])

\* The index and the build under way need no news of r.
Excused(v, r) == (Good(v) => r \in index[v].fresh) /\ (build[v].on => r \in build[v].left \cup build[v].got)
InPage(v, r) == \E c \in poll.changes : c.v = v /\ c.r = r /\ c.seq = row[v][r]
\* A page on its way shows what it passes: a change it does not show has been applied,
\* or is to be.
PageInv(v) ==
    /\ poll.on /\ poll.epoch = feedEpoch /\ Current /\ rewindTo = Nothing
    /\ v \in home \cup Shown /\ Alive(v)
    => \A r \in Res : cursor < row[v][r] /\ row[v][r] <= poll.last => InPage(v, r) \/ Excused(v, r)

\* No position that is saved, or may be, passes the change of r; nor does the one of the
\* next page (ToCome).  A change its shard has heard of is pending, another is to come (Kept).
Unsaved(v, r) ==
    /\ row[v][r] > persisted
    /\ save.on => row[v][r] > save.safe
    /\ saved.epoch = feedEpoch => row[v][r] > saved.cursor
ToCome(v, r) == Fed(v) => row[v][r] > Back /\ Unsaved(v, r)
Kept(v, r) ==
    /\ row[v][r] <= vault[v].seen => vault[v].pending[r] = row[v][r]
    /\ row[v][r] > vault[v].seen => ToCome(v, r)
\* What is in the index, or was left pending by a build before a crash.
Had(v) == index[v].fresh \cup (IF crashes = 0 THEN {} ELSE carried[v])

\* On disk: what an index lacks is beyond its sequence, and beyond every saved position.
DiskInv(v) ==
    Alive(v) /\ Good(v) => \A r \in Res \ (index[v].fresh \cup carried[v]) :
        /\ row[v][r] > index[v].seq
        /\ Fed(v) => /\ saved.epoch = feedEpoch => row[v][r] > saved.cursor
                     /\ Current => row[v][r] > persisted /\ (save.on => row[v][r] > save.safe)
                     /\ vault[v].leaving => row[v][r] > Back
\* In memory: the shard remembers the sequence of its index, what the index lacks is kept,
\* and a unit at work that has read an old content will not be the last.
IndexInv(v) ==
    Alive(v) /\ Good(v) /\ vault[v].owned =>
        /\ vault[v].checked => vault[v].applied = index[v].seq
        /\ \A r \in Res \ Had(v) : row[v][r] > index[v].seq /\ Kept(v, r)
        /\ live[v].on => \A r \in Res : live[v].work[r] # 0 =>
              /\ live[v].work[r] <= top
              /\ r \notin live[v].got => r \notin index[v].fresh /\ row[v][r] > live[v].work[r]
\* What a build has read and lost since, or will not replay, is kept for after it.
BuildInv(v) ==
    Alive(v) /\ build[v].on /\ epoch = feedEpoch =>
        \A r \in Res \ (build[v].left \cup build[v].got \cup build[v].replay) :
            row[v][r] > build[v].from /\ row[v][r] > vault[v].applied /\ Kept(v, r)

\* The types of one vault's fields.
VaultState == [owned : BOOLEAN, leaving : BOOLEAN, queued : BOOLEAN, checked : BOOLEAN,
               why : InPlace \cup Beside \cup {""}, pending : [Res -> Seq0],
               seen : Seq0, applied : Seq0]
IndexState == [there : BOOLEAN, built : BOOLEAN, epoch : Epoch \cup {NoEpoch},
               seq : Seq0, fresh : SUBSET Res, stale : BOOLEAN]
UnitState == [on : BOOLEAN, work : [Res -> Seq0], got : SUBSET Res]
BuildState == [on : BOOLEAN, place : BOOLEAN, from : Seq0, left : SUBSET Res,
               got : SUBSET Res, replay : SUBSET Res]
PageState == [on : BOOLEAN, epoch : Epoch \cup {NoEpoch}, changes : SUBSET Change, last : Seq0]
ListState == [on : BOOLEAN, ids : SUBSET Vault, seen : SUBSET Vault]

GlobalInv == RowInv /\ FeedInv /\ MainInv /\ ShardInv /\ MainBound /\ PageBound
VaultInv(v) == /\ OrphanInv(v) /\ ReadsIndex(v) /\ TakenIn(v) /\ ListInv(v) /\ VaultBound(v)
               /\ PageInv(v) /\ DiskInv(v) /\ IndexInv(v) /\ BuildInv(v)
IInv == TypeOK /\ GlobalInv /\ \A v \in Vault : VaultInv(v)
-----------------------------------------------------------------------------
(* Numbers.                                                                 *)

LEMMA MinFacts ==
    ASSUME NEW S, S \subseteq Nat, S # {}
    PROVE  Min(S) \in S /\ \A x \in S : Min(S) <= x
<1> DEFINE R == OpToRel(<, Nat)
<1>1. IsWellFoundedOn(R, Nat)
    BY NatLessThanWellFounded
<1>2. \A x \in Nat, m \in Nat : x < m => <<x, m>> \in R
    BY DEF OpToRel
<1> HIDE DEF R
<1>3. PICK m \in S : \A x \in S : ~(<<x, m>> \in R)
    BY <1>1, WFMin
<1>4. ASSUME NEW x \in S
      PROVE  m <= x
    <2>1. x \in Nat /\ m \in Nat /\ ~(<<x, m>> \in R)
        BY <1>3
    <2>2. ~(x < m)
        BY <1>2, <2>1
    <2> QED BY <2>1, <2>2
<1> QED BY <1>4 DEF Min

LEMMA MaxFacts ==
    ASSUME NEW S, NEW n \in Nat, S \subseteq 0..n, S # {}
    PROVE  Max(S) \in S /\ \A x \in S : x <= Max(S)
<1> DEFINE T == {y \in 0..n : n - y \in S}
<1>1. T \subseteq Nat /\ T # {}
    <2>1. PICK x \in S : TRUE
        OBVIOUS
    <2>2. n - x \in 0..n /\ n - (n - x) = x
        OBVIOUS
    <2>3. n - x \in T
        BY <2>2
    <2>4. T \subseteq Nat
        OBVIOUS
    <2> HIDE DEF T
    <2> QED BY <2>3, <2>4
<1>2. Min(T) \in T /\ \A y \in T : Min(T) <= y
    BY <1>1, MinFacts
<1>3. \E m \in S : \A x \in S : m >= x
    <2>1. n - Min(T) \in S /\ Min(T) \in 0..n
        BY <1>2
    <2>2. ASSUME NEW x \in S
          PROVE  n - Min(T) >= x
        <3>1. n - x \in 0..n /\ n - (n - x) = x
            OBVIOUS
        <3>2. n - x \in T
            BY <3>1
        <3>3. Min(T) <= n - x
            BY <3>2, <1>2
        <3> QED BY <3>3, <2>1
    <2> QED BY <2>1, <2>2
<1>4. Max(S) \in S /\ \A x \in S : Max(S) >= x
    BY <1>3 DEF Max
<1> QED BY <1>4
-----------------------------------------------------------------------------
(* Types.                                                                   *)

LEMMA Constants ==
    /\ Gone \notin Res /\ MaxSeq \in Nat /\ MaxEpoch \in Nat
    /\ \A e \in Epoch \cup {NoEpoch} : e \in Nat
    /\ \A e \in Epoch : e # NoEpoch
    /\ \A n \in Seq0 : n \in Nat /\ n < Nothing
    /\ 0 \in Seq0 /\ Nothing \in Nat
    /\ 1 \in Epoch
BY GoneAssumption, FeedBounds DEF Seq0, Epoch, NoEpoch, Nothing

LEMMA StoreTypes ==
    ASSUME TypeOK, NEW v \in Vault
    PROVE  /\ vault[v] \in VaultState /\ index[v] \in IndexState
           /\ live[v] \in UnitState /\ build[v] \in BuildState
           /\ carried[v] \subseteq Res
           /\ row[v] \in [Res \cup {Gone} -> Seq0]
           /\ ShardOf[v] \in Shard
BY ShardAssumption DEF TypeOK, StoreType, VaultState, IndexState, UnitState, BuildState

LEMMA Blank ==
    /\ ~NewVault.owned /\ ~NewVault.leaving /\ ~NewVault.queued /\ ~NewVault.checked
    /\ NewVault.why = "" /\ NewVault.seen = 0 /\ NewVault.applied = 0
    /\ \A r \in Res : NewVault.pending[r] = 0 /\ NoPending[r] = 0 /\ NoUnit.work[r] = 0
    /\ ~NoUnit.on /\ ~NoBuild.on /\ NoBuild.left = {}
    /\ ~NoIndex.there /\ ~NoIndex.built /\ ~NoIndex.stale /\ NoIndex.seq = 0
    /\ NoIndex.epoch = NoEpoch /\ NoIndex.fresh = {}
BY DEF NewVault, NoPending, NoUnit, NoBuild, NoIndex

LEMMA Numbers ==
    ASSUME TypeOK, NEW v \in Vault
    PROVE  /\ index[v].seq \in Nat /\ index[v].epoch \in Nat
           /\ vault[v].seen \in Nat /\ vault[v].applied \in Nat /\ build[v].from \in Nat
           /\ \A r \in Res : /\ row[v][r] \in Nat /\ vault[v].pending[r] \in Nat
                             /\ live[v].work[r] \in Nat
           /\ row[v][Gone] \in Nat
<1>1. /\ vault[v] \in VaultState /\ index[v] \in IndexState
      /\ live[v] \in UnitState /\ build[v] \in BuildState
      /\ row[v] \in [Res \cup {Gone} -> Seq0]
    BY StoreTypes
<1> QED BY <1>1, Constants DEF VaultState, IndexState, UnitState, BuildState

LEMMA MainNumbers ==
    ASSUME TypeOK
    PROVE  /\ top \in Nat /\ cursor \in Nat /\ persisted \in Nat /\ save.safe \in Nat
           /\ saved.cursor \in Nat /\ saved.epoch \in Nat /\ epoch \in Nat /\ feedEpoch \in Nat
           /\ feedEpoch # NoEpoch /\ feedEpoch # 0
           /\ poll.epoch \in Nat /\ poll.last \in Nat /\ rewindTo \in Nat /\ crashes \in Nat /\ moves \in Nat
           /\ cursor < Nothing /\ persisted < Nothing /\ Nothing \in Nat /\ NoEpoch = 0
           /\ \A s \in Shard : know[s] \in Nat /\ feedPos[s] \in Nat
           /\ \A c \in poll.changes : /\ c \in Change /\ c.v \in Vault /\ c.r \in Res \cup {Gone}
                                      /\ c.seq \in Nat /\ c.seq # 0
<1>1. /\ top \in Seq0 /\ cursor \in Seq0 /\ persisted \in Seq0 /\ save.safe \in Seq0
      /\ saved.cursor \in Seq0 /\ saved.epoch \in Epoch \cup {NoEpoch} /\ epoch \in Epoch \cup {NoEpoch}
      /\ feedEpoch \in Epoch /\ poll.epoch \in Epoch \cup {NoEpoch} /\ poll.last \in Seq0
      /\ rewindTo \in 0..Nothing /\ crashes \in 0..MaxCrash /\ moves \in 0..MaxMove
      /\ poll.changes \subseteq Change
    BY DEF TypeOK
<1>2. \A s \in Shard : know[s] \in Epoch \cup {NoEpoch} /\ feedPos[s] \in Seq0
    BY DEF TypeOK, StoreType
<1>3. \A c \in poll.changes : /\ c \in Change /\ c.v \in Vault /\ c.r \in Res \cup {Gone}
                              /\ c.seq \in Nat /\ c.seq # 0
    BY <1>1 DEF Change
<1>4. rewindTo \in Nat /\ crashes \in Nat /\ moves \in Nat /\ NoEpoch = 0
    BY <1>1, Constants, PageAssumption DEF NoEpoch
<1> QED BY <1>1, <1>2, <1>3, <1>4, Constants

LEMMA Literals ==
    /\ NewVault \in VaultState /\ NoIndex \in IndexState
    /\ NoUnit \in UnitState /\ NoBuild \in BuildState
    /\ NoPending \in [Res -> Seq0]
    /\ NoPage \in PageState /\ NoList \in ListState
<1>1. NoPending \in [Res -> Seq0]
    BY Constants DEF NoPending
<1>2. NewVault \in VaultState
    BY <1>1, Constants DEF NewVault, VaultState
<1>3. NoIndex \in IndexState
    BY Constants DEF NoIndex, IndexState
<1>4. NoUnit \in UnitState /\ NoBuild \in BuildState
    BY <1>1, Constants DEF NoUnit, UnitState, NoBuild, BuildState
<1>5. NoPage \in PageState /\ NoList \in ListState
    BY Constants DEF NoPage, PageState, NoList, ListState
<1> QED BY <1>1, <1>2, <1>3, <1>4, <1>5

LEMMA WaterType ==
    ASSUME NEW w \in VaultState, NEW f \in Seq0
    PROVE  /\ LowWaterOf(w, f) \in Seq0 /\ LowWaterOf(w, f) >= f
           /\ LowWaterOf(w, f) <= f \/ LowWaterOf(w, f) <= w.seen
           /\ \A r \in Waiting(w.pending) : f < w.pending[r] => LowWaterOf(w, f) < w.pending[r]
<1> DEFINE T == {w.pending[r] : r \in Waiting(w.pending)}
<1>1. w.seen \in Seq0 /\ w.pending \in [Res -> Seq0]
    BY DEF VaultState
<1>2. CASE Waiting(w.pending) = {}
    BY <1>1, <1>2, Constants DEF LowWaterOf, Larger
<1>3. CASE Waiting(w.pending) # {}
    <2>1. T \subseteq Nat /\ T # {}
        BY <1>1, <1>3, Constants DEF Waiting
    <2>2. Min(T) \in T /\ \A x \in T : Min(T) <= x
        BY <2>1, MinFacts
    <2>3. \A r \in Waiting(w.pending) : w.pending[r] \in Nat /\ Min(T) <= w.pending[r]
        BY <1>1, <2>2, Constants DEF Waiting
    <2>4. Min(T) \in Nat /\ Min(T) # 0
        BY <2>2, <2>1 DEF Waiting
    <2>5. LowWaterOf(w, f) = Larger(f, Smaller(w.seen, Min(T) - 1))
        BY <1>3 DEF LowWaterOf, MinPending
    <2> HIDE DEF T
    <2>6. /\ LowWaterOf(w, f) \in {f, w.seen, Min(T) - 1} /\ LowWaterOf(w, f) >= f
          /\ LowWaterOf(w, f) <= f \/ LowWaterOf(w, f) <= w.seen
          /\ LowWaterOf(w, f) <= f \/ LowWaterOf(w, f) < Min(T)
        BY <1>1, <2>4, <2>5, Constants DEF Larger, Smaller
    <2>7. LowWaterOf(w, f) \in Seq0
        BY <2>6, <2>4, <1>1, FeedBounds DEF Seq0
    <2> QED BY <2>3, <2>4, <2>6, <2>7, Constants
<1> QED BY <1>2, <1>3

LEMMA CountedBySequence ==
    ASSUME TypeOK, RowInv, NEW A, A \subseteq Feed
    PROVE  IsFiniteSet(A) /\ \A c \in A, d \in A : c.seq = d.seq => c = d
<1>1. \A c \in A : c \in Change /\ c.seq = row[c.v][c.r]
    BY DEF Feed
<1>2. \A c \in A, d \in A : c.seq = d.seq => c = d
    <2> SUFFICES ASSUME NEW c \in A, NEW d \in A, c.seq = d.seq
                 PROVE  c = d
        OBVIOUS
    <2>1. /\ c \in Change /\ d \in Change
          /\ c.v \in Vault /\ d.v \in Vault /\ c.r \in Res \cup {Gone} /\ d.r \in Res \cup {Gone}
          /\ row[c.v][c.r] = row[d.v][d.r] /\ row[c.v][c.r] # 0
        BY <1>1 DEF Change
    <2>2. c.v = d.v /\ c.r = d.r
        BY <2>1 DEF RowInv
    <2> QED BY <2>1, <2>2 DEF Change
<1>3. IsFiniteSet(A)
    <2> DEFINE f == [c \in A |-> c.seq]
    <2>1. \A c \in A : c.seq \in 1..MaxSeq
        BY <1>1 DEF Change
    <2>2. f \in [A -> 1..MaxSeq] /\ \A c \in A, d \in A : f[c] = f[d] => c = d
        BY <2>1, <1>2
    <2> HIDE DEF f
    <2>3. f \in Injection(A, 1..MaxSeq)
        BY <2>2 DEF Injection, IsInjective
    <2>4. IsFiniteSet(1..MaxSeq)
        BY FS_Interval, Constants
    <2> QED BY <2>3, <2>4, FS_Injection
<1> QED BY <1>2, <1>3

Before(A, c) == {d \in A : d.seq < c.seq}
FirstOf(A) == {c \in A : Cardinality(Before(A, c)) < Limit}

LEMMA BeforeFacts ==
    ASSUME NEW A, IsFiniteSet(A), NEW c \in A
    PROVE  /\ Before(A, c) \subseteq A /\ IsFiniteSet(Before(A, c))
           /\ Cardinality(Before(A, c)) \in Nat
<1>1. Before(A, c) \in SUBSET A
    BY DEF Before
<1>2. IsFiniteSet(Before(A, c))
    BY <1>1, FS_Subset
<1> QED BY <1>1, <1>2, FS_CardinalityType

\* With the limit reached, what is not after one of the first is one of the first;
\* short of it, all are.
LEMMA FirstFacts ==
    ASSUME NEW A, IsFiniteSet(A), \A c \in A : c.seq \in 1..MaxSeq,
           \A c \in A, d \in A : c.seq = d.seq => c = d
    PROVE  /\ FirstOf(A) \subseteq A
           /\ Cardinality(FirstOf(A)) = Limit => FirstOf(A) # {}
           /\ \A c \in A, m \in FirstOf(A) : c.seq <= m.seq => c \in FirstOf(A)
           /\ Cardinality(FirstOf(A)) # Limit => FirstOf(A) = A
<1> DEFINE first == FirstOf(A)
<1>1. first \in SUBSET A
    BY DEF FirstOf
<1>2. IsFiniteSet(first) /\ Cardinality(first) \in Nat
    <2>1. IsFiniteSet(first)
        BY <1>1, FS_Subset
    <2> QED BY <2>1, FS_CardinalityType
<1>3. Limit \in Nat \ {0}
    BY PageAssumption
<1>4. Cardinality(first) = Limit => first # {}
    <2> HIDE DEF first
    <2> QED BY <1>3, FS_EmptySet
<1>5. ASSUME NEW c \in A, NEW m \in first, c.seq <= m.seq
      PROVE  c \in first
    <2>1. m \in A /\ Cardinality(Before(A, m)) < Limit
        BY DEF FirstOf
    <2>2. \A d \in A : d.seq \in Nat
        OBVIOUS
    <2>3. Before(A, c) \in SUBSET Before(A, m)
        BY <1>5, <2>1, <2>2 DEF Before
    <2>4. /\ IsFiniteSet(Before(A, m)) /\ Cardinality(Before(A, m)) \in Nat
          /\ Cardinality(Before(A, c)) \in Nat
        BY <2>1, BeforeFacts
    <2>5. Cardinality(Before(A, c)) <= Cardinality(Before(A, m))
        BY <2>3, <2>4, FS_Subset
    <2>6. Cardinality(Before(A, c)) < Limit
        BY <2>1, <2>4, <2>5, <1>3
    <2> QED BY <2>6 DEF FirstOf
<1>6. ASSUME Cardinality(first) # Limit, NEW e \in A, e \notin first
      PROVE  FALSE
    <2> DEFINE late == {d.seq : d \in A \ first}
               seqs == {d.seq : d \in first}
    <2>1. late \subseteq Nat /\ late # {} /\ \A d \in A \ first : d.seq \in late
        <3> HIDE DEF first
        <3> QED BY <1>6
    <2>2. PICK n \in A \ first : \A d \in A \ first : n.seq <= d.seq
        <3>1. Min(late) \in late /\ \A x \in late : Min(late) <= x
            <4> HIDE DEF late
            <4> QED BY <2>1, MinFacts
        <3>2. PICK n \in A \ first : n.seq = Min(late)
            BY <3>1
        <3>3. \A d \in A \ first : n.seq <= d.seq
            <4> HIDE DEF late
            <4> QED BY <2>1, <3>1, <3>2
        <3> QED BY <3>3
    <2>3. Before(A, n) \in SUBSET first
        <3>1. n.seq \in Nat /\ \A d \in A : d.seq \in Nat
            OBVIOUS
        <3> HIDE DEF first
        <3> QED BY <3>1, <2>2 DEF Before
    <2>4. Cardinality(Before(A, n)) \in Nat /\ ~(Cardinality(Before(A, n)) < Limit)
        BY BeforeFacts DEF FirstOf
    <2>5. Cardinality(Before(A, n)) <= Cardinality(first)
        BY <2>3, <1>2, FS_Subset
    <2>6. Cardinality(first) > Limit
        BY <1>2, <1>3, <1>6, <2>4, <2>5
    <2>7. first # {}
        <3> HIDE DEF first
        <3> QED BY <2>6, <1>3, FS_EmptySet
    <2>8. seqs \subseteq 0..MaxSeq /\ seqs # {} /\ \A d \in first : d.seq \in seqs
        <3> HIDE DEF first
        <3> QED BY <1>1, <2>7
    <2>9. PICK m \in first : \A d \in first : d.seq <= m.seq
        <3>1. Max(seqs) \in seqs /\ \A x \in seqs : x <= Max(seqs)
            <4> HIDE DEF seqs
            <4> QED BY <2>8, MaxFacts, FeedBounds
        <3>2. PICK m \in first : m.seq = Max(seqs)
            BY <3>1
        <3>3. \A d \in first : d.seq <= m.seq
            <4> HIDE DEF seqs
            <4> QED BY <2>8, <3>1, <3>2
        <3> QED BY <3>3
    <2>10. m \in A /\ Cardinality(Before(A, m)) < Limit
        BY DEF FirstOf
    <2>11. first \in SUBSET (Before(A, m) \cup {m})
        <3>1. \A d \in first : d \in A /\ d.seq \in Nat /\ m.seq \in Nat
            BY <1>1, <2>10
        <3>2. \A d \in first : d.seq < m.seq \/ d = m
            BY <3>1, <2>9, <2>10
        <3> HIDE DEF first
        <3> QED BY <3>1, <3>2 DEF Before
    <2>12. IsFiniteSet(Before(A, m)) /\ Cardinality(Before(A, m)) \in Nat
        BY <2>10, BeforeFacts
    <2>13. m \notin Before(A, m)
        BY <2>10 DEF Before
    <2>14. IsFiniteSet(Before(A, m) \cup {m}) /\ Cardinality(Before(A, m) \cup {m}) = Cardinality(Before(A, m)) + 1
        BY <2>12, <2>13, FS_AddElement
    <2>15. Cardinality(first) <= Cardinality(Before(A, m) \cup {m})
        <3> HIDE DEF first
        <3> QED BY <2>11, <2>14, FS_Subset
    <2> QED BY <1>2, <1>3, <2>6, <2>10, <2>12, <2>14, <2>15
<1> QED BY <1>1, <1>4, <1>5, <1>6

After(since) == {c \in Feed : c.seq > since}
Rows(since) == {row[v][r] : v \in Vault, r \in Res \cup {Gone}} \cup {since}
LastOf(since) == IF Cardinality(FirstOf(After(since))) = Limit
                 THEN Max({c.seq : c \in FirstOf(After(since))}) ELSE Max(Rows(since))

\* A page holds all that the peer is to hear of between two positions.
LEMMA PageFacts ==
    ASSUME TypeOK, RowInv, NEW since \in Seq0
    PROVE  /\ Page(since) \in PageState
           /\ Page(since).on /\ Page(since).epoch = feedEpoch
           /\ since <= top => Page(since).last <= top
           /\ \A c \in Page(since).changes : c \in Feed /\ c.seq <= Page(since).last
           /\ \A v \in home : \A r \in Res :
                since < row[v][r] /\ row[v][r] <= Page(since).last =>
                    \E c \in Page(since).changes : c.v = v /\ c.r = r /\ c.seq = row[v][r]
<1> DEFINE after == After(since)
           first == FirstOf(after)
           seqs == {c.seq : c \in first}
           last == LastOf(since)
<1>1. Page(since) = [on |-> TRUE, epoch |-> feedEpoch, changes |-> first, last |-> last]
    BY DEF Page, After, Before, FirstOf, Rows, LastOf
<1>2. \A c \in after : /\ c \in Change /\ c \in Feed /\ c.seq = row[c.v][c.r] /\ c.seq \in 1..MaxSeq
                       /\ c.v \in Vault /\ c.r \in Res \cup {Gone} /\ c.seq > since
    BY DEF Feed, Change, After
<1>3. IsFiniteSet(after) /\ \A c \in after, d \in after : c.seq = d.seq => c = d
    <2>1. after \subseteq Feed
        BY DEF After
    <2> QED BY <2>1, CountedBySequence
<1>4. /\ first \subseteq after
      /\ Cardinality(first) = Limit => first # {}
      /\ \A c \in after, m \in first : c.seq <= m.seq => c \in first
      /\ Cardinality(first) # Limit => first = after
    <2> HIDE DEF after
    <2> QED BY <1>2, <1>3, FirstFacts
<1>5. Rows(since) \subseteq 0..MaxSeq /\ since \in Rows(since)
    BY DEF TypeOK, Seq0, Rows
<1>6. Max(Rows(since)) \in Rows(since) /\ \A x \in Rows(since) : x <= Max(Rows(since))
    BY <1>5, MaxFacts, FeedBounds
<1>7. \A c \in after : c.seq \in Rows(since)
    BY <1>2 DEF Rows
<1>8. seqs \subseteq 0..MaxSeq /\ (first # {} => seqs # {}) /\ \A c \in first : c.seq \in seqs
    <2> HIDE DEF after, first
    <2> QED BY <1>2, <1>4
<1>9. /\ last \in Rows(since) /\ (\A c \in first : c.seq <= last)
      /\ Cardinality(first) = Limit => \E m \in first : m.seq = last
    <2>1. CASE Cardinality(first) = Limit
        <3>1. Max(seqs) \in seqs /\ \A x \in seqs : x <= Max(seqs)
            <4> HIDE DEF seqs
            <4> QED BY <1>4, <1>8, <2>1, MaxFacts, FeedBounds
        <3>2. last = Max(seqs)
            BY <2>1 DEF LastOf
        <3>3. PICK m \in first : m.seq = last
            <4> HIDE DEF first, last
            <4> QED BY <3>1, <3>2
        <3>4. last \in Rows(since)
            <4> HIDE DEF first, last, after
            <4> QED BY <3>3, <1>7, <1>4
        <3>5. \A c \in first : c.seq <= last
            <4> HIDE DEF first, last, seqs
            <4> QED BY <3>1, <3>2, <1>8
        <3> QED BY <3>3, <3>4, <3>5
    <2>2. CASE Cardinality(first) # Limit
        <3>1. last = Max(Rows(since))
            BY <2>2 DEF LastOf
        <3> HIDE DEF first, last, after
        <3> QED BY <3>1, <1>6, <1>7, <1>4, <2>2
    <2> QED BY <2>1, <2>2
<1>10. last \in Seq0
    BY <1>9, <1>5 DEF Seq0
<1>11. since <= top => last <= top
    <2>1. since <= top => \A x \in Rows(since) : x <= top
        BY DEF RowInv, Rows
    <2> HIDE DEF last
    <2> QED BY <2>1, <1>9
<1>12. ASSUME NEW c \in after, c.seq <= last
       PROVE  c \in first
    <2> HIDE DEF first, last, after
    <2> QED BY <1>4, <1>9, <1>12
<1>13. ASSUME NEW v \in home, NEW r \in Res, since < row[v][r], row[v][r] <= last
       PROVE  \E c \in first : c.v = v /\ c.r = r /\ c.seq = row[v][r]
    <2> DEFINE c == [seq |-> row[v][r], v |-> v, r |-> r]
    <2>1. v \in Vault /\ row[v][r] \in 1..MaxSeq
        BY <1>13 DEF TypeOK, Seq0
    <2>2. c \in Change
        BY <2>1 DEF Change
    <2>3. c \in Feed
        BY <2>2 DEF Feed
    <2>4. c \in after
        BY <2>3, <1>13 DEF After
    <2>5. c \in first
        <3>1. c.seq <= last
            BY <1>13
        <3> HIDE DEF c, first, last, after
        <3> QED BY <3>1, <2>4, <1>12
    <2> HIDE DEF first
    <2> QED BY <2>5
<1>14. [on |-> TRUE, epoch |-> feedEpoch, changes |-> first, last |-> last] \in PageState
    <2>1. first \in SUBSET Change
        BY <1>2, <1>4
    <2> HIDE DEF first, last
    <2> QED BY <1>10, <2>1 DEF PageState, TypeOK
<1> HIDE DEF last, first, after
<1>15. \A c \in first : c \in Feed /\ c.seq <= last
    BY <1>2, <1>4, <1>9
<1> QED BY <1>1, <1>11, <1>13, <1>14, <1>15
-----------------------------------------------------------------------------
(* What the work of a shard changes.                                        *)

OnlyOf(v) == \A w \in Vault \ {v} :
    /\ vault'[w] = vault[w] /\ index'[w] = index[w] /\ live'[w] = live[w]
    /\ build'[w] = build[w] /\ carried'[w] = carried[w]
Elsewhere == UNCHANGED <<feedEpoch, top, row, home, up, know, feedPos, saved, epoch, cursor, persisted,
                         rewindTo, owned, listed, listing, poll, save, crashes, moves>>
Works(v) == TypeOK' /\ Elsewhere /\ OnlyOf(v)

Put(v, a, i, u, b, k) ==
    /\ vault' = [vault EXCEPT ![v] = a] /\ index' = [index EXCEPT ![v] = i]
    /\ live' = [live EXCEPT ![v] = u] /\ build' = [build EXCEPT ![v] = b]
    /\ carried' = [carried EXCEPT ![v] = k]

LEMMA OneVault ==
    ASSUME TypeOK, NEW v \in Vault, Elsewhere,
           NEW a \in VaultState, NEW i \in IndexState, NEW u \in UnitState,
           NEW b \in BuildState, NEW k \in SUBSET Res,
           Put(v, a, i, u, b, k)
    PROVE  /\ Works(v)
           /\ vault'[v] = a /\ index'[v] = i /\ live'[v] = u /\ build'[v] = b /\ carried'[v] = k
<1>1. /\ vault \in [Vault -> VaultState] /\ index \in [Vault -> IndexState]
      /\ live \in [Vault -> UnitState] /\ build \in [Vault -> BuildState]
      /\ carried \in [Vault -> SUBSET Res]
    BY DEF TypeOK, StoreType, VaultState, IndexState, UnitState, BuildState
<1>2. /\ vault' \in [Vault -> VaultState] /\ index' \in [Vault -> IndexState]
      /\ live' \in [Vault -> UnitState] /\ build' \in [Vault -> BuildState]
      /\ carried' \in [Vault -> SUBSET Res]
    BY <1>1 DEF Put
<1>3. StoreType'
    <2>1. up' \in SUBSET Shard /\ know' \in [Shard -> Epoch \cup {NoEpoch}] /\ feedPos' \in [Shard -> Seq0]
        BY DEF TypeOK, StoreType, Elsewhere
    <2> QED BY <1>2, <2>1 DEF StoreType, VaultState, IndexState, UnitState, BuildState
<1>4. TypeOK'
    BY <1>3 DEF TypeOK, Elsewhere
<1>5. OnlyOf(v)
    BY <1>1 DEF OnlyOf, Put
<1>6. vault'[v] = a /\ index'[v] = i /\ live'[v] = u /\ build'[v] = b /\ carried'[v] = k
    BY <1>1 DEF Put
<1> QED BY <1>4, <1>5, <1>6 DEF Works

LEMMA Untouched ==
    ASSUME TypeOK, NEW v \in Vault
    PROVE  /\ vault = [vault EXCEPT ![v] = vault[v]]
           /\ index = [index EXCEPT ![v] = index[v]]
           /\ live = [live EXCEPT ![v] = live[v]]
           /\ build = [build EXCEPT ![v] = build[v]]
           /\ carried = [carried EXCEPT ![v] = carried[v]]
           /\ carried[v] \in SUBSET Res
BY DEF TypeOK, StoreType

LEMMA ClearFacts ==
    ASSUME NEW p \in [Res -> Seq0], NEW S
    PROVE  Clear(p, S) \in [Res -> Seq0] /\ \A r \in Res : Clear(p, S)[r] = IF r \in S THEN 0 ELSE p[r]
BY Constants DEF Clear

Here == UNCHANGED <<backend, saved, main, crashes, moves>>

LEMMA HereFacts ==
    ASSUME Here, UNCHANGED <<up, know, feedPos>>
    PROVE  Elsewhere
BY DEF Here, Elsewhere, backend, main

LEMMA CheckFacts ==
    ASSUME TypeOK, NEW v \in Vault, Check(v), Here
    PROVE  /\ Works(v) /\ Working(v) /\ vault[v].queued
           /\ index'[v] = index[v] /\ live'[v] = live[v] /\ build'[v] = build[v] /\ carried'[v] = carried[v]
           /\ vault'[v].owned = vault[v].owned /\ vault'[v].leaving = vault[v].leaving
           /\ vault'[v].pending = vault[v].pending /\ vault'[v].seen = vault[v].seen
           /\ vault'[v].checked /\ ~vault'[v].queued
           /\ vault[v].checked => vault'[v].why = vault[v].why /\ vault'[v].applied = vault[v].applied
           /\ ~vault[v].checked =>
                /\ vault'[v].why = "" =>
                     /\ vault[v].why = "" /\ index[v].built /\ ~index[v].stale
                     /\ know[ShardOf[v]] # NoEpoch => index[v].epoch = know[ShardOf[v]]
                /\ vault'[v].why \in InPlace =>
                     vault[v].why \in InPlace \/ ~index[v].there \/ ~index[v].built
                /\ vault'[v].why = "stale" => vault[v].why = "stale" \/ index[v].stale
                /\ vault'[v].why = "epoch" => vault[v].why = "epoch" \/ index[v].epoch # know[ShardOf[v]]
                /\ vault'[v].why = "epoch" /\ vault[v].why # "epoch" => index[v].built
                /\ vault'[v].why \in Beside => index[v].built
                /\ vault'[v].applied = IF vault'[v].why \in {"", "stale"} THEN index[v].seq
                                       ELSE vault[v].applied
                /\ vault[v].why = "epoch" => vault'[v].why \notin {"", "stale"}
<1> DEFINE w == vault[v]
           found == Decide(v)
           new == IF found # "" /\ ~(w.why # "" /\ found \in Beside) THEN found ELSE w.why
           a == IF w.checked THEN [w EXCEPT !.queued = FALSE]
                ELSE [w EXCEPT !.queued = FALSE, !.checked = TRUE, !.why = new,
                               !.applied = IF new \in {"", "stale"} THEN index[v].seq ELSE vault[v].applied]
<1>1. w \in VaultState /\ index[v] \in IndexState
    BY StoreTypes
<1>2. found \in InPlace \cup Beside \cup {""}
    BY DEF Decide, InPlace, Beside
<1>3. a \in VaultState
    BY <1>1, <1>2 DEF VaultState, IndexState, InPlace, Beside
<1>4. Elsewhere
    BY HereFacts DEF Check
<1>5. vault' = [vault EXCEPT ![v] = a]
    <2>1. CASE w.checked
        <3>1. vault' = [vault EXCEPT ![v] = [vault[v] EXCEPT !.queued = FALSE]]
            BY <2>1 DEF Check
        <3> QED BY <3>1, <2>1
    <2>2. CASE ~w.checked
        <3>1. vault' = [vault EXCEPT ![v] = [vault[v] EXCEPT !.queued = FALSE, !.checked = TRUE, !.why = new,
                               !.applied = IF new \in {"", "stale"} THEN index[v].seq ELSE vault[v].applied]]
            BY <2>2 DEF Check
        <3> QED BY <3>1, <2>2
    <2> QED BY <2>1, <2>2
<1>6. /\ Works(v) /\ vault'[v] = a
      /\ index'[v] = index[v] /\ live'[v] = live[v] /\ build'[v] = build[v] /\ carried'[v] = carried[v]
    <2>1. UNCHANGED <<index, live, build, carried>>
        BY DEF Check
    <2>2. Put(v, a, index[v], live[v], build[v], carried[v])
        BY <1>5, <2>1, Untouched DEF Put
    <2>3. index[v] \in IndexState /\ live[v] \in UnitState /\ build[v] \in BuildState /\ carried[v] \in SUBSET Res
        BY StoreTypes
    <2> HIDE DEF a
    <2> QED BY <1>3, <1>4, <2>2, <2>3, OneVault
<1>7. /\ a.owned = w.owned /\ a.leaving = w.leaving /\ a.pending = w.pending /\ a.seen = w.seen
      /\ a.checked /\ ~a.queued
      /\ w.checked => a.why = w.why /\ a.applied = w.applied
      /\ ~w.checked => /\ a.why = new
                       /\ a.applied = IF new \in {"", "stale"} THEN index[v].seq ELSE w.applied
    <2> HIDE DEF new
    <2> QED BY <1>1 DEF VaultState
<1>8. /\ found = "" => /\ index[v].built /\ ~index[v].stale
                       /\ know[ShardOf[v]] # NoEpoch => index[v].epoch = know[ShardOf[v]]
      /\ found \in InPlace => ~index[v].there \/ ~index[v].built
      /\ found = "stale" => index[v].stale /\ index[v].built
      /\ found = "epoch" => index[v].built /\ index[v].epoch # know[ShardOf[v]]
      /\ found \in Beside \cup {""} => index[v].built
    BY <1>1 DEF Decide, InPlace, Beside, IndexState
<1>9. /\ new = "" => found = "" /\ w.why = ""
      /\ new \in InPlace => found \in InPlace \/ w.why \in InPlace
      /\ new = "stale" => w.why = "stale" \/ found = "stale"
      /\ new = "epoch" => w.why = "epoch" \/ found = "epoch"
      /\ new \in Beside => found \in Beside \cup {""}
      /\ w.why = "epoch" => new \notin {"", "stale"}
    BY <1>1, <1>2 DEF InPlace, Beside, VaultState
<1> HIDE DEF a, new, found
<1>10. Working(v) /\ vault[v].queued
    BY DEF Check
<1> QED BY <1>6, <1>7, <1>8, <1>9, <1>10

LEMMA LiveTakeFacts ==
    ASSUME TypeOK, NEW v \in Vault, NEW due \in SUBSET Res, LiveTake(v, due), Here
    PROVE  /\ Works(v) /\ Working(v) /\ ~live[v].on /\ vault[v].checked /\ vault[v].why \notin InPlace
           /\ index'[v] = index[v] /\ build'[v] = build[v] /\ carried'[v] = carried[v]
           /\ vault'[v].owned = vault[v].owned /\ vault'[v].leaving = vault[v].leaving
           /\ vault'[v].checked = vault[v].checked /\ vault'[v].queued = vault[v].queued
           /\ vault'[v].why = vault[v].why /\ vault'[v].seen = vault[v].seen
           /\ vault'[v].applied = vault[v].applied
           /\ \A r \in Res : vault'[v].pending[r] = vault[v].pending[r]
                             \/ (vault'[v].pending[r] = 0 /\ vault[v].pending[r] <= vault[v].applied)
           /\ \/ live'[v] = live[v]
              \/ /\ live'[v].on
                 /\ \A r \in Res : live'[v].work[r] # 0 =>
                      live'[v].work[r] = vault[v].pending[r] /\ r \in live'[v].got
<1> DEFINE w == vault[v]
           new == {r \in due : w.pending[r] > w.applied}
           a == [w EXCEPT !.pending = Clear(@, due \ new)]
           u == IF new = {} THEN live[v] ELSE [on |-> TRUE, work |-> Clear(w.pending, Res \ new), got |-> new]
<1>1. /\ w \in VaultState /\ live[v] \in UnitState /\ w.pending \in [Res -> Seq0]
      /\ w.applied \in Nat /\ \A r \in Res : w.pending[r] \in Nat
    BY StoreTypes, Constants DEF VaultState
<1>2. /\ a \in VaultState /\ a.owned = w.owned /\ a.leaving = w.leaving /\ a.checked = w.checked
      /\ a.queued = w.queued /\ a.why = w.why /\ a.seen = w.seen /\ a.applied = w.applied
      /\ a.pending = Clear(w.pending, due \ new)
    <2>1. Clear(w.pending, due \ new) \in [Res -> Seq0]
        BY <1>1, ClearFacts
    <2> HIDE DEF new
    <2> QED BY <1>1, <2>1 DEF VaultState
<1>3. u \in UnitState
    <2>1. Clear(w.pending, Res \ new) \in [Res -> Seq0] /\ new \in SUBSET Res
        BY <1>1, ClearFacts
    <2> HIDE DEF new
    <2> QED BY <1>1, <2>1 DEF UnitState
<1>4. Elsewhere
    BY HereFacts DEF LiveTake
<1>5. vault' = [vault EXCEPT ![v] = a] /\ live' = [live EXCEPT ![v] = u]
    <2>1. vault' = [vault EXCEPT ![v] = a]
        BY DEF LiveTake
    <2>2. live' = [live EXCEPT ![v] = u]
        BY Untouched DEF LiveTake
    <2> QED BY <2>1, <2>2
<1>6. /\ Works(v) /\ vault'[v] = a /\ live'[v] = u
      /\ index'[v] = index[v] /\ build'[v] = build[v] /\ carried'[v] = carried[v]
    <2>1. UNCHANGED <<index, build, carried>>
        BY DEF LiveTake
    <2>2. Put(v, a, index[v], u, build[v], carried[v])
        BY <1>5, <2>1, Untouched DEF Put
    <2>3. index[v] \in IndexState /\ build[v] \in BuildState /\ carried[v] \in SUBSET Res
        BY StoreTypes
    <2>4. a \in VaultState
        BY <1>2
    <2> HIDE DEF a, u
    <2> QED BY <2>4, <1>3, <1>4, <2>2, <2>3, OneVault
<1>7. \A r \in Res : a.pending[r] = w.pending[r] \/ (a.pending[r] = 0 /\ w.pending[r] <= w.applied)
    <2>1. \A r \in Res : a.pending[r] = IF r \in due \ new THEN 0 ELSE w.pending[r]
        BY <1>1, <1>2, ClearFacts
    <2>2. \A r \in due \ new : w.pending[r] <= w.applied
        BY <1>1
    <2> HIDE DEF a, new
    <2> QED BY <2>1, <2>2
<1>8. u = live[v] \/ (u.on /\ \A r \in Res : u.work[r] # 0 => u.work[r] = w.pending[r] /\ r \in u.got)
    <2>1. \A r \in Res : Clear(w.pending, Res \ new)[r] = IF r \in Res \ new THEN 0 ELSE w.pending[r]
        BY <1>1, ClearFacts
    <2> HIDE DEF new
    <2> QED BY <2>1
<1>9. Working(v) /\ ~live[v].on /\ vault[v].checked /\ vault[v].why \notin InPlace
    BY DEF LiveTake
<1> HIDE DEF a, u
<1>10. /\ vault'[v].owned = vault[v].owned /\ vault'[v].leaving = vault[v].leaving
       /\ vault'[v].checked = vault[v].checked /\ vault'[v].queued = vault[v].queued
       /\ vault'[v].why = vault[v].why /\ vault'[v].seen = vault[v].seen
       /\ vault'[v].applied = vault[v].applied
    BY <1>2, <1>6
<1>11. \A r \in Res : vault'[v].pending[r] = vault[v].pending[r]
                             \/ (vault'[v].pending[r] = 0 /\ vault[v].pending[r] <= vault[v].applied)
    BY <1>6, <1>7
<1> QED BY <1>6, <1>8, <1>9, <1>10, <1>11

LEMMA LiveWriteFacts ==
    ASSUME TypeOK, NEW v \in Vault, LiveWrite(v), Here
    PROVE  /\ Works(v) /\ ShardOf[v] \in up /\ live[v].on
           /\ vault'[v].owned = vault[v].owned /\ vault'[v].leaving = vault[v].leaving
           /\ vault'[v].checked = vault[v].checked /\ vault'[v].queued = vault[v].queued
           /\ vault'[v].why = vault[v].why /\ vault'[v].seen = vault[v].seen
           /\ index'[v].there = index[v].there /\ index'[v].built = index[v].built
           /\ index'[v].epoch = index[v].epoch /\ index'[v].stale = index[v].stale
           /\ index'[v].fresh = (index[v].fresh \ Waiting(live[v].work)) \cup live[v].got
           /\ carried'[v] = carried[v] \ live[v].got
           /\ ~live'[v].on
           /\ build'[v].on = build[v].on /\ build'[v].place = build[v].place
           /\ build'[v].from = build[v].from /\ build'[v].left = build[v].left
           /\ build'[v].got = build[v].got
           /\ build'[v].replay = IF build[v].on /\ ~build[v].place
                                 THEN build[v].replay \cup Waiting(live[v].work) ELSE build[v].replay
           /\ \A r \in Res : \/ vault'[v].pending[r] = vault[v].pending[r]
                             \/ /\ vault'[v].pending[r] = 0 /\ live[v].work[r] # 0
                                /\ vault[v].pending[r] = live[v].work[r]
           /\ \E seq \in Seq0 :
                /\ seq = 0 \/ seq <= vault[v].seen
                /\ \A r \in Res : vault'[v].pending[r] # 0 => seq < vault'[v].pending[r]
                /\ vault'[v].applied = Larger(vault[v].applied, seq)
                /\ index'[v].seq = IF seq > vault[v].applied THEN seq ELSE index[v].seq
<1> DEFINE u == live[v]
           done == {r \in Waiting(u.work) : vault[v].pending[r] = u.work[r]}
           w == [vault[v] EXCEPT !.pending = Clear(@, done)]
           seq == LowWaterOf(w, 0)
           a == [w EXCEPT !.applied = Larger(w.applied, seq)]
           i == [index[v] EXCEPT !.fresh = (index[v].fresh \ Waiting(u.work)) \cup u.got,
                                 !.seq = IF seq > w.applied THEN seq ELSE index[v].seq]
           b == [build[v] EXCEPT !.replay = IF build[v].on /\ ~build[v].place
                                 THEN build[v].replay \cup Waiting(u.work) ELSE build[v].replay]
           k == carried[v] \ u.got
<1>1. /\ vault[v] \in VaultState /\ u \in UnitState /\ index[v] \in IndexState /\ build[v] \in BuildState
      /\ vault[v].pending \in [Res -> Seq0] /\ carried[v] \subseteq Res
    BY StoreTypes DEF VaultState
<1>2. /\ w \in VaultState /\ w.pending = Clear(vault[v].pending, done) /\ w.seen = vault[v].seen
      /\ w.owned = vault[v].owned /\ w.leaving = vault[v].leaving /\ w.checked = vault[v].checked
      /\ w.queued = vault[v].queued /\ w.why = vault[v].why /\ w.applied = vault[v].applied
    <2>1. Clear(vault[v].pending, done) \in [Res -> Seq0]
        BY <1>1, ClearFacts
    <2> HIDE DEF done
    <2> QED BY <1>1, <2>1 DEF VaultState
<1>3. /\ seq \in Seq0 /\ (seq <= 0 \/ seq <= w.seen)
      /\ \A r \in Res : w.pending[r] # 0 => seq < w.pending[r]
    <2>1. w.pending \in [Res -> Seq0] /\ \A r \in Res : w.pending[r] # 0 => 0 < w.pending[r] /\ r \in Waiting(w.pending)
        <3>1. w.pending \in [Res -> Seq0]
            BY <1>2 DEF VaultState
        <3> HIDE DEF w
        <3> QED BY <3>1, Constants DEF Waiting
    <2> HIDE DEF w
    <2> QED BY <1>2, <2>1, WaterType, Constants
<1>4. /\ a \in VaultState /\ a.pending = w.pending /\ a.seen = w.seen
      /\ a.owned = w.owned /\ a.leaving = w.leaving /\ a.checked = w.checked
      /\ a.queued = w.queued /\ a.why = w.why /\ a.applied = Larger(w.applied, seq)
    <2>1. Larger(w.applied, seq) \in Seq0
        <3>1. w.applied \in Seq0
            BY <1>1, <1>2 DEF VaultState
        <3> HIDE DEF w, seq
        <3> QED BY <1>3, <3>1 DEF Larger
    <2> HIDE DEF w, seq
    <2> QED BY <1>2, <2>1 DEF VaultState
<1>5. /\ i \in IndexState /\ i.there = index[v].there /\ i.built = index[v].built
      /\ i.epoch = index[v].epoch /\ i.stale = index[v].stale
      /\ i.fresh = (index[v].fresh \ Waiting(u.work)) \cup u.got
      /\ i.seq = IF seq > w.applied THEN seq ELSE index[v].seq
    <2>1. (index[v].fresh \ Waiting(u.work)) \cup u.got \in SUBSET Res
        BY <1>1 DEF IndexState, UnitState
    <2> HIDE DEF seq, w
    <2> QED BY <1>1, <1>3, <2>1 DEF IndexState
<1>6. /\ b \in BuildState /\ b.on = build[v].on /\ b.place = build[v].place
      /\ b.from = build[v].from /\ b.left = build[v].left /\ b.got = build[v].got
      /\ b.replay = IF build[v].on /\ ~build[v].place
                    THEN build[v].replay \cup Waiting(u.work) ELSE build[v].replay
    <2>1. Waiting(u.work) \subseteq Res
        BY DEF Waiting
    <2> QED BY <1>1, <2>1 DEF BuildState
<1>7. k \in SUBSET Res
    BY <1>1
<1>8. Put(v, a, i, NoUnit, b, k)
    BY DEF LiveWrite, Put
<1>9. Elsewhere
    BY HereFacts DEF LiveWrite
<1>10. \A r \in Res : w.pending[r] = vault[v].pending[r]
            \/ (w.pending[r] = 0 /\ u.work[r] # 0 /\ vault[v].pending[r] = u.work[r])
    <2>1. \A r \in Res : w.pending[r] = IF r \in done THEN 0 ELSE vault[v].pending[r]
        BY <1>1, <1>2, ClearFacts
    <2>2. \A r \in done : u.work[r] # 0 /\ vault[v].pending[r] = u.work[r]
        BY DEF Waiting
    <2> HIDE DEF w, done
    <2> QED BY <2>1, <2>2
<1>11. ShardOf[v] \in up /\ live[v].on
    BY DEF LiveWrite
<1> HIDE DEF a, i, b, k, w, seq, done
<1>12. /\ Works(v) /\ vault'[v] = a /\ index'[v] = i /\ live'[v] = NoUnit /\ build'[v] = b /\ carried'[v] = k
    BY <1>4, <1>5, <1>6, <1>7, <1>8, <1>9, Literals, OneVault
<1>13. carried'[v] = carried[v] \ live[v].got /\ ~live'[v].on
    BY <1>12 DEF k, NoUnit
<1>14. /\ vault'[v].owned = vault[v].owned /\ vault'[v].leaving = vault[v].leaving
       /\ vault'[v].checked = vault[v].checked /\ vault'[v].queued = vault[v].queued
       /\ vault'[v].why = vault[v].why /\ vault'[v].seen = vault[v].seen
       /\ vault'[v].pending = w.pending /\ vault'[v].applied = Larger(vault[v].applied, seq)
    BY <1>2, <1>4, <1>12
<1>15. \A r \in Res : \/ vault'[v].pending[r] = vault[v].pending[r]
                      \/ /\ vault'[v].pending[r] = 0 /\ live[v].work[r] # 0
                         /\ vault[v].pending[r] = live[v].work[r]
    BY <1>10, <1>14
<1>16. \E q \in Seq0 :
         /\ q = 0 \/ q <= vault[v].seen
         /\ \A r \in Res : vault'[v].pending[r] # 0 => q < vault'[v].pending[r]
         /\ vault'[v].applied = Larger(vault[v].applied, q)
         /\ index'[v].seq = IF q > vault[v].applied THEN q ELSE index[v].seq
    <2>1. seq \in Seq0 /\ (seq = 0 \/ seq <= vault[v].seen)
        BY <1>2, <1>3, Constants
    <2> QED BY <2>1, <1>2, <1>3, <1>5, <1>12, <1>14
<1> QED BY <1>5, <1>6, <1>11, <1>12, <1>13, <1>14, <1>15, <1>16

LEMMA LiveFailsFacts ==
    ASSUME TypeOK, NEW v \in Vault, LiveFails(v), Here
    PROVE  /\ Works(v) /\ ~live'[v].on
           /\ vault'[v] = vault[v] /\ index'[v] = index[v] /\ build'[v] = build[v] /\ carried'[v] = carried[v]
<1>1. Put(v, vault[v], index[v], NoUnit, build[v], carried[v])
    BY Untouched DEF LiveFails, Put
<1>2. Elsewhere
    BY HereFacts DEF LiveFails
<1> QED BY <1>1, <1>2, OneVault, StoreTypes, Untouched, Literals DEF NoUnit

LEMMA LiveGoneFacts ==
    ASSUME TypeOK, NEW v \in Vault, NEW due \in SUBSET Res, LiveGone(v, due), Here
    PROVE  /\ Works(v) /\ ~Alive(v)
           /\ index'[v] = index[v] /\ live'[v] = live[v] /\ build'[v] = build[v] /\ carried'[v] = carried[v]
           /\ vault'[v].owned = vault[v].owned /\ vault'[v].leaving = vault[v].leaving
           /\ vault'[v].checked = vault[v].checked /\ vault'[v].queued = vault[v].queued
           /\ vault'[v].why = vault[v].why /\ vault'[v].seen = vault[v].seen
           /\ vault'[v].applied = vault[v].applied
<1> DEFINE a == [vault[v] EXCEPT !.pending = Clear(@, due)]
<1>1. vault[v] \in VaultState /\ vault[v].pending \in [Res -> Seq0]
    BY StoreTypes DEF VaultState
<1>2. /\ a \in VaultState /\ a.owned = vault[v].owned /\ a.leaving = vault[v].leaving
      /\ a.checked = vault[v].checked /\ a.queued = vault[v].queued /\ a.why = vault[v].why
      /\ a.seen = vault[v].seen /\ a.applied = vault[v].applied
    BY <1>1, ClearFacts DEF VaultState
<1>3. Put(v, a, index[v], live[v], build[v], carried[v])
    BY Untouched DEF LiveGone, Put
<1>4. Elsewhere
    BY HereFacts DEF LiveGone
<1>5. ~Alive(v)
    BY DEF LiveGone, Alive
<1> HIDE DEF a
<1>6. /\ Works(v) /\ vault'[v] = a
      /\ index'[v] = index[v] /\ live'[v] = live[v] /\ build'[v] = build[v] /\ carried'[v] = carried[v]
    BY <1>2, <1>3, <1>4, OneVault, StoreTypes, Untouched
<1> QED BY <1>2, <1>5, <1>6

LEMMA BuildStartFacts ==
    ASSUME TypeOK, NEW v \in Vault, BuildStart(v), Here
    PROVE  /\ Works(v) /\ Working(v) /\ vault[v].why # "" /\ ~build[v].on
           /\ vault[v].checked \/ vault[v].why = "epoch"
           /\ live'[v] = live[v] /\ carried'[v] = carried[v]
           /\ vault'[v].owned = vault[v].owned /\ vault'[v].leaving = vault[v].leaving
           /\ vault'[v].checked = vault[v].checked /\ vault'[v].queued = vault[v].queued
           /\ vault'[v].why = vault[v].why /\ vault'[v].seen = vault[v].seen
           /\ vault'[v].applied = vault[v].applied
           /\ \A r \in Res : vault'[v].pending[r] \in {0, vault[v].pending[r]}
           /\ build'[v].on /\ build'[v].place = (vault[v].why \in InPlace)
           /\ build'[v].from = feedPos[ShardOf[v]] /\ build'[v].left = Res
           /\ vault[v].why \notin InPlace => index'[v] = index[v]
           /\ vault[v].why \in InPlace => index'[v] = [NoIndex EXCEPT !.there = TRUE, !.stale = index[v].stale]
<1> DEFINE from == feedPos[ShardOf[v]]
           place == vault[v].why \in InPlace
           S == {r \in Res : vault[v].pending[r] <= from}
           a == [vault[v] EXCEPT !.pending = Clear(@, S)]
           b == [NoBuild EXCEPT !.on = TRUE, !.place = place, !.from = from, !.left = Res]
           i == IF place THEN [NoIndex EXCEPT !.there = TRUE, !.stale = index[v].stale] ELSE index[v]
<1>1. /\ vault[v] \in VaultState /\ vault[v].pending \in [Res -> Seq0] /\ index[v] \in IndexState
      /\ from \in Seq0
    BY StoreTypes DEF VaultState, TypeOK, StoreType
<1>2. /\ a \in VaultState /\ a.owned = vault[v].owned /\ a.leaving = vault[v].leaving
      /\ a.checked = vault[v].checked /\ a.queued = vault[v].queued /\ a.why = vault[v].why
      /\ a.seen = vault[v].seen /\ a.applied = vault[v].applied
      /\ a.pending = Clear(vault[v].pending, S)
    <2> HIDE DEF S
    <2> QED BY <1>1, ClearFacts DEF VaultState
<1>3. /\ b \in BuildState /\ b.on /\ b.place = place /\ b.from = from /\ b.left = Res
    <2>1. place \in BOOLEAN /\ NoBuild \in BuildState
        BY Literals
    <2> HIDE DEF place, from
    <2> QED BY <1>1, <2>1 DEF BuildState
<1>4. i \in IndexState
    BY <1>1, Constants DEF IndexState, NoIndex
<1>5. Put(v, a, i, live[v], b, carried[v])
    <2>1. index' = [index EXCEPT ![v] = i]
        BY Untouched DEF BuildStart
    <2> QED BY <2>1, Untouched DEF BuildStart, Put
<1>6. Elsewhere
    BY HereFacts DEF BuildStart
<1>7. /\ Working(v) /\ vault[v].why # "" /\ ~build[v].on
      /\ vault[v].checked \/ vault[v].why = "epoch"
    BY DEF BuildStart
<1>8. \A r \in Res : a.pending[r] \in {0, vault[v].pending[r]}
    <2> HIDE DEF S, a
    <2> QED BY <1>1, <1>2, ClearFacts
<1>9. Works(v) /\ vault'[v] = a /\ index'[v] = i /\ live'[v] = live[v] /\ build'[v] = b /\ carried'[v] = carried[v]
    <2> HIDE DEF a, i, b
    <2> QED BY <1>2, <1>3, <1>4, <1>5, <1>6, OneVault, StoreTypes, Untouched
<1> HIDE DEF a, b
<1> QED BY <1>2, <1>3, <1>7, <1>8, <1>9

LEMMA BuildReadFacts ==
    ASSUME TypeOK, NEW v \in Vault, NEW r \in Res, BuildRead(v, r), Here
    PROVE  /\ Works(v) /\ Working(v) /\ r \in build[v].left /\ Alive(v)
           /\ index'[v] = index[v] /\ live'[v] = live[v] /\ carried'[v] = carried[v]
           /\ vault'[v].owned = vault[v].owned /\ vault'[v].leaving = vault[v].leaving
           /\ vault'[v].checked = vault[v].checked /\ vault'[v].queued = vault[v].queued
           /\ vault'[v].why = vault[v].why /\ vault'[v].seen = vault[v].seen
           /\ vault'[v].applied = vault[v].applied
           /\ ~build[v].place => vault'[v] = vault[v]
           /\ vault'[v].pending[r] \in {0, vault[v].pending[r]}
           /\ \A q \in Res \ {r} : vault'[v].pending[q] = vault[v].pending[q]
           /\ build'[v].on = build[v].on /\ build'[v].place = build[v].place
           /\ build'[v].from = build[v].from /\ build'[v].replay = build[v].replay
           /\ build'[v].left = build[v].left \ {r} /\ build'[v].got = build[v].got \cup {r}
<1> DEFINE a == IF build[v].place THEN [vault[v] EXCEPT !.pending = [vault[v].pending EXCEPT ![r] = 0]]
                ELSE vault[v]
           b == [build[v] EXCEPT !.left = build[v].left \ {r}, !.got = build[v].got \cup {r}]
<1>1. /\ vault[v] \in VaultState /\ vault[v].pending \in [Res -> Seq0] /\ build[v] \in BuildState
    BY StoreTypes DEF VaultState
<1>2. /\ a \in VaultState /\ a.owned = vault[v].owned /\ a.leaving = vault[v].leaving
      /\ a.checked = vault[v].checked /\ a.queued = vault[v].queued /\ a.why = vault[v].why
      /\ a.seen = vault[v].seen /\ a.applied = vault[v].applied
      /\ a.pending[r] \in {0, vault[v].pending[r]}
      /\ \A q \in Res \ {r} : a.pending[q] = vault[v].pending[q]
    <2>1. [vault[v].pending EXCEPT ![r] = 0] \in [Res -> Seq0]
        BY <1>1, Constants
    <2> QED BY <1>1, <2>1 DEF VaultState
<1>3. /\ b \in BuildState /\ b.on = build[v].on /\ b.place = build[v].place
      /\ b.from = build[v].from /\ b.replay = build[v].replay
      /\ b.left = build[v].left \ {r} /\ b.got = build[v].got \cup {r}
    BY <1>1 DEF BuildState
<1>4. Put(v, a, index[v], live[v], b, carried[v])
    <2>1. vault' = [vault EXCEPT ![v] = a]
        BY Untouched DEF BuildRead
    <2>2. build' = [build EXCEPT ![v] = b]
        BY DEF BuildRead
    <2> QED BY <2>1, <2>2, Untouched DEF BuildRead, Put
<1>5. Elsewhere
    BY HereFacts DEF BuildRead
<1>6. Working(v) /\ r \in build[v].left /\ Alive(v)
    BY DEF BuildRead, Alive
<1>7. Works(v) /\ vault'[v] = a /\ index'[v] = index[v] /\ live'[v] = live[v] /\ build'[v] = b /\ carried'[v] = carried[v]
    <2> HIDE DEF a, b
    <2> QED BY <1>2, <1>3, <1>4, <1>5, OneVault, StoreTypes, Untouched
<1>8. ~build[v].place => vault'[v] = vault[v]
    BY <1>7
<1> HIDE DEF a, b
<1> QED BY <1>2, <1>3, <1>6, <1>7, <1>8

LEMMA BuildEndFacts ==
    ASSUME TypeOK, NEW v \in Vault, BuildEnd(v), Here
    PROVE  /\ Works(v) /\ Working(v) /\ build[v].on /\ build[v].left = {} /\ ~live[v].on
           /\ live'[v] = live[v] /\ carried'[v] = Waiting(vault[v].pending) /\ build'[v] = NoBuild
           /\ vault'[v].owned = vault[v].owned /\ vault'[v].leaving = vault[v].leaving
           /\ vault'[v].queued = vault[v].queued /\ vault'[v].pending = vault[v].pending
           /\ vault'[v].seen = vault[v].seen /\ vault'[v].checked /\ vault'[v].why = ""
           /\ index'[v].there /\ index'[v].built /\ ~index'[v].stale
           /\ index'[v].epoch = know[ShardOf[v]]
           /\ index'[v].fresh = build[v].got \cup build[v].replay
           /\ vault'[v].applied = index'[v].seq
           /\ index'[v].seq <= build[v].from \/ index'[v].seq <= vault[v].seen
           /\ \A r \in Waiting(vault[v].pending) :
                build[v].from < vault[v].pending[r] => index'[v].seq < vault[v].pending[r]
<1> DEFINE q == LowWaterOf(vault[v], build[v].from)
           a == [vault[v] EXCEPT !.why = "", !.checked = TRUE, !.applied = q]
           i == [there |-> TRUE, built |-> TRUE, epoch |-> know[ShardOf[v]], seq |-> q,
                 fresh |-> build[v].got \cup build[v].replay, stale |-> FALSE]
           k == Waiting(vault[v].pending)
<1>1. /\ vault[v] \in VaultState /\ build[v] \in BuildState
      /\ know[ShardOf[v]] \in Epoch \cup {NoEpoch} /\ build[v].from \in Seq0
    BY StoreTypes DEF BuildState, TypeOK, StoreType
<1>2. /\ q \in Seq0 /\ (q <= build[v].from \/ q <= vault[v].seen)
      /\ \A r \in Waiting(vault[v].pending) : build[v].from < vault[v].pending[r] => q < vault[v].pending[r]
    BY <1>1, WaterType
<1>3. /\ a \in VaultState /\ a.owned = vault[v].owned /\ a.leaving = vault[v].leaving
      /\ a.queued = vault[v].queued /\ a.pending = vault[v].pending /\ a.seen = vault[v].seen
      /\ a.checked /\ a.why = "" /\ a.applied = q
    <2> HIDE DEF q
    <2> QED BY <1>1, <1>2 DEF VaultState
<1>4. i \in IndexState
    <2> HIDE DEF q
    <2> QED BY <1>1, <1>2 DEF IndexState, BuildState
<1>5. k \in SUBSET Res
    BY DEF Waiting
<1>6. Put(v, a, i, live[v], NoBuild, k)
    <2>1. vault' = [vault EXCEPT ![v] = a]
        BY DEF BuildEnd
    <2>2. index' = [index EXCEPT ![v] = i]
        BY DEF BuildEnd
    <2> QED BY <2>1, <2>2, Untouched DEF BuildEnd, Put
<1>7. Elsewhere
    BY HereFacts DEF BuildEnd
<1>8. Working(v) /\ build[v].on /\ build[v].left = {} /\ ~live[v].on
    BY DEF BuildEnd
<1>9. Works(v) /\ vault'[v] = a /\ index'[v] = i /\ live'[v] = live[v] /\ build'[v] = NoBuild /\ carried'[v] = k
    <2>1. a \in VaultState /\ live[v] \in UnitState /\ NoBuild \in BuildState
        BY <1>3, StoreTypes, Literals
    <2> HIDE DEF a, i, k
    <2> QED BY <1>4, <1>5, <1>6, <1>7, <2>1, OneVault
<1> HIDE DEF a, q
<1>11. /\ index'[v].there /\ index'[v].built /\ ~index'[v].stale
       /\ index'[v].epoch = know[ShardOf[v]]
       /\ index'[v].fresh = build[v].got \cup build[v].replay
       /\ index'[v].seq = q /\ carried'[v] = Waiting(vault[v].pending)
    BY <1>9
<1> HIDE DEF i
<1>12. /\ vault'[v].owned = vault[v].owned /\ vault'[v].leaving = vault[v].leaving
       /\ vault'[v].queued = vault[v].queued /\ vault'[v].pending = vault[v].pending
       /\ vault'[v].seen = vault[v].seen /\ vault'[v].checked /\ vault'[v].why = ""
       /\ vault'[v].applied = index'[v].seq
    BY <1>3, <1>9, <1>11
<1> QED BY <1>2, <1>8, <1>9, <1>11, <1>12

LEMMA BuildFailsFacts ==
    ASSUME TypeOK, NEW v \in Vault, BuildFails(v), Here
    PROVE  /\ Works(v) /\ build'[v] = NoBuild
           /\ vault'[v] = vault[v] /\ index'[v] = index[v] /\ live'[v] = live[v] /\ carried'[v] = carried[v]
<1>1. Put(v, vault[v], index[v], live[v], NoBuild, carried[v])
    BY Untouched DEF BuildFails, Put
<1>2. Elsewhere
    BY HereFacts DEF BuildFails
<1> QED BY <1>1, <1>2, OneVault, StoreTypes, Untouched, Literals

LEMMA OrphanEndFacts ==
    ASSUME TypeOK, NEW v \in Vault, OrphanEnd(v), Here
    PROVE  /\ Works(v) /\ vault[v].leaving /\ ~live[v].on
           /\ live'[v] = live[v] /\ build'[v] = build[v] /\ carried'[v] = carried[v]
           /\ vault'[v].owned = vault[v].owned /\ ~vault'[v].leaving /\ ~vault'[v].checked
           /\ vault'[v].queued = vault[v].queued /\ vault'[v].why = ""
           /\ vault'[v].pending = vault[v].pending /\ vault'[v].seen = vault[v].seen
           /\ vault'[v].applied = vault[v].applied
           /\ index'[v].there = index[v].there /\ index'[v].built = index[v].built
           /\ index'[v].epoch = index[v].epoch /\ index'[v].seq = index[v].seq
           /\ index'[v].fresh = index[v].fresh /\ index'[v].stale = (index[v].stale \/ index[v].there)
<1> DEFINE a == [vault[v] EXCEPT !.leaving = FALSE, !.checked = FALSE, !.why = ""]
           i == [index[v] EXCEPT !.stale = index[v].stale \/ index[v].there]
<1>1. vault[v] \in VaultState /\ index[v] \in IndexState
    BY StoreTypes
<1>2. /\ a \in VaultState /\ a.owned = vault[v].owned /\ ~a.leaving /\ ~a.checked
      /\ a.queued = vault[v].queued /\ a.why = "" /\ a.pending = vault[v].pending
      /\ a.seen = vault[v].seen /\ a.applied = vault[v].applied
    BY <1>1 DEF VaultState
<1>3. /\ i \in IndexState /\ i.there = index[v].there /\ i.built = index[v].built
      /\ i.epoch = index[v].epoch /\ i.seq = index[v].seq
      /\ i.fresh = index[v].fresh /\ i.stale = (index[v].stale \/ index[v].there)
    BY <1>1 DEF IndexState
<1>4. Put(v, a, i, live[v], build[v], carried[v])
    <2>1. vault' = [vault EXCEPT ![v] = a]
        BY DEF OrphanEnd
    <2>2. index' = [index EXCEPT ![v] = i]
        BY DEF OrphanEnd
    <2> QED BY <2>1, <2>2, Untouched DEF OrphanEnd, Put
<1>5. Elsewhere
    BY HereFacts DEF OrphanEnd
<1>6. vault[v].leaving /\ ~live[v].on
    BY DEF OrphanEnd
<1>7. Works(v) /\ vault'[v] = a /\ index'[v] = i /\ live'[v] = live[v] /\ build'[v] = build[v] /\ carried'[v] = carried[v]
    <2>1. a \in VaultState /\ i \in IndexState
        BY <1>2, <1>3
    <2> HIDE DEF a, i
    <2> QED BY <2>1, <1>4, <1>5, OneVault, StoreTypes, Untouched
<1> HIDE DEF a, i
<1> QED BY <1>2, <1>3, <1>6, <1>7

LEMMA SweepFacts ==
    ASSUME TypeOK, NEW v \in Vault, Sweep(v), Here
    PROVE  /\ Works(v) /\ ~vault[v].owned
           /\ vault'[v] = NewVault /\ index'[v] = NoIndex
           /\ live'[v] = live[v] /\ build'[v] = build[v] /\ carried'[v] = carried[v]
<1>1. Put(v, NewVault, NoIndex, live[v], build[v], carried[v])
    BY Untouched DEF Sweep, Put
<1>2. Elsewhere
    BY HereFacts DEF Sweep
<1>3. ~vault[v].owned
    BY DEF Sweep
<1> QED BY <1>1, <1>2, <1>3, OneVault, StoreTypes, Untouched, Literals
-----------------------------------------------------------------------------
(* What the messages of the main thread change.                             *)

LEMMA AdoptedFacts ==
    ASSUME TypeOK, NEW v \in Vault, NEW w \in VaultState
    PROVE  /\ Adopted(v, w) \in VaultState /\ Adopted(v, w).owned
           /\ Adopted(v, w).leaving = w.leaving /\ Adopted(v, w).pending = w.pending
           /\ Adopted(v, w).seen = w.seen /\ Adopted(v, w).applied = w.applied
           /\ w.owned \/ w.checked =>
                /\ Adopted(v, w).queued = w.queued /\ Adopted(v, w).checked = w.checked
                /\ Adopted(v, w).why = w.why
           /\ ~w.owned /\ ~w.checked =>
                /\ Adopted(v, w).queued = index[v].there
                /\ Adopted(v, w).checked = ~index[v].there
                /\ Adopted(v, w).why = IF ~index[v].there THEN "missing"
                                       ELSE IF index[v].stale THEN "stale" ELSE ""
<1>1. index[v].there \in BOOLEAN
    BY StoreTypes DEF IndexState
<1>2. CASE w.owned \/ w.checked
    <2>1. Adopted(v, w) = [w EXCEPT !.owned = TRUE]
        BY <1>2 DEF Adopted
    <2> QED BY <1>2, <2>1 DEF VaultState
<1>3. CASE ~(w.owned \/ w.checked)
    <2> DEFINE y == IF ~index[v].there THEN "missing" ELSE IF index[v].stale THEN "stale" ELSE ""
    <2>1. Adopted(v, w) = [w EXCEPT !.owned = TRUE, !.queued = index[v].there,
                                    !.checked = ~index[v].there, !.why = y]
        BY <1>3 DEF Adopted
    <2>2. y \in InPlace \cup Beside \cup {""}
        BY DEF InPlace, Beside
    <2> HIDE DEF y
    <2>3. /\ Adopted(v, w) \in VaultState /\ Adopted(v, w).owned
          /\ Adopted(v, w).leaving = w.leaving /\ Adopted(v, w).pending = w.pending
          /\ Adopted(v, w).seen = w.seen /\ Adopted(v, w).applied = w.applied
          /\ Adopted(v, w).queued = index[v].there
          /\ Adopted(v, w).checked = ~index[v].there /\ Adopted(v, w).why = y
        BY <1>1, <2>1, <2>2 DEF VaultState
    <2> QED BY <1>3, <2>3 DEF y
<1> QED BY <1>2, <1>3

LEMMA AfterOwnFacts ==
    ASSUME TypeOK, NEW known \in [Vault -> VaultState], NEW S, NEW ids
    PROVE  /\ AfterOwn(S, known, ids) \in [Vault -> VaultState]
           /\ \A v \in Vault :
                /\ v \in Orphans(S, known, ids) <=>
                     /\ v \notin ids /\ ShardOf[v] \in S
                     /\ known[v].owned \/ (index[v].there /\ ~index[v].stale)
                /\ v \in Orphans(S, known, ids) =>
                     /\ ~AfterOwn(S, known, ids)[v].owned /\ AfterOwn(S, known, ids)[v].leaving
                     /\ ~AfterOwn(S, known, ids)[v].queued
                     /\ AfterOwn(S, known, ids)[v].pending = NoPending
                     /\ AfterOwn(S, known, ids)[v].checked = known[v].checked
                     /\ AfterOwn(S, known, ids)[v].why = known[v].why
                     /\ AfterOwn(S, known, ids)[v].seen = known[v].seen
                     /\ AfterOwn(S, known, ids)[v].applied = known[v].applied
                /\ ShardOf[v] \in S /\ v \in ids => AfterOwn(S, known, ids)[v] = Adopted(v, known[v])
                /\ v \notin Orphans(S, known, ids) /\ ~(ShardOf[v] \in S /\ v \in ids) =>
                     AfterOwn(S, known, ids)[v] = known[v]
<1> DEFINE O == Orphans(S, known, ids)
           f(v) == IF v \in O
                   THEN [known[v] EXCEPT !.owned = FALSE, !.leaving = TRUE, !.queued = FALSE, !.pending = NoPending]
                   ELSE IF ShardOf[v] \in S /\ v \in ids THEN Adopted(v, known[v]) ELSE known[v]
<1>1. AfterOwn(S, known, ids) = [v \in Vault |-> f(v)]
    BY DEF AfterOwn
<1>2. \A v \in Vault : v \in O <=> /\ v \notin ids /\ ShardOf[v] \in S
                                   /\ known[v].owned \/ (index[v].there /\ ~index[v].stale)
    BY DEF Orphans
<1>3. ASSUME NEW v \in Vault
      PROVE  /\ f(v) \in VaultState
             /\ v \in O => /\ ~f(v).owned /\ f(v).leaving /\ ~f(v).queued /\ f(v).pending = NoPending
                           /\ f(v).checked = known[v].checked /\ f(v).why = known[v].why
                           /\ f(v).seen = known[v].seen /\ f(v).applied = known[v].applied
             /\ ShardOf[v] \in S /\ v \in ids => f(v) = Adopted(v, known[v])
             /\ v \notin O /\ ~(ShardOf[v] \in S /\ v \in ids) => f(v) = known[v]
    <2>1. known[v] \in VaultState /\ Adopted(v, known[v]) \in VaultState /\ NoPending \in [Res -> Seq0]
        BY AdoptedFacts, Literals
    <2>2. CASE v \in O
        <3>1. f(v) = [known[v] EXCEPT !.owned = FALSE, !.leaving = TRUE, !.queued = FALSE, !.pending = NoPending]
            BY <2>2
        <3>2. v \notin ids
            BY <2>2, <1>2
        <3> HIDE DEF f, O
        <3> QED BY <3>1, <3>2, <2>1, <2>2 DEF VaultState
    <2>3. CASE v \notin O
        BY <2>1, <2>3
    <2> QED BY <2>2, <2>3
<1>4. \A v \in Vault : AfterOwn(S, known, ids)[v] = f(v)
    BY <1>1
<1>5. AfterOwn(S, known, ids) \in [Vault -> VaultState]
    <2>1. \A v \in Vault : f(v) \in VaultState
        BY <1>3
    <2> HIDE DEF f
    <2> QED BY <1>1, <2>1
<1> HIDE DEF f, O
<1>6. \A v \in Vault :
        /\ v \in O =>
             /\ ~AfterOwn(S, known, ids)[v].owned /\ AfterOwn(S, known, ids)[v].leaving
             /\ ~AfterOwn(S, known, ids)[v].queued
             /\ AfterOwn(S, known, ids)[v].pending = NoPending
             /\ AfterOwn(S, known, ids)[v].checked = known[v].checked
             /\ AfterOwn(S, known, ids)[v].why = known[v].why
             /\ AfterOwn(S, known, ids)[v].seen = known[v].seen
             /\ AfterOwn(S, known, ids)[v].applied = known[v].applied
        /\ ShardOf[v] \in S /\ v \in ids => AfterOwn(S, known, ids)[v] = Adopted(v, known[v])
        /\ v \notin O /\ ~(ShardOf[v] \in S /\ v \in ids) => AfterOwn(S, known, ids)[v] = known[v]
    BY <1>3, <1>4
<1> QED BY <1>2, <1>5, <1>6 DEF O

LEMMA AfterEpochFacts ==
    ASSUME TypeOK, NEW S
    PROVE  /\ AfterEpoch(S) \in [Vault -> VaultState]
           /\ \A v \in Vault :
                /\ ShardOf[v] \notin S => AfterEpoch(S)[v] = vault[v]
                /\ ShardOf[v] \in S =>
                     /\ AfterEpoch(S)[v].applied = 0 /\ AfterEpoch(S)[v].seen = 0
                     /\ AfterEpoch(S)[v].pending = NoPending
                     /\ AfterEpoch(S)[v].owned = vault[v].owned
                     /\ AfterEpoch(S)[v].leaving = vault[v].leaving
                     /\ AfterEpoch(S)[v].queued = vault[v].queued
                     /\ AfterEpoch(S)[v].checked = vault[v].checked
                     /\ AfterEpoch(S)[v].why = IF vault[v].owned /\ vault[v].why = "" THEN "epoch" ELSE vault[v].why
<1> DEFINE y(v) == IF vault[v].owned /\ vault[v].why = "" THEN "epoch" ELSE vault[v].why
           f(v) == IF ShardOf[v] \notin S THEN vault[v]
                   ELSE [vault[v] EXCEPT !.applied = 0, !.seen = 0, !.pending = NoPending, !.why = y(v)]
<1>1. AfterEpoch(S) = [v \in Vault |-> f(v)]
    BY DEF AfterEpoch
<1>2. ASSUME NEW v \in Vault
      PROVE  /\ f(v) \in VaultState
             /\ ShardOf[v] \notin S => f(v) = vault[v]
             /\ ShardOf[v] \in S =>
                  /\ f(v).applied = 0 /\ f(v).seen = 0 /\ f(v).pending = NoPending
                  /\ f(v).owned = vault[v].owned /\ f(v).leaving = vault[v].leaving
                  /\ f(v).queued = vault[v].queued /\ f(v).checked = vault[v].checked /\ f(v).why = y(v)
    <2>1. vault[v] \in VaultState /\ NoPending \in [Res -> Seq0] /\ 0 \in Seq0
        BY StoreTypes, Literals, Constants
    <2>2. y(v) \in InPlace \cup Beside \cup {""}
        BY <2>1 DEF VaultState, Beside
    <2> HIDE DEF y
    <2> QED BY <2>1, <2>2 DEF VaultState
<1>3. \A v \in Vault : AfterEpoch(S)[v] = f(v)
    BY <1>1
<1>4. AfterEpoch(S) \in [Vault -> VaultState]
    <2>1. \A v \in Vault : f(v) \in VaultState
        BY <1>2
    <2> HIDE DEF f
    <2> QED BY <1>1, <2>1
<1>5. ASSUME NEW v \in Vault
      PROVE  /\ ShardOf[v] \notin S => AfterEpoch(S)[v] = vault[v]
             /\ ShardOf[v] \in S =>
                  /\ AfterEpoch(S)[v].applied = 0 /\ AfterEpoch(S)[v].seen = 0
                  /\ AfterEpoch(S)[v].pending = NoPending
                  /\ AfterEpoch(S)[v].owned = vault[v].owned
                  /\ AfterEpoch(S)[v].leaving = vault[v].leaving
                  /\ AfterEpoch(S)[v].queued = vault[v].queued
                  /\ AfterEpoch(S)[v].checked = vault[v].checked
                  /\ AfterEpoch(S)[v].why = y(v)
    <2>1. AfterEpoch(S)[v] = f(v)
        BY <1>3
    <2> HIDE DEF f, y
    <2> QED BY <2>1, <1>2
<1> QED BY <1>4, <1>5

Dead(S, batch) == {v \in Vault : ShardOf[v] \in S /\ \E c \in batch : c.v = v /\ c.r = Gone}
ChangesOf(v, batch) == {c \in batch : c.v = v /\ c.r # Gone}

\* What a batch of changes makes of a vault whose state was k.
Changed(v, k, S, orphans, batch) ==
    /\ v \in Dead(S, batch) =>
         vault'[v] = NewVault /\ index'[v] = NoIndex /\ live'[v] = NoUnit /\ build'[v] = NoBuild
    /\ v \notin Dead(S, batch) =>
         /\ index'[v] = index[v] /\ live'[v] = live[v]
         /\ build'[v] = IF v \in orphans THEN NoBuild ELSE build[v]
         /\ ChangesOf(v, batch) = {} \/ ShardOf[v] \notin S => vault'[v] = k
         /\ ChangesOf(v, batch) # {} /\ ShardOf[v] \in S =>
              /\ vault'[v].owned
              /\ vault'[v].leaving = Adopted(v, k).leaving
              /\ vault'[v].queued = Adopted(v, k).queued
              /\ vault'[v].checked = Adopted(v, k).checked
              /\ vault'[v].why = Adopted(v, k).why
              /\ vault'[v].applied = Adopted(v, k).applied
              /\ vault'[v].seen >= k.seen
              /\ \A c \in ChangesOf(v, batch) : vault'[v].seen >= c.seq
              /\ vault'[v].seen = k.seen \/ \E c \in ChangesOf(v, batch) : vault'[v].seen = c.seq
              /\ \A r \in Res :
                   /\ vault'[v].pending[r] >= k.pending[r]
                   /\ \A c \in ChangesOf(v, batch) : c.r = r => vault'[v].pending[r] >= c.seq
                   /\ \/ vault'[v].pending[r] = k.pending[r]
                      \/ \E c \in ChangesOf(v, batch) : c.r = r /\ vault'[v].pending[r] = c.seq

LEMMA ChangesFacts ==
    ASSUME TypeOK, NEW known \in [Vault -> VaultState], NEW S, NEW orphans,
           NEW batch, batch \subseteq Change, NEW upTo \in Seq0,
           Changes(S, known, orphans, batch, upTo)
    PROVE  /\ vault' \in [Vault -> VaultState] /\ index' \in [Vault -> IndexState]
           /\ live' \in [Vault -> UnitState] /\ build' \in [Vault -> BuildState]
           /\ feedPos' \in [Shard -> Seq0]
           /\ \A s \in Shard : feedPos'[s] = IF s \in S THEN Larger(feedPos[s], upTo) ELSE feedPos[s]
           /\ \A v \in Vault : Changed(v, known[v], S, orphans, batch)
<1> DEFINE dead == Dead(S, batch)
           last(v, r) == Max({c.seq : c \in {x \in ChangesOf(v, batch) : x.r = r}} \cup {known[v].pending[r]})
           seen(v) == Max({c.seq : c \in ChangesOf(v, batch)} \cup {known[v].seen})
           g(v) == [Adopted(v, known[v]) EXCEPT !.pending = [r \in Res |-> last(v, r)], !.seen = seen(v)]
           f(v) == IF v \in dead THEN NewVault
                   ELSE IF ChangesOf(v, batch) = {} \/ ShardOf[v] \notin S THEN known[v] ELSE g(v)
<1>1. \A v \in Vault : known[v] \in VaultState /\ Adopted(v, known[v]) \in VaultState
    BY AdoptedFacts
<1>2. ASSUME NEW v \in Vault, NEW r \in Res
      PROVE  /\ last(v, r) \in Seq0 /\ last(v, r) >= known[v].pending[r]
             /\ \A c \in ChangesOf(v, batch) : c.r = r => last(v, r) >= c.seq
             /\ \/ last(v, r) = known[v].pending[r]
                \/ \E c \in ChangesOf(v, batch) : c.r = r /\ last(v, r) = c.seq
    <2> DEFINE T == {c.seq : c \in {x \in ChangesOf(v, batch) : x.r = r}} \cup {known[v].pending[r]}
    <2>1. known[v].pending[r] \in Seq0
        BY <1>1 DEF VaultState
    <2>2. \A c \in ChangesOf(v, batch) : c.seq \in Seq0 /\ (c.r = r => c.seq \in T)
        BY DEF ChangesOf, Change, Seq0
    <2>3. T \subseteq 0..MaxSeq /\ T # {}
        BY <2>1, <2>2 DEF Seq0
    <2>4. \A x \in T : x = known[v].pending[r] \/ \E c \in ChangesOf(v, batch) : c.r = r /\ x = c.seq
        OBVIOUS
    <2>5. known[v].pending[r] \in T /\ last(v, r) = Max(T)
        OBVIOUS
    <2> HIDE DEF T, last
    <2>6. Max(T) \in T /\ \A x \in T : x <= Max(T)
        BY <2>3, MaxFacts, FeedBounds
    <2>7. Max(T) \in Seq0
        BY <2>3, <2>6 DEF Seq0
    <2> QED BY <2>1, <2>2, <2>4, <2>5, <2>6, <2>7, Constants
<1>3. ASSUME NEW v \in Vault
      PROVE  /\ seen(v) \in Seq0 /\ seen(v) >= known[v].seen
             /\ \A c \in ChangesOf(v, batch) : seen(v) >= c.seq
             /\ seen(v) = known[v].seen \/ \E c \in ChangesOf(v, batch) : seen(v) = c.seq
    <2> DEFINE T == {c.seq : c \in ChangesOf(v, batch)} \cup {known[v].seen}
    <2>1. known[v].seen \in Seq0
        BY <1>1 DEF VaultState
    <2>2. \A c \in ChangesOf(v, batch) : c.seq \in Seq0 /\ c.seq \in T
        BY DEF ChangesOf, Change, Seq0
    <2>3. T \subseteq 0..MaxSeq /\ T # {}
        BY <2>1, <2>2 DEF Seq0
    <2>4. \A x \in T : x = known[v].seen \/ \E c \in ChangesOf(v, batch) : x = c.seq
        OBVIOUS
    <2>5. known[v].seen \in T /\ seen(v) = Max(T)
        OBVIOUS
    <2> HIDE DEF T, seen
    <2>6. Max(T) \in T /\ \A x \in T : x <= Max(T)
        BY <2>3, MaxFacts, FeedBounds
    <2>7. Max(T) \in Seq0
        BY <2>3, <2>6 DEF Seq0
    <2> QED BY <2>1, <2>2, <2>4, <2>5, <2>6, <2>7, Constants
<1>4. ASSUME NEW v \in Vault
      PROVE  /\ g(v) \in VaultState /\ g(v).owned
             /\ g(v).leaving = Adopted(v, known[v]).leaving /\ g(v).queued = Adopted(v, known[v]).queued
             /\ g(v).checked = Adopted(v, known[v]).checked /\ g(v).why = Adopted(v, known[v]).why
             /\ g(v).applied = Adopted(v, known[v]).applied
             /\ g(v).seen = seen(v) /\ \A r \in Res : g(v).pending[r] = last(v, r)
    <2>1. [r \in Res |-> last(v, r)] \in [Res -> Seq0] /\ seen(v) \in Seq0
        BY <1>2, <1>3
    <2>2. Adopted(v, known[v]) \in VaultState /\ Adopted(v, known[v]).owned
        BY <1>1, AdoptedFacts
    <2>3. \A r \in Res : [q \in Res |-> last(v, q)][r] = last(v, r)
        OBVIOUS
    <2> HIDE DEF last, seen
    <2> QED BY <2>1, <2>2, <2>3 DEF VaultState
<1>5. /\ vault' = [v \in Vault |-> f(v)]
      /\ index' = [v \in Vault |-> IF v \in dead THEN NoIndex ELSE index[v]]
      /\ live' = [v \in Vault |-> IF v \in dead THEN NoUnit ELSE live[v]]
      /\ build' = [v \in Vault |-> IF v \in orphans \cup dead THEN NoBuild ELSE build[v]]
      /\ feedPos' = [s \in Shard |-> IF s \in S THEN Larger(feedPos[s], upTo) ELSE feedPos[s]]
    <2> DEFINE told == {v \in Vault : ShardOf[v] \in S}
               dd == told \cap {c.v : c \in {x \in batch : x.r = Gone}}
    <2>1. dd = dead
        BY DEF Dead
    <2>2. \A v \in Vault : v \notin told <=> ShardOf[v] \notin S
        OBVIOUS
    <2>3. vault' = [v \in Vault |-> IF v \in dd THEN NewVault
                                    ELSE IF ChangesOf(v, batch) = {} \/ v \notin told THEN known[v] ELSE g(v)]
        BY DEF Changes, ChangesOf
    <2>4. /\ index' = [v \in Vault |-> IF v \in dd THEN NoIndex ELSE index[v]]
          /\ live' = [v \in Vault |-> IF v \in dd THEN NoUnit ELSE live[v]]
          /\ build' = [v \in Vault |-> IF v \in orphans \cup dd THEN NoBuild ELSE build[v]]
          /\ feedPos' = [s \in Shard |-> IF s \in S THEN Larger(feedPos[s], upTo) ELSE feedPos[s]]
        BY DEF Changes, StopBuilds
    <2>5. vault' = [v \in Vault |-> f(v)]
        <3> HIDE DEF g, dd, dead
        <3> QED BY <2>1, <2>2, <2>3
    <2> HIDE DEF dd, dead
    <2> QED BY <2>1, <2>4, <2>5
<1>6. \A v \in Vault : vault'[v] = f(v) /\ f(v) \in VaultState
    <2>1. \A v \in Vault : vault'[v] = f(v)
        BY <1>5
    <2>2. \A v \in Vault : f(v) \in VaultState
        <3> HIDE DEF g
        <3> QED BY <1>1, <1>4, Literals
    <2> QED BY <2>1, <2>2
<1>7. /\ vault' \in [Vault -> VaultState] /\ index' \in [Vault -> IndexState]
      /\ live' \in [Vault -> UnitState] /\ build' \in [Vault -> BuildState]
      /\ feedPos' \in [Shard -> Seq0]
    <2>1. vault' \in [Vault -> VaultState]
        <3> HIDE DEF f
        <3> QED BY <1>5, <1>6
    <2>2. \A v \in Vault : index[v] \in IndexState /\ live[v] \in UnitState /\ build[v] \in BuildState
        BY StoreTypes
    <2>3. \A s \in Shard : Larger(feedPos[s], upTo) \in Seq0 /\ feedPos[s] \in Seq0
        BY DEF TypeOK, StoreType, Larger
    <2>4. index' \in [Vault -> IndexState] /\ live' \in [Vault -> UnitState] /\ build' \in [Vault -> BuildState]
        BY <1>5, <2>2, Literals
    <2>5. feedPos' \in [Shard -> Seq0]
        BY <1>5, <2>3
    <2> QED BY <2>1, <2>4, <2>5
<1>8. \A s \in Shard : feedPos'[s] = IF s \in S THEN Larger(feedPos[s], upTo) ELSE feedPos[s]
    BY <1>5
<1>9. \A v \in dead : vault'[v] = NewVault /\ index'[v] = NoIndex /\ live'[v] = NoUnit /\ build'[v] = NoBuild
    <2>1. dead \subseteq Vault
        BY DEF Dead
    <2> HIDE DEF dead, g
    <2> QED BY <1>5, <1>6, <2>1
<1>10. ASSUME NEW v \in Vault \ dead
       PROVE  /\ index'[v] = index[v] /\ live'[v] = live[v]
              /\ build'[v] = IF v \in orphans THEN NoBuild ELSE build[v]
              /\ ChangesOf(v, batch) = {} \/ ShardOf[v] \notin S => vault'[v] = known[v]
              /\ ChangesOf(v, batch) # {} /\ ShardOf[v] \in S => vault'[v] = g(v)
    <2> HIDE DEF dead, g
    <2> QED BY <1>5, <1>6
<1>11. ASSUME NEW v \in Vault \ dead, ChangesOf(v, batch) # {}, ShardOf[v] \in S
       PROVE  /\ vault'[v].owned
              /\ vault'[v].leaving = Adopted(v, known[v]).leaving
              /\ vault'[v].queued = Adopted(v, known[v]).queued
              /\ vault'[v].checked = Adopted(v, known[v]).checked
              /\ vault'[v].why = Adopted(v, known[v]).why
              /\ vault'[v].applied = Adopted(v, known[v]).applied
              /\ vault'[v].seen >= known[v].seen
              /\ \A c \in ChangesOf(v, batch) : vault'[v].seen >= c.seq
              /\ vault'[v].seen = known[v].seen \/ \E c \in ChangesOf(v, batch) : vault'[v].seen = c.seq
              /\ \A r \in Res :
                   /\ vault'[v].pending[r] >= known[v].pending[r]
                   /\ \A c \in ChangesOf(v, batch) : c.r = r => vault'[v].pending[r] >= c.seq
                   /\ \/ vault'[v].pending[r] = known[v].pending[r]
                      \/ \E c \in ChangesOf(v, batch) : c.r = r /\ vault'[v].pending[r] = c.seq
    <2>1. vault'[v] = g(v)
        BY <1>10, <1>11
    <2> HIDE DEF g, dead, last, seen
    <2>2. /\ vault'[v].owned
          /\ vault'[v].leaving = Adopted(v, known[v]).leaving
          /\ vault'[v].queued = Adopted(v, known[v]).queued
          /\ vault'[v].checked = Adopted(v, known[v]).checked
          /\ vault'[v].why = Adopted(v, known[v]).why
          /\ vault'[v].applied = Adopted(v, known[v]).applied
          /\ vault'[v].seen = seen(v) /\ \A r \in Res : vault'[v].pending[r] = last(v, r)
        BY <2>1, <1>4
    <2>3. \A r \in Res :
            /\ vault'[v].pending[r] >= known[v].pending[r]
            /\ \A c \in ChangesOf(v, batch) : c.r = r => vault'[v].pending[r] >= c.seq
            /\ \/ vault'[v].pending[r] = known[v].pending[r]
               \/ \E c \in ChangesOf(v, batch) : c.r = r /\ vault'[v].pending[r] = c.seq
        BY <2>2, <1>2
    <2> QED BY <2>2, <2>3, <1>3
<1> HIDE DEF g, dead
<1>12. ASSUME NEW v \in Vault
       PROVE  Changed(v, known[v], S, orphans, batch)
    <2>1. CASE v \in Dead(S, batch)
        BY <1>9, <2>1 DEF Changed, dead
    <2>2. CASE v \notin Dead(S, batch)
        <3>1. v \in Vault \ dead
            BY <2>2 DEF dead
        <3> QED BY <1>10, <1>11, <2>2, <3>1 DEF Changed
    <2> QED BY <2>1, <2>2
<1> QED BY <1>7, <1>8, <1>12

LEMMA Functions ==
    ASSUME TypeOK
    PROVE  /\ vault \in [Vault -> VaultState] /\ index \in [Vault -> IndexState]
           /\ live \in [Vault -> UnitState] /\ build \in [Vault -> BuildState]
           /\ carried \in [Vault -> SUBSET Res]
           /\ up \in SUBSET Shard /\ know \in [Shard -> Epoch \cup {NoEpoch}]
           /\ feedPos \in [Shard -> Seq0]
BY DEF TypeOK, StoreType, VaultState, IndexState, UnitState, BuildState

LEMMA StoreTyped ==
    ASSUME vault' \in [Vault -> VaultState], index' \in [Vault -> IndexState],
           live' \in [Vault -> UnitState], build' \in [Vault -> BuildState],
           carried' \in [Vault -> SUBSET Res],
           up' \in SUBSET Shard, know' \in [Shard -> Epoch \cup {NoEpoch}],
           feedPos' \in [Shard -> Seq0]
    PROVE  StoreType'
BY DEF StoreType, VaultState, IndexState, UnitState, BuildState

LEMMA ForgetFacts ==
    ASSUME TypeOK, NEW S, Forget(S)
    PROVE  /\ vault' \in [Vault -> VaultState] /\ live' \in [Vault -> UnitState]
           /\ build' \in [Vault -> BuildState]
           /\ know' \in [Shard -> Epoch \cup {NoEpoch}] /\ feedPos' \in [Shard -> Seq0]
           /\ \A s \in Shard : /\ know'[s] = IF s \in S THEN NoEpoch ELSE know[s]
                               /\ feedPos'[s] = IF s \in S THEN 0 ELSE feedPos[s]
           /\ \A v \in Vault :
                /\ ShardOf[v] \in S => vault'[v] = NewVault /\ live'[v] = NoUnit /\ build'[v] = NoBuild
                /\ ShardOf[v] \notin S => vault'[v] = vault[v] /\ live'[v] = live[v] /\ build'[v] = build[v]
<1>1. /\ vault \in [Vault -> VaultState] /\ live \in [Vault -> UnitState]
      /\ build \in [Vault -> BuildState] /\ know \in [Shard -> Epoch \cup {NoEpoch}]
      /\ feedPos \in [Shard -> Seq0]
    BY Functions
<1>2. /\ vault' = [v \in Vault |-> IF ShardOf[v] \in S THEN NewVault ELSE vault[v]]
      /\ live' = [v \in Vault |-> IF ShardOf[v] \in S THEN NoUnit ELSE live[v]]
      /\ build' = [v \in Vault |-> IF ShardOf[v] \in S THEN NoBuild ELSE build[v]]
      /\ know' = [s \in Shard |-> IF s \in S THEN NoEpoch ELSE know[s]]
      /\ feedPos' = [s \in Shard |-> IF s \in S THEN 0 ELSE feedPos[s]]
    BY DEF Forget
<1>3. /\ vault' \in [Vault -> VaultState] /\ live' \in [Vault -> UnitState]
      /\ build' \in [Vault -> BuildState]
    BY <1>1, <1>2, Literals
<1>4. know' \in [Shard -> Epoch \cup {NoEpoch}] /\ feedPos' \in [Shard -> Seq0]
    BY <1>1, <1>2, Constants
<1>5. \A s \in Shard : /\ know'[s] = IF s \in S THEN NoEpoch ELSE know[s]
                       /\ feedPos'[s] = IF s \in S THEN 0 ELSE feedPos[s]
    BY <1>2
<1>6. \A v \in Vault :
         /\ ShardOf[v] \in S => vault'[v] = NewVault /\ live'[v] = NoUnit /\ build'[v] = NoBuild
         /\ ShardOf[v] \notin S => vault'[v] = vault[v] /\ live'[v] = live[v] /\ build'[v] = build[v]
    BY <1>2
<1> QED BY <1>3, <1>4, <1>5, <1>6

\* What an edit of resources S of vault v leaves of the copies.
LEMMA OutdateFacts ==
    ASSUME TypeOK, NEW v \in Vault, NEW S, Outdate(v, S)
    PROVE  /\ index' \in [Vault -> IndexState] /\ live' \in [Vault -> UnitState]
           /\ build' \in [Vault -> BuildState] /\ carried' \in [Vault -> SUBSET Res]
           /\ \A w \in Vault \ {v} : /\ index'[w] = index[w] /\ live'[w] = live[w]
                                     /\ build'[w] = build[w] /\ carried'[w] = carried[w]
           /\ index'[v] = [index[v] EXCEPT !.fresh = index[v].fresh \ S]
           /\ live'[v] = [live[v] EXCEPT !.got = live[v].got \ S]
           /\ build'[v] = [build[v] EXCEPT !.got = build[v].got \ S]
           /\ carried'[v] = carried[v] \ S
<1>1. /\ index \in [Vault -> IndexState] /\ live \in [Vault -> UnitState]
      /\ build \in [Vault -> BuildState] /\ carried \in [Vault -> SUBSET Res]
    BY Functions
<1> DEFINE i == [index[v] EXCEPT !.fresh = index[v].fresh \ S]
           u == [live[v] EXCEPT !.got = live[v].got \ S]
           b == [build[v] EXCEPT !.got = build[v].got \ S]
           k == carried[v] \ S
<1>2. /\ index' = [index EXCEPT ![v] = i] /\ live' = [live EXCEPT ![v] = u]
      /\ build' = [build EXCEPT ![v] = b] /\ carried' = [carried EXCEPT ![v] = k]
    BY DEF Outdate
<1>3. i \in IndexState /\ u \in UnitState /\ b \in BuildState /\ k \in SUBSET Res
    BY StoreTypes DEF IndexState, UnitState, BuildState
<1> HIDE DEF i, u, b, k
<1>4. /\ index' \in [Vault -> IndexState] /\ live' \in [Vault -> UnitState]
      /\ build' \in [Vault -> BuildState] /\ carried' \in [Vault -> SUBSET Res]
      /\ \A w \in Vault \ {v} : /\ index'[w] = index[w] /\ live'[w] = live[w]
                                /\ build'[w] = build[w] /\ carried'[w] = carried[w]
      /\ index'[v] = i /\ live'[v] = u /\ build'[v] = b /\ carried'[v] = k
    BY <1>1, <1>2, <1>3
<1> QED BY <1>4 DEF i, u, b, k

\* A full list, for the shards S.
LEMMA OwnFacts ==
    ASSUME TypeOK, NEW known \in [Vault -> VaultState], NEW S, NEW ids, Own(S, known, ids)
    PROVE  /\ vault' \in [Vault -> VaultState] /\ build' \in [Vault -> BuildState]
           /\ vault' = AfterOwn(S, known, ids) /\ index' = index /\ live' = live
           /\ \A v \in Vault : build'[v] = IF v \in Orphans(S, known, ids) THEN NoBuild ELSE build[v]
<1>1. /\ vault' = AfterOwn(S, known, ids) /\ index' = index /\ live' = live
      /\ build' = [v \in Vault |-> IF v \in Orphans(S, known, ids) THEN NoBuild ELSE build[v]]
    BY DEF Own, StopBuilds
<1>2. build \in [Vault -> BuildState]
    BY Functions
<1>3. build' \in [Vault -> BuildState]
    BY <1>1, <1>2, Literals
<1>4. vault' \in [Vault -> VaultState]
    BY <1>1, AfterOwnFacts
<1> QED BY <1>1, <1>3, <1>4
-----------------------------------------------------------------------------
(* Every step keeps the types.                                              *)

LEMMA EditTypes ==
    ASSUME TypeOK, NEW v \in Vault, NEW r \in Res, Edit(v, r)
    PROVE  TypeOK' /\ top' = top + 1
<1>1. top + 1 \in Seq0
    BY Constants DEF Edit, TypeOK, Seq0, Epoch
<1>2. row' \in [Vault -> [Res \cup {Gone} -> Seq0]]
    BY <1>1 DEF Edit, TypeOK
<1>3. StoreType'
    <2>1. Outdate(v, {r}) /\ UNCHANGED <<up, know, feedPos, vault>>
        BY DEF Edit
    <2> QED BY <2>1, OutdateFacts, Functions, StoreTyped
<1> QED BY <1>1, <1>2, <1>3 DEF Edit, TypeOK, main

LEMMA DeleteTypes ==
    ASSUME TypeOK, NEW v \in Vault, Delete(v)
    PROVE  TypeOK' /\ top' = top + 1
<1>1. top + 1 \in Seq0 /\ 0 \in Seq0
    BY Constants DEF Delete, TypeOK, Seq0, Epoch
<1>2. row' \in [Vault -> [Res \cup {Gone} -> Seq0]]
    <2>1. [r \in Res \cup {Gone} |-> IF r = Gone THEN top + 1 ELSE 0] \in [Res \cup {Gone} -> Seq0]
        BY <1>1
    <2> QED BY <2>1 DEF Delete, TypeOK
<1>3. StoreType'
    BY Functions, StoreTyped DEF Delete, storeVars
<1>4. moves' \in 0..MaxMove
    BY PageAssumption DEF Delete, TypeOK
<1> QED BY <1>1, <1>2, <1>3, <1>4 DEF Delete, TypeOK, main

LEMMA LeaveTypes ==
    ASSUME TypeOK, NEW v \in Vault, Leave(v) \/ Return(v)
    PROVE  TypeOK'
<1>1. StoreType'
    BY Functions, StoreTyped DEF Leave, Return, storeVars
<1>2. moves' \in 0..MaxMove
    BY PageAssumption DEF Leave, Return, TypeOK
<1> QED BY <1>1, <1>2 DEF Leave, Return, TypeOK, main

\* A write gets a sequence above all others, so no two rows have the same one.
LEMMA NewRow ==
    ASSUME TypeOK, RowInv, NEW v \in Vault, NEW r \in Res \cup {Gone}, top' = top + 1,
           \A w \in Vault : \A q \in Res \cup {Gone} :
              \/ row'[w][q] = row[w][q]
              \/ w = v /\ q = r /\ row'[w][q] = top + 1
              \/ row'[w][q] = 0
    PROVE  RowInv'
<1>1. top \in Nat /\ \A w \in Vault : \A q \in Res \cup {Gone} : row[w][q] \in Nat /\ row[w][q] <= top
    BY Numbers, MainNumbers DEF RowInv
<1>2. \A w \in Vault : \A q \in Res \cup {Gone} : row'[w][q] <= top'
    BY <1>1
<1>3. ASSUME NEW w \in Vault, NEW x \in Vault, NEW q \in Res \cup {Gone}, NEW p \in Res \cup {Gone},
             row'[w][q] = row'[x][p], row'[w][q] # 0
      PROVE  w = x /\ q = p
    <2>1. CASE row'[w][q] = row[w][q] /\ row'[x][p] = row[x][p]
        <3>1. row[w][q] = row[x][p] /\ row[w][q] # 0
            BY <1>3, <2>1
        <3>2. row[w][q] = row[x][p] /\ row[w][q] # 0 => w = x /\ q = p
            BY DEF RowInv
        <3> QED BY <3>1, <3>2
    <2>2. CASE w = v /\ q = r /\ row'[w][q] = top + 1
        BY <1>1, <1>3, <2>2
    <2>3. CASE x = v /\ p = r /\ row'[x][p] = top + 1
        BY <1>1, <1>3, <2>3
    <2> QED BY <1>3, <2>1, <2>2, <2>3
<1> QED BY <1>2, <1>3 DEF RowInv

LEMMA EditRows ==
    ASSUME TypeOK, RowInv, NEW v \in Vault, NEW r \in Res, Edit(v, r)
    PROVE  /\ RowInv'
           /\ \A w \in Vault \ {v} : row'[w] = row[w]
           /\ \A q \in Res \cup {Gone} : row'[v][q] = IF q = r THEN top + 1 ELSE row[v][q]
<1>1. /\ \A w \in Vault \ {v} : row'[w] = row[w]
      /\ \A q \in Res \cup {Gone} : row'[v][q] = IF q = r THEN top + 1 ELSE row[v][q]
    <2>1. row \in [Vault -> [Res \cup {Gone} -> Seq0]]
        BY DEF TypeOK
    <2>2. row' = [row EXCEPT ![v] = [row[v] EXCEPT ![r] = top + 1]]
        BY DEF Edit
    <2>3. row[v] \in [Res \cup {Gone} -> Seq0]
        BY <2>1
    <2> QED BY <2>1, <2>2, <2>3
<1>2. \A w \in Vault : \A q \in Res \cup {Gone} :
        \/ row'[w][q] = row[w][q]
        \/ w = v /\ q = r /\ row'[w][q] = top + 1
    BY <1>1
<1>3. r \in Res \cup {Gone} /\ top' = top + 1
    BY EditTypes
<1> QED BY <1>1, <1>2, <1>3, NewRow

LEMMA DeleteRows ==
    ASSUME TypeOK, RowInv, NEW v \in Vault, Delete(v)
    PROVE  /\ RowInv'
           /\ \A w \in Vault \ {v} : row'[w] = row[w]
           /\ \A q \in Res \cup {Gone} : row'[v][q] = IF q = Gone THEN top + 1 ELSE 0
<1>1. /\ \A w \in Vault \ {v} : row'[w] = row[w]
      /\ \A q \in Res \cup {Gone} : row'[v][q] = IF q = Gone THEN top + 1 ELSE 0
    BY DEF Delete, TypeOK
<1>2. \A w \in Vault : \A q \in Res \cup {Gone} :
        \/ row'[w][q] = row[w][q]
        \/ w = v /\ q = Gone /\ row'[w][q] = top + 1
        \/ row'[w][q] = 0
    BY <1>1
<1>3. Gone \in Res \cup {Gone} /\ top' = top + 1
    BY DeleteTypes
<1> QED BY <1>1, <1>2, <1>3, NewRow

LEMMA RecreateTypes ==
    ASSUME TypeOK, Recreate
    PROVE  /\ TypeOK'
           /\ \A v \in Vault :
                /\ row'[v] = [r \in Res \cup {Gone} |-> 0]
                /\ index'[v] = [index[v] EXCEPT !.fresh = {}]
                /\ live'[v] = [live[v] EXCEPT !.got = {}]
                /\ build'[v] = [build[v] EXCEPT !.got = {}]
                /\ carried'[v] = {}
<1>1. /\ row' = [v \in Vault |-> [r \in Res \cup {Gone} |-> 0]]
      /\ index' = [v \in Vault |-> [index[v] EXCEPT !.fresh = {}]]
      /\ live' = [v \in Vault |-> [live[v] EXCEPT !.got = {}]]
      /\ build' = [v \in Vault |-> [build[v] EXCEPT !.got = {}]]
      /\ carried' = [v \in Vault |-> {}]
    BY DEF Recreate
<1>2. \A v \in Vault : /\ [index[v] EXCEPT !.fresh = {}] \in IndexState
                       /\ [live[v] EXCEPT !.got = {}] \in UnitState
                       /\ [build[v] EXCEPT !.got = {}] \in BuildState
    BY StoreTypes DEF IndexState, UnitState, BuildState
<1>3. /\ index' \in [Vault -> IndexState] /\ live' \in [Vault -> UnitState]
      /\ build' \in [Vault -> BuildState] /\ carried' \in [Vault -> SUBSET Res]
    BY <1>1, <1>2
<1>4. StoreType'
    <2>1. UNCHANGED <<up, know, feedPos, vault>>
        BY DEF Recreate
    <2> QED BY <1>3, <2>1, Functions, StoreTyped
<1>5. row' \in [Vault -> [Res \cup {Gone} -> Seq0]]
    BY <1>1, Constants
<1>6. feedEpoch' \in Epoch /\ top' \in Seq0
    BY Constants, FeedBounds DEF Recreate, TypeOK, Epoch
<1>7. TypeOK'
    BY <1>4, <1>5, <1>6 DEF Recreate, TypeOK, main
<1> QED BY <1>1, <1>7

\* The answer of a shard is below every change that waits in it.
LEMMA LowWaterFacts ==
    ASSUME TypeOK, NEW s \in Shard
    PROVE  /\ LowWater(s) \in Nat
           /\ \A v \in Vault, r \in Res :
                ShardOf[v] = s /\ vault[v].owned /\ vault[v].why = "" /\ vault[v].pending[r] # 0
                    => LowWater(s) < vault[v].pending[r]
<1> DEFINE held == {v \in Of(s) : vault[v].owned /\ vault[v].why = "" /\ Waiting(vault[v].pending) # {}}
           T == {MinPending(vault[v].pending) : v \in held}
<1>1. ASSUME NEW v \in held
      PROVE  /\ MinPending(vault[v].pending) \in Nat \ {0}
             /\ \A r \in Res : vault[v].pending[r] # 0 =>
                  MinPending(vault[v].pending) <= vault[v].pending[r]
    <2> DEFINE p == vault[v].pending
               P == {p[r] : r \in Waiting(p)}
    <2>1. v \in Vault /\ Waiting(p) # {}
        BY DEF Of
    <2>2. p \in [Res -> Seq0]
        BY <2>1, StoreTypes DEF VaultState
    <2> HIDE DEF p
    <2>3. P \subseteq Nat /\ P # {}
        <3>1. \A r \in Waiting(p) : p[r] \in Nat
            BY <2>2, Constants DEF Waiting
        <3>2. P # {}
            BY <2>1
        <3>3. P \subseteq Nat
            BY <3>1
        <3> QED BY <3>2, <3>3
    <2>4. Min(P) \in P /\ \A x \in P : Min(P) <= x
        <3> HIDE DEF P
        <3> QED BY <2>3, MinFacts
    <2>5. \A x \in P : x # 0
        BY DEF Waiting
    <2>6. \A r \in Res : p[r] # 0 => p[r] \in P
        BY DEF Waiting
    <2>7. MinPending(p) = Min(P)
        BY DEF MinPending
    <2> HIDE DEF P
    <2> QED BY <2>3, <2>4, <2>5, <2>6, <2>7 DEF p
<1>2. CASE held = {}
    <2>1. LowWater(s) = Nothing
        BY <1>2 DEF LowWater
    <2>2. \A v \in Vault, r \in Res : ShardOf[v] = s /\ vault[v].owned /\ vault[v].why = "" => ~(vault[v].pending[r] # 0)
        BY <1>2 DEF Waiting, Of
    <2> QED BY <2>1, <2>2, Constants
<1>3. CASE held # {}
    <2>1. T \subseteq Nat \ {0} /\ T # {} /\ \A v \in held : MinPending(vault[v].pending) \in T
        <3> HIDE DEF held
        <3> QED BY <1>1, <1>3
    <2>2. Min(T) \in T /\ \A x \in T : Min(T) <= x
        <3> HIDE DEF T
        <3> QED BY <2>1, MinFacts
    <2>3. LowWater(s) = Min(T) - 1
        BY <1>3 DEF LowWater
    <2> HIDE DEF T
    <2>4. Min(T) \in Nat /\ Min(T) - 1 \in Nat /\ Min(T) - 1 < Min(T)
        <3>1. Min(T) \in Nat \ {0}
            BY <2>1, <2>2
        <3> QED BY <3>1
    <2>5. ASSUME NEW v \in Vault, NEW r \in Res, ShardOf[v] = s, vault[v].owned, vault[v].why = "", vault[v].pending[r] # 0
          PROVE  LowWater(s) < vault[v].pending[r]
        <3>1. v \in held
            BY <2>5 DEF Of, Waiting
        <3>2. MinPending(vault[v].pending) \in T /\ MinPending(vault[v].pending) <= vault[v].pending[r]
            BY <3>1, <2>1, <1>1, <2>5
        <3>3. vault[v].pending[r] \in Nat
            BY StoreTypes, Constants DEF VaultState
        <3>4. Min(T) <= MinPending(vault[v].pending) /\ MinPending(vault[v].pending) \in Nat
            BY <3>2, <2>1, <2>2
        <3> HIDE DEF held
        <3> QED BY <3>2, <3>3, <3>4, <2>3, <2>4
    <2> HIDE DEF held
    <2> QED BY <2>3, <2>5, <2>4
<1> QED BY <1>2, <1>3

LEMMA SaveFacts ==
    ASSUME TypeOK, SaveBegin
    PROVE  /\ TypeOK' /\ save'.on /\ save'.safe <= cursor
           /\ \A v \in Vault, r \in Res :
                vault[v].owned /\ vault[v].why = "" /\ vault[v].pending[r] # 0
                    => save'.safe < vault[v].pending[r]
<1> DEFINE T == {cursor} \cup {LowWater(s) : s \in Shard}
<1>1. cursor \in Seq0
    BY DEF TypeOK
<1>2. T \subseteq Nat /\ T # {} /\ cursor \in T /\ \A s \in Shard : LowWater(s) \in T
    BY <1>1, LowWaterFacts, Constants
<1>3. Min(T) \in Nat /\ \A x \in T : Min(T) <= x
    <2> HIDE DEF T
    <2> QED BY <1>2, MinFacts
<1>4. save' = [on |-> TRUE, safe |-> Min(T)]
    BY DEF SaveBegin
<1> HIDE DEF T
<1>5. Min(T) <= cursor /\ Min(T) \in Seq0
    BY <1>1, <1>2, <1>3, FeedBounds DEF Seq0
<1>6. StoreType'
    BY Functions, StoreTyped DEF SaveBegin, storeVars
<1>7. TypeOK'
    <2>1. save' \in [on : BOOLEAN, safe : Seq0]
        BY <1>4, <1>5
    <2> QED BY <2>1, <1>6 DEF SaveBegin, TypeOK, backend
<1>8. ASSUME NEW v \in Vault, NEW r \in Res, vault[v].owned, vault[v].why = "", vault[v].pending[r] # 0
      PROVE  Min(T) < vault[v].pending[r]
    <2>1. ShardOf[v] \in Shard /\ vault[v].pending[r] \in Nat
        BY StoreTypes, Constants DEF VaultState
    <2>2. LowWater(ShardOf[v]) \in T /\ LowWater(ShardOf[v]) < vault[v].pending[r] /\ LowWater(ShardOf[v]) \in Nat
        BY <1>2, <1>8, <2>1, LowWaterFacts
    <2> QED BY <1>3, <2>1, <2>2
<1> QED BY <1>4, <1>5, <1>7, <1>8

LEMMA ListTypes ==
    ASSUME TypeOK, ListAsk \/ PollFails \/ SaveEnd
    PROVE  TypeOK'
<1>1. StoreType'
    BY Functions, StoreTyped DEF ListAsk, PollFails, SaveEnd, storeVars
<1>2. CASE ListAsk
    BY <1>1, <1>2 DEF ListAsk, TypeOK, backend
<1>3. CASE PollFails
    BY <1>1, <1>3, Literals DEF PollFails, TypeOK, backend, PageState
<1>4. CASE SaveEnd
    BY <1>1, <1>4, Constants DEF SaveEnd, TypeOK, backend, NoSave
<1> QED BY <1>2, <1>3, <1>4

LEMMA ListTakeTypes ==
    ASSUME TypeOK, ListTake
    PROVE  TypeOK'
<1>1. UNCHANGED <<up, know, feedPos, carried>>
    BY DEF ListTake
<1>2. StoreType'
    <2>1. CASE epoch = NoEpoch
        <3>1. UNCHANGED <<vault, index, live, build>>
            BY <2>1 DEF ListTake
        <3> QED BY <1>1, <3>1, Functions, StoreTyped
    <2>2. CASE epoch # NoEpoch
        <3>1. Own(up, vault, owned')
            BY <2>2 DEF ListTake
        <3>2. vault \in [Vault -> VaultState]
            BY Functions
        <3>3. /\ vault' \in [Vault -> VaultState] /\ build' \in [Vault -> BuildState]
              /\ index' = index /\ live' = live
            BY <3>1, <3>2, OwnFacts
        <3> QED BY <1>1, <3>3, Functions, StoreTyped
    <2> QED BY <2>1, <2>2
<1>3. owned' \in SUBSET Vault
    BY DEF ListTake, TypeOK
<1> QED BY <1>2, <1>3, Literals DEF ListTake, TypeOK, backend, ListState

LEMMA PollTypes ==
    ASSUME TypeOK, RowInv, Poll
    PROVE  TypeOK' /\ cursor' = Back /\ rewindTo' = Nothing /\ poll' = Page(cursor')
<1>1. cursor' = Back /\ cursor' \in Seq0 /\ rewindTo' = Nothing /\ poll' = Page(cursor')
    BY FeedBounds DEF Poll, Back, Smaller, TypeOK, Seq0, Nothing
<1>2. poll' \in PageState
    BY <1>1, PageFacts
<1>3. StoreType'
    BY Functions, StoreTyped DEF Poll, storeVars
<1>4. rewindTo' \in 0..Nothing
    BY <1>1, Constants
<1> QED BY <1>1, <1>2, <1>3, <1>4 DEF Poll, TypeOK, backend, PageState

LEMMA NewEpochTypes ==
    ASSUME TypeOK, NewEpoch
    PROVE  /\ TypeOK'
           /\ \A s \in Shard : /\ know'[s] = IF s \in up THEN poll.epoch ELSE know[s]
                               /\ feedPos'[s] = IF s \in up THEN 0 ELSE feedPos[s]
<1>1. Own(up, AfterEpoch(up), owned) /\ UNCHANGED <<up, carried>> /\ SetEpoch(up, poll.epoch)
    BY DEF NewEpoch
<1>2. AfterEpoch(up) \in [Vault -> VaultState]
    BY AfterEpochFacts
<1>3. /\ vault' \in [Vault -> VaultState] /\ build' \in [Vault -> BuildState]
      /\ index' = index /\ live' = live
    BY <1>1, <1>2, OwnFacts
<1>4. poll.epoch \in Epoch \cup {NoEpoch}
    BY DEF TypeOK
<1>5. /\ know' = [s \in Shard |-> IF s \in up THEN poll.epoch ELSE know[s]]
      /\ feedPos' = [s \in Shard |-> IF s \in up THEN 0 ELSE feedPos[s]]
    BY DEF NewEpoch, SetEpoch
<1>6. know' \in [Shard -> Epoch \cup {NoEpoch}] /\ feedPos' \in [Shard -> Seq0]
    BY <1>4, <1>5, Functions, Constants
<1>7. StoreType'
    BY <1>1, <1>3, <1>6, Functions, StoreTyped
<1>8. TypeOK'
    BY <1>4, <1>7, Literals, Constants DEF NewEpoch, TypeOK, backend, PageState
<1> QED BY <1>5, <1>8

\* What the changes of a page are applied to: what a full list has made of the vaults if the
\* epoch was not known yet.
Before1 == IF epoch = NoEpoch THEN AfterOwn(up, vault, owned) ELSE vault
Left1 == IF epoch = NoEpoch THEN Orphans(up, vault, owned) ELSE {}
GoneOf(batch) == {c.v : c \in {x \in batch : x.r = Gone}}
HereOf(batch) == {c.v : c \in batch} \ GoneOf(batch)

LEMMA TakePageTypes ==
    ASSUME TypeOK, TakePage
    PROVE  /\ TypeOK'
           /\ Changes(up, Before1, Left1, poll.changes, poll.last)
           /\ Before1 \in [Vault -> VaultState] /\ poll.changes \subseteq Change /\ poll.last \in Seq0
           /\ \A v \in Vault : Changed(v, Before1[v], up, Left1, poll.changes)
           /\ \A s \in Shard : know'[s] = IF s \in up THEN poll.epoch ELSE know[s]
           /\ owned' = (owned \ GoneOf(poll.changes)) \cup HereOf(poll.changes)
           /\ listing' = IF listing.on THEN [listing EXCEPT !.seen = listing.seen \cup HereOf(poll.changes)] ELSE listing
<1>1. vault \in [Vault -> VaultState]
    BY Functions
<1>2. Before1 \in [Vault -> VaultState]
    BY <1>1, AfterOwnFacts DEF Before1
<1>3. poll.changes \subseteq Change /\ poll.last \in Seq0 /\ poll.epoch \in Epoch \cup {NoEpoch}
    BY DEF TypeOK
<1>4. Changes(up, Before1, Left1, poll.changes, poll.last)
    <2>1. CASE epoch = NoEpoch
        <3>1. Changes(up, AfterOwn(up, vault, owned), Orphans(up, vault, owned), poll.changes, poll.last)
            BY <2>1 DEF TakePage
        <3> QED BY <2>1, <3>1 DEF Before1, Left1
    <2>2. CASE epoch # NoEpoch
        <3>1. Changes(up, vault, {}, poll.changes, poll.last)
            BY <2>2 DEF TakePage
        <3> QED BY <2>2, <3>1 DEF Before1, Left1
    <2> QED BY <2>1, <2>2
<1>5. /\ vault' \in [Vault -> VaultState] /\ index' \in [Vault -> IndexState]
      /\ live' \in [Vault -> UnitState] /\ build' \in [Vault -> BuildState]
      /\ feedPos' \in [Shard -> Seq0]
      /\ \A v \in Vault : Changed(v, Before1[v], up, Left1, poll.changes)
    BY <1>2, <1>3, <1>4, ChangesFacts
<1>6. know' = [s \in Shard |-> IF s \in up THEN poll.epoch ELSE know[s]]
    BY DEF TakePage, SetEpoch
<1>7. know' \in [Shard -> Epoch \cup {NoEpoch}]
    BY <1>3, <1>6, Functions
<1>8. UNCHANGED <<up, carried>>
    BY DEF TakePage
<1>9. StoreType'
    BY <1>5, <1>7, <1>8, Functions, StoreTyped
<1>10. /\ owned' = (owned \ GoneOf(poll.changes)) \cup HereOf(poll.changes)
       /\ listing' = IF listing.on THEN [listing EXCEPT !.seen = listing.seen \cup HereOf(poll.changes)] ELSE listing
    BY DEF TakePage, GoneOf, HereOf
<1>11. HereOf(poll.changes) \subseteq Vault
    BY <1>3 DEF HereOf, Change
<1>12. owned' \in SUBSET Vault /\ listing' \in ListState
    <2>1. owned \subseteq Vault /\ listing \in ListState
        BY DEF TypeOK, ListState
    <2> QED BY <2>1, <1>10, <1>11 DEF ListState
<1>13. cursor' \in Seq0
    BY <1>3 DEF TakePage, TypeOK, Larger
<1>14. UNCHANGED <<backend, saved, persisted, rewindTo, listed, save, crashes, moves>> /\ poll' = NoPage /\ epoch' = poll.epoch
    BY DEF TakePage
<1>15. TypeOK'
    BY <1>3, <1>9, <1>12, <1>13, <1>14, Literals DEF TypeOK, backend, PageState, ListState
<1> QED BY <1>2, <1>3, <1>4, <1>5, <1>6, <1>10, <1>15

LEMMA ShardDiesTypes ==
    ASSUME TypeOK, NEW s \in Shard, ShardDies(s)
    PROVE  TypeOK'
<1>1. Forget({s}) /\ UNCHANGED <<index, carried>> /\ up' \in SUBSET Shard
    BY DEF ShardDies, TypeOK, StoreType
<1>2. StoreType'
    BY <1>1, ForgetFacts, Functions, StoreTyped
<1>3. crashes' \in 0..MaxCrash
    BY PageAssumption DEF ShardDies, TypeOK
<1>4. save' \in [on : BOOLEAN, safe : Seq0]
    <2>1. NoSave \in [on : BOOLEAN, safe : Seq0] /\ save \in [on : BOOLEAN, safe : Seq0]
        BY Constants DEF TypeOK, NoSave
    <2> QED BY <2>1 DEF ShardDies
<1> QED BY <1>2, <1>3, <1>4 DEF ShardDies, TypeOK, backend

LEMMA ShardRestartsTypes ==
    ASSUME TypeOK, NEW s \in Shard, ShardRestarts(s)
    PROVE  /\ TypeOK'
           /\ \A t \in Shard : know'[t] = IF t = s THEN epoch ELSE know[t]
<1>1. /\ Own(up', vault, owned \cap Of(s)) /\ UNCHANGED <<feedPos, carried>> /\ up' \in SUBSET Shard
      /\ know' = [t \in Shard |-> IF t \in {s} THEN epoch ELSE know[t]]
    BY DEF ShardRestarts, TypeOK, StoreType, SetEpoch
<1>2. vault \in [Vault -> VaultState]
    BY Functions
<1>3. /\ vault' \in [Vault -> VaultState] /\ build' \in [Vault -> BuildState]
      /\ index' = index /\ live' = live
    BY <1>1, <1>2, OwnFacts
<1>4. epoch \in Epoch \cup {NoEpoch}
    BY DEF TypeOK
<1>5. know' \in [Shard -> Epoch \cup {NoEpoch}]
    BY <1>1, <1>4, Functions
<1>6. StoreType'
    BY <1>1, <1>3, <1>5, Functions, StoreTyped
<1>7. rewindTo' \in 0..Nothing
    BY Constants, FeedBounds DEF ShardRestarts, TypeOK, Seq0, Nothing
<1>8. TypeOK'
    BY <1>6, <1>7 DEF ShardRestarts, TypeOK, backend
<1> QED BY <1>1, <1>8

LEMMA CrashTypes ==
    ASSUME TypeOK, Crash
    PROVE  TypeOK'
<1>1. Forget(Shard) /\ UNCHANGED <<index, carried>> /\ up' \in SUBSET Shard
    BY DEF Crash
<1>2. StoreType'
    BY <1>1, ForgetFacts, Functions, StoreTyped
<1>3. crashes' \in 0..MaxCrash
    BY PageAssumption DEF Crash, TypeOK
<1>4. cursor' \in Seq0 /\ persisted' \in Seq0 /\ rewindTo' \in 0..Nothing
    BY Constants DEF Crash, TypeOK
<1> QED BY <1>2, <1>3, <1>4, Literals, Constants DEF Crash, TypeOK, backend, PageState, ListState, NoSave
-----------------------------------------------------------------------------
(* What a step leaves alone.                                                *)

\* One where a vault may have left, and others may have changed.
Same(w) == /\ vault'[w] = vault[w] /\ index'[w] = index[w] /\ live'[w] = live[w]
           /\ build'[w] = build[w] /\ carried'[w] = carried[w] /\ row'[w] = row[w]
           /\ w \in home' => w \in home
           /\ top' >= top /\ moves' >= moves
           /\ UNCHANGED <<feedEpoch, up, know, feedPos, saved, epoch, cursor, persisted,
                          rewindTo, owned, listed, listing, poll, save, crashes>>

LEMMA GlobalFrame ==
    ASSUME GlobalInv, Elsewhere
    PROVE  GlobalInv'
<1>1. RowInv' /\ FeedInv'
    BY DEF GlobalInv, Elsewhere, RowInv, FeedInv, Alive
<1>2. MainInv'
    BY DEF GlobalInv, Elsewhere, MainInv, Alive, Known
<1>3. ShardInv' /\ MainBound'
    BY DEF GlobalInv, Elsewhere, ShardInv, MainBound
<1>4. PageBound'
    BY DEF GlobalInv, Elsewhere, PageBound, Alive, Current, Known
<1> QED BY <1>1, <1>2, <1>3, <1>4 DEF GlobalInv

LEMMA VaultFrame ==
    ASSUME TypeOK, TypeOK', NEW w \in Vault, VaultInv(w), Same(w)
    PROVE  VaultInv(w)'
<1>0. top' \in Nat
    BY Constants DEF TypeOK
<1>1. OrphanInv(w)'
    BY DEF VaultInv, OrphanInv, Same, TypeOK
<1>2. ReadsIndex(w)'
    BY DEF VaultInv, ReadsIndex, Same
<1>3. TakenIn(w)'
    BY DEF VaultInv, TakenIn, Same, Alive, Shown
<1>4. Good(w)' = Good(w)
    BY DEF Same, Good, Doomed
<1>5. ListInv(w)'
    BY <1>4 DEF VaultInv, ListInv, Same
<1>6. VaultBound(w)'
    <2>1. \A n \in Nat : n <= top => n <= top'
        BY MainNumbers, <1>0 DEF Same
    <2> QED BY <2>1, Numbers, MainNumbers DEF VaultInv, VaultBound, Same, Alive
<1>7. Alive(w)' = Alive(w) /\ Current' = Current /\ Back' = Back /\ (Fed(w)' => Fed(w))
    BY DEF Same, Alive, Current, Known, Back, Fed, Shown
<1>8. PageInv(w)'
    BY <1>4, <1>7 DEF VaultInv, PageInv, Same, InPage, Excused, Shown
<1>9. DiskInv(w)'
    BY <1>4, <1>7 DEF VaultInv, DiskInv, Same
<1>10. \A r \in Res : Kept(w, r) => Kept(w, r)'
    BY <1>7 DEF Kept, ToCome, Unsaved, Same
<1>11. IndexInv(w)'
    <2>1. \A n \in Nat : n <= top => n <= top'
        BY MainNumbers, <1>0 DEF Same
    <2>2. Had(w)' = Had(w)
        BY DEF Had, Same
    <2> QED BY <1>4, <1>7, <1>10, <2>1, <2>2, Numbers DEF VaultInv, IndexInv, Same
<1>12. BuildInv(w)'
    BY <1>4, <1>7, <1>10 DEF VaultInv, BuildInv, Same
<1> QED BY <1>1, <1>2, <1>3, <1>5, <1>6, <1>8, <1>9, <1>11, <1>12 DEF VaultInv

\* The hypothesis of what follows: nothing overlaps what the code awaits, and, when
\* the backend may start anew, the peer has one shard.

\* An index that will not be built again, of a vault its shard owns, serves.
LEMMA GoodServes ==
    ASSUME IInv, NEW v \in Vault, Good(v)
    PROVE  /\ index[v].built /\ index[v].epoch = feedEpoch /\ ~index[v].stale /\ index[v].there
           /\ epoch # NoEpoch => epoch = feedEpoch /\ Current
           /\ vault[v].owned => vault[v].why = "" /\ epoch = feedEpoch
<1>1. VaultInv(v) /\ TypeOK /\ MainInv
    BY DEF IInv, GlobalInv
<1>2. index[v].built /\ index[v].epoch = feedEpoch /\ ~index[v].stale
    BY DEF Good, Doomed
<1>3. vault[v].why \in InPlace \cup Beside \cup {""}
    BY <1>1, StoreTypes DEF VaultState
<1>4. epoch # NoEpoch => epoch = feedEpoch
    <2>1. epoch # NoEpoch => index[v].epoch <= epoch
        BY <1>1 DEF VaultInv, ReadsIndex
    <2>2. epoch <= feedEpoch
        BY <1>1 DEF MainInv
    <2>3. epoch \in Nat /\ feedEpoch \in Nat
        BY <1>1, MainNumbers
    <2> QED BY <1>2, <2>1, <2>2, <2>3
<1>5. vault[v].owned => epoch # NoEpoch
    <2>1. epoch = NoEpoch => vault[v] = NewVault
        BY <1>1 DEF VaultInv, TakenIn
    <2> QED BY <2>1, Blank
<1>6. vault[v].owned => vault[v].why = ""
    BY <1>1, <1>2, <1>3, <1>4, <1>5 DEF VaultInv, ReadsIndex, Beside
<1>7. index[v].there
    BY <1>1, <1>2 DEF VaultInv, ReadsIndex
<1>8. epoch # NoEpoch => Current
    BY <1>4 DEF Current, Known
<1> QED BY <1>2, <1>4, <1>5, <1>6, <1>7, <1>8

\* Work on a vault leaves everything but that vault alone.
LEMMA StoreLift ==
    ASSUME IInv, NEW v \in Vault, Works(v), VaultInv(v)'
    PROVE  IInv'
<1>1. TypeOK /\ TypeOK' /\ GlobalInv /\ Elsewhere /\ OnlyOf(v)
    BY DEF IInv, Works
<1>2. GlobalInv'
    BY <1>1, GlobalFrame
<1>3. ASSUME NEW w \in Vault
      PROVE  VaultInv(w)'
    <2>1. CASE w = v
        BY <2>1
    <2>2. CASE w # v
        <3>1. top \in Nat /\ moves \in Nat
            BY <1>1, MainNumbers
        <3>2. Same(w)
            BY <1>1, <2>2, <3>1 DEF Same, Elsewhere, OnlyOf
        <3>3. VaultInv(w)
            BY DEF IInv
        <3> QED BY <1>1, <3>2, <3>3, VaultFrame
    <2> QED BY <2>1, <2>2
<1> QED BY <1>1, <1>2, <1>3 DEF IInv

LEMMA WorksMain ==
    ASSUME NEW v \in Vault, Works(v)
    PROVE  /\ Alive(v)' = Alive(v) /\ Current' = Current /\ Back' = Back /\ Shown' = Shown
           /\ \A r \in Res : Unsaved(v, r)' = Unsaved(v, r) /\ InPage(v, r)' = InPage(v, r)
           /\ vault'[v].leaving = vault[v].leaving => /\ Fed(v)' = Fed(v)
                                                     /\ \A r \in Res : ToCome(v, r)' = ToCome(v, r)
<1>1. Elsewhere
    BY DEF Works
<1>2. Alive(v)' = Alive(v) /\ Current' = Current /\ Back' = Back /\ Shown' = Shown
    BY <1>1 DEF Elsewhere, Alive, Current, Known, Back, Shown
<1>3. \A r \in Res : Unsaved(v, r)' = Unsaved(v, r) /\ InPage(v, r)' = InPage(v, r)
    BY <1>1 DEF Elsewhere, Unsaved, InPage
<1>4. vault'[v].leaving = vault[v].leaving => Fed(v)' = Fed(v)
    BY <1>1, <1>2 DEF Elsewhere, Fed
<1>5. vault'[v].leaving = vault[v].leaving => \A r \in Res : ToCome(v, r)' = ToCome(v, r)
    BY <1>1, <1>2, <1>3, <1>4 DEF Elsewhere, ToCome
<1> QED BY <1>2, <1>3, <1>4, <1>5

LEMMA GoodStays ==
    ASSUME NEW v \in Vault, Works(v),
           index'[v].built = index[v].built, index'[v].epoch = index[v].epoch,
           index'[v].stale = index[v].stale
    PROVE  Good(v)' = Good(v)
BY DEF Works, Elsewhere, Good, Doomed
-----------------------------------------------------------------------------
(* The work of a shard keeps the invariant.                                 *)

LEMMA LiveFailsKeeps ==
    ASSUME IInv, NEW v \in Vault, LiveFails(v), Here
    PROVE  IInv'
<1>1. TypeOK /\ VaultInv(v)
    BY DEF IInv
<1>2. /\ Works(v) /\ ~live'[v].on
      /\ vault'[v] = vault[v] /\ index'[v] = index[v] /\ build'[v] = build[v] /\ carried'[v] = carried[v]
    BY <1>1, LiveFailsFacts
<1>3. Elsewhere
    BY <1>2 DEF Works
<1>4. Good(v)' = Good(v)
    BY <1>2, GoodStays
<1>5. /\ Alive(v)' = Alive(v) /\ Current' = Current /\ Back' = Back /\ Shown' = Shown /\ Fed(v)' = Fed(v)
      /\ \A r \in Res : /\ Unsaved(v, r)' = Unsaved(v, r) /\ InPage(v, r)' = InPage(v, r)
                        /\ ToCome(v, r)' = ToCome(v, r)
    BY <1>2, WorksMain
<1>6. OrphanInv(v)' /\ ReadsIndex(v)' /\ TakenIn(v)' /\ ListInv(v)' /\ VaultBound(v)'
    <2>1. OrphanInv(v)' /\ ReadsIndex(v)' /\ ListInv(v)'
        <3>1. OrphanInv(v)' /\ ListInv(v)'
            BY <1>1, <1>2, <1>3, <1>4 DEF VaultInv, OrphanInv, ListInv, Elsewhere
        <3>2. ReadsIndex(v)'
            BY <1>1, <1>2, <1>3 DEF VaultInv, ReadsIndex, Elsewhere
        <3> QED BY <3>1, <3>2
    <2>2. TakenIn(v)' /\ VaultBound(v)'
        BY <1>1, <1>2, <1>3, <1>5 DEF VaultInv, TakenIn, VaultBound, Elsewhere
    <2> QED BY <2>1, <2>2
<1>7. PageInv(v)' /\ DiskInv(v)'
    BY <1>1, <1>2, <1>3, <1>4, <1>5 DEF VaultInv, PageInv, Excused, DiskInv, Elsewhere
<1>8. \A r \in Res : Kept(v, r)' = Kept(v, r)
    BY <1>2, <1>3, <1>5 DEF Kept, Elsewhere
<1>9. IndexInv(v)' /\ BuildInv(v)'
    <2>1. Had(v)' = Had(v)
        BY <1>2, <1>3 DEF Had, Elsewhere
    <2> QED BY <1>1, <1>2, <1>3, <1>4, <1>5, <1>8, <2>1 DEF VaultInv, IndexInv, BuildInv, Elsewhere
<1> QED BY <1>2, <1>6, <1>7, <1>9, StoreLift DEF VaultInv

LEMMA BuildFailsKeeps ==
    ASSUME IInv, NEW v \in Vault, BuildFails(v), Here
    PROVE  IInv'
<1>1. TypeOK /\ VaultInv(v)
    BY DEF IInv
<1>2. /\ Works(v) /\ ~build'[v].on /\ build'[v].left = {}
      /\ vault'[v] = vault[v] /\ index'[v] = index[v] /\ live'[v] = live[v] /\ carried'[v] = carried[v]
    BY <1>1, BuildFailsFacts, Blank
<1>3. Elsewhere
    BY <1>2 DEF Works
<1>4. Good(v)' = Good(v)
    BY <1>2, GoodStays
<1>5. /\ Alive(v)' = Alive(v) /\ Current' = Current /\ Back' = Back /\ Shown' = Shown /\ Fed(v)' = Fed(v)
      /\ \A r \in Res : /\ Unsaved(v, r)' = Unsaved(v, r) /\ InPage(v, r)' = InPage(v, r)
                        /\ ToCome(v, r)' = ToCome(v, r)
    BY <1>2, WorksMain
<1>6. OrphanInv(v)' /\ ReadsIndex(v)' /\ TakenIn(v)' /\ ListInv(v)' /\ VaultBound(v)'
    <2>1. OrphanInv(v)' /\ ReadsIndex(v)' /\ ListInv(v)'
        <3>1. OrphanInv(v)' /\ ListInv(v)'
            BY <1>1, <1>2, <1>3, <1>4 DEF VaultInv, OrphanInv, ListInv, Elsewhere
        <3>2. ReadsIndex(v)'
            BY <1>1, <1>2, <1>3 DEF VaultInv, ReadsIndex, Elsewhere
        <3> QED BY <3>1, <3>2
    <2>2. TakenIn(v)' /\ VaultBound(v)'
        BY <1>1, <1>2, <1>3, <1>5 DEF VaultInv, TakenIn, VaultBound, Elsewhere
    <2> QED BY <2>1, <2>2
<1>7. PageInv(v)' /\ DiskInv(v)'
    BY <1>1, <1>2, <1>3, <1>4, <1>5 DEF VaultInv, PageInv, Excused, DiskInv, Elsewhere
<1>8. \A r \in Res : Kept(v, r)' = Kept(v, r)
    BY <1>2, <1>3, <1>5 DEF Kept, Elsewhere
<1>9. IndexInv(v)' /\ BuildInv(v)'
    <2>1. Had(v)' = Had(v)
        BY <1>2, <1>3 DEF Had, Elsewhere
    <2> QED BY <1>1, <1>2, <1>3, <1>4, <1>5, <1>8, <2>1 DEF VaultInv, IndexInv, BuildInv, Elsewhere
<1> QED BY <1>2, <1>6, <1>7, <1>9, StoreLift DEF VaultInv

\* A deleted vault has nothing left to be right about.
LEMMA LiveGoneKeeps ==
    ASSUME IInv, NEW v \in Vault, NEW due \in SUBSET Res, LiveGone(v, due), Here
    PROVE  IInv'
<1>1. TypeOK /\ VaultInv(v)
    BY DEF IInv
<1>2. /\ Works(v) /\ ~Alive(v)
      /\ index'[v] = index[v] /\ live'[v] = live[v] /\ build'[v] = build[v] /\ carried'[v] = carried[v]
      /\ vault'[v].owned = vault[v].owned /\ vault'[v].leaving = vault[v].leaving
      /\ vault'[v].checked = vault[v].checked /\ vault'[v].queued = vault[v].queued
      /\ vault'[v].why = vault[v].why /\ vault'[v].seen = vault[v].seen
      /\ vault'[v].applied = vault[v].applied
    BY <1>1, LiveGoneFacts
<1>3. Elsewhere
    BY <1>2 DEF Works
<1>4. Good(v)' = Good(v) /\ Alive(v)' = Alive(v) /\ Shown' = Shown
    BY <1>2, GoodStays, WorksMain
<1>5. vault[v].owned
    BY DEF LiveGone, Working
<1>6. OrphanInv(v)' /\ ReadsIndex(v)' /\ TakenIn(v)' /\ ListInv(v)' /\ VaultBound(v)'
    <2>1. OrphanInv(v)' /\ ReadsIndex(v)' /\ ListInv(v)'
        <3>1. OrphanInv(v)' /\ ListInv(v)'
            BY <1>1, <1>2, <1>3, <1>4 DEF VaultInv, OrphanInv, ListInv, Elsewhere
        <3>2. ReadsIndex(v)'
            BY <1>1, <1>2, <1>3 DEF VaultInv, ReadsIndex, Elsewhere
        <3> QED BY <3>1, <3>2
    <2>2. ~(ShardOf[v] \notin up \/ epoch = NoEpoch)
        BY <1>1, <1>5, Blank DEF VaultInv, TakenIn
    <2>3. TakenIn(v)' /\ VaultBound(v)'
        BY <1>1, <1>2, <1>3, <1>4, <2>2 DEF VaultInv, TakenIn, VaultBound, Elsewhere
    <2> QED BY <2>1, <2>3
<1>7. PageInv(v)' /\ DiskInv(v)' /\ IndexInv(v)' /\ BuildInv(v)'
    BY <1>2, <1>4 DEF PageInv, DiskInv, IndexInv, BuildInv
<1> QED BY <1>2, <1>6, <1>7, StoreLift DEF VaultInv

LEMMA SweepKeeps ==
    ASSUME IInv, NEW v \in Vault, Sweep(v), Here
    PROVE  IInv'
<1>1. TypeOK /\ VaultInv(v) /\ FeedInv
    BY DEF IInv, GlobalInv
<1>2. /\ Works(v) /\ ~vault[v].owned
      /\ vault'[v] = NewVault /\ index'[v] = NoIndex
      /\ live'[v] = live[v] /\ build'[v] = build[v] /\ carried'[v] = carried[v]
    BY <1>1, SweepFacts
<1>3. Elsewhere
    BY <1>2 DEF Works
<1>4. ~live[v].on /\ ~build[v].on /\ build[v].left = {}
    BY <1>1, <1>2 DEF VaultInv, TakenIn
<1>5. ~Good(v)'
    BY <1>2, Blank DEF Good, Doomed
<1>6. OrphanInv(v)' /\ ListInv(v)'
    <2>1. v \in home /\ listing.on /\ v \notin listing.ids \cup listing.seen => v \notin owned
        BY <1>1 DEF VaultInv, ListInv
    <2> QED BY <1>2, <1>3, <1>5, <2>1, Blank DEF OrphanInv, ListInv, Elsewhere
<1>7. ReadsIndex(v)'
    <2>1. 0 <= feedEpoch /\ 0 <= epoch /\ 0 <= poll.epoch /\ NoEpoch = 0
        BY <1>1, MainNumbers
    <2> QED BY <1>2, <1>3, <1>4, <2>1, Blank DEF ReadsIndex, Elsewhere
<1>8. TakenIn(v)'
    BY <1>2, <1>3, <1>4, Blank DEF TakenIn
<1>9. VaultBound(v)'
    <2>1. 0 <= top /\ feedEpoch # NoEpoch /\ \A r \in Res : 0 <= row[v][r]
        BY <1>1, MainNumbers, Numbers
    <2> QED BY <1>2, <1>3, <1>4, <2>1, Blank DEF VaultBound, Elsewhere
<1>10. PageInv(v)' /\ DiskInv(v)' /\ IndexInv(v)' /\ BuildInv(v)'
    BY <1>2, <1>4, <1>5 DEF PageInv, Excused, DiskInv, IndexInv, BuildInv
<1> QED BY <1>2, <1>6, <1>7, <1>8, <1>9, <1>10, StoreLift DEF VaultInv

\* An orphan is always of the first epoch.
LEMMA OrphanEarly ==
    ASSUME IInv, NEW v \in Vault, vault[v].leaving \/ index[v].stale
    PROVE  feedEpoch = 1
<1>1. VaultInv(v) /\ FeedInv /\ TypeOK
    BY DEF IInv, GlobalInv
<1>2. MaxEpoch = 1 \/ moves # 0
    BY <1>1 DEF VaultInv, OrphanInv
<1>3. feedEpoch \in 1..MaxEpoch
    BY <1>1 DEF TypeOK, Epoch
<1>4. feedEpoch > 1 => moves = 0
    BY <1>1 DEF FeedInv
<1> QED BY <1>2, <1>3, <1>4, FeedBounds

LEMMA OrphanEndKeeps ==
    ASSUME IInv, NEW v \in Vault, OrphanEnd(v), Here
    PROVE  IInv'
<1>1. TypeOK /\ VaultInv(v) /\ FeedInv
    BY DEF IInv, GlobalInv
<1>2. /\ Works(v) /\ vault[v].leaving /\ ~live[v].on
      /\ live'[v] = live[v] /\ build'[v] = build[v] /\ carried'[v] = carried[v]
      /\ vault'[v].owned = vault[v].owned /\ ~vault'[v].leaving /\ ~vault'[v].checked
      /\ vault'[v].queued = vault[v].queued /\ vault'[v].why = ""
      /\ vault'[v].pending = vault[v].pending /\ vault'[v].seen = vault[v].seen
      /\ vault'[v].applied = vault[v].applied
      /\ index'[v].there = index[v].there /\ index'[v].built = index[v].built
      /\ index'[v].epoch = index[v].epoch /\ index'[v].seq = index[v].seq
      /\ index'[v].fresh = index[v].fresh /\ index'[v].stale = (index[v].stale \/ index[v].there)
    BY <1>1, OrphanEndFacts
<1>3. Elsewhere
    BY <1>2 DEF Works
<1>4. feedEpoch = 1
    BY <1>2, OrphanEarly
<1>5. ~Good(v)'
    <2>1. index[v].built => index[v].there
        BY <1>1 DEF VaultInv, ReadsIndex
    <2> QED BY <1>2, <2>1 DEF Good, Doomed
<1>6. ~(ShardOf[v] \notin up \/ epoch = NoEpoch)
    BY <1>1, <1>2, Blank DEF VaultInv, TakenIn
<1>7. vault[v].owned /\ Alive(v) => v \notin home \cup Shown
    BY <1>1, <1>2 DEF VaultInv, TakenIn
<1>8. /\ Alive(v)' = Alive(v) /\ Current' = Current /\ Back' = Back /\ Shown' = Shown
      /\ \A r \in Res : InPage(v, r)' = InPage(v, r)
    BY <1>2, WorksMain
<1>9. OrphanInv(v)' /\ ListInv(v)'
    BY <1>1, <1>2, <1>3, <1>5 DEF VaultInv, OrphanInv, ListInv, Elsewhere
<1>10. ReadsIndex(v)'
    BY <1>1, <1>2, <1>3 DEF VaultInv, ReadsIndex, Elsewhere, Beside, InPlace
<1>11. TakenIn(v)'
    <2>1. v \in home => Alive(v)
        BY <1>1 DEF FeedInv
    <2>2. /\ vault[v].owned => v \in owned
          /\ ~vault[v].owned => ~build[v].on /\ ~live[v].on
          /\ ~build[v].on => build[v].left = {}
          /\ build[v].on => ~vault[v].queued
        BY <1>1, <1>4 DEF VaultInv, TakenIn
    <2> QED BY <1>2, <1>3, <1>6, <1>7, <2>1, <2>2 DEF TakenIn, Elsewhere
<1>12. VaultBound(v)'
    BY <1>1, <1>2, <1>3, <1>8 DEF VaultInv, VaultBound, Elsewhere
<1>13. PageInv(v)'
    <2>1. \A r \in Res : Excused(v, r) => Excused(v, r)'
        BY <1>2, <1>5 DEF Excused
    <2> QED BY <1>1, <1>2, <1>3, <1>8, <2>1 DEF VaultInv, PageInv, Elsewhere
<1>14. DiskInv(v)' /\ IndexInv(v)'
    BY <1>5 DEF DiskInv, IndexInv
<1>15. BuildInv(v)'
    <2>1. build[v].on => vault[v].owned
        BY <1>1 DEF VaultInv, TakenIn
    <2>2. Alive(v) /\ build[v].on => ~Fed(v)'
        BY <1>3, <1>7, <1>8, <2>1 DEF Fed, Elsewhere
    <2>3. \A r \in Res : Alive(v) /\ build[v].on /\ Kept(v, r) => Kept(v, r)'
        BY <1>2, <1>3, <2>2 DEF Kept, ToCome, Elsewhere
    <2> QED BY <1>1, <1>2, <1>3, <1>8, <2>3 DEF VaultInv, BuildInv, Elsewhere
<1> QED BY <1>2, <1>9, <1>10, <1>11, <1>12, <1>13, <1>14, <1>15, StoreLift DEF VaultInv

LEMMA BuildReadKeeps ==
    ASSUME IInv, NEW v \in Vault, NEW r \in Res, BuildRead(v, r), Here
    PROVE  IInv'
<1>1. TypeOK /\ VaultInv(v) /\ FeedInv
    BY DEF IInv, GlobalInv
<1>2. /\ Works(v) /\ Working(v) /\ r \in build[v].left /\ Alive(v)
      /\ index'[v] = index[v] /\ live'[v] = live[v] /\ carried'[v] = carried[v]
      /\ vault'[v].owned = vault[v].owned /\ vault'[v].leaving = vault[v].leaving
      /\ vault'[v].checked = vault[v].checked /\ vault'[v].queued = vault[v].queued
      /\ vault'[v].why = vault[v].why /\ vault'[v].seen = vault[v].seen
      /\ vault'[v].applied = vault[v].applied
      /\ ~build[v].place => vault'[v] = vault[v]
      /\ vault'[v].pending[r] \in {0, vault[v].pending[r]}
      /\ \A q \in Res \ {r} : vault'[v].pending[q] = vault[v].pending[q]
      /\ build'[v].on = build[v].on /\ build'[v].place = build[v].place
      /\ build'[v].from = build[v].from /\ build'[v].replay = build[v].replay
      /\ build'[v].left = build[v].left \ {r} /\ build'[v].got = build[v].got \cup {r}
    BY <1>1, BuildReadFacts
<1>3. Elsewhere
    BY <1>2 DEF Works
<1>4. Good(v)' = Good(v)
    BY <1>2, GoodStays
<1>5. /\ Alive(v)' = Alive(v) /\ Current' = Current /\ Back' = Back /\ Shown' = Shown /\ Fed(v)' = Fed(v)
      /\ \A q \in Res : /\ Unsaved(v, q)' = Unsaved(v, q) /\ InPage(v, q)' = InPage(v, q)
                        /\ ToCome(v, q)' = ToCome(v, q)
    BY <1>2, WorksMain
<1>6. build[v].on /\ build'[v].left \cup build'[v].got = build[v].left \cup build[v].got
    BY <1>1, <1>2 DEF VaultInv, TakenIn
<1>7. Good(v) => vault'[v] = vault[v]
    BY <1>1, <1>2, <1>6 DEF VaultInv, ReadsIndex, Good, Doomed
<1>8. ~(ShardOf[v] \notin up \/ epoch = NoEpoch)
    BY <1>1, <1>2, Blank DEF VaultInv, TakenIn, Working
<1>9. OrphanInv(v)' /\ ListInv(v)'
    BY <1>1, <1>2, <1>3, <1>4 DEF VaultInv, OrphanInv, ListInv, Elsewhere
<1>10. ReadsIndex(v)'
    BY <1>1, <1>2, <1>3 DEF VaultInv, ReadsIndex, Elsewhere
<1>11. TakenIn(v)'
    BY <1>1, <1>2, <1>3, <1>5, <1>6, <1>8 DEF VaultInv, TakenIn, Elsewhere
<1>12. VaultBound(v)'
    <2>1. \A q \in Res : vault'[v].pending[q] = vault[v].pending[q] \/ vault'[v].pending[q] = 0
        BY <1>2
    <2>2. \A q \in Res : 0 <= row[v][q]
        BY <1>1, Numbers
    <2> QED BY <1>1, <1>2, <1>3, <1>5, <2>1, <2>2 DEF VaultInv, VaultBound, Elsewhere
<1>13. PageInv(v)' /\ DiskInv(v)'
    <2>1. \A q \in Res : Excused(v, q)' = Excused(v, q)
        BY <1>2, <1>4, <1>6 DEF Excused
    <2>2. PageInv(v)'
        BY <1>1, <1>3, <1>5, <2>1 DEF VaultInv, PageInv, Elsewhere
    <2>3. DiskInv(v)'
        BY <1>1, <1>2, <1>3, <1>4, <1>5 DEF VaultInv, DiskInv, Elsewhere
    <2> QED BY <2>2, <2>3
<1>14. \A q \in Res \ {r} : Kept(v, q)' = Kept(v, q)
    BY <1>2, <1>3, <1>5 DEF Kept, Elsewhere
<1>15. IndexInv(v)'
    <2>1. Had(v)' = Had(v)
        BY <1>2, <1>3 DEF Had, Elsewhere
    <2>2. Good(v) => \A q \in Res : Kept(v, q)' = Kept(v, q)
        BY <1>3, <1>5, <1>7 DEF Kept, Elsewhere
    <2> QED BY <1>1, <1>2, <1>3, <1>4, <1>5, <1>7, <2>1, <2>2 DEF VaultInv, IndexInv, Elsewhere
<1>16. BuildInv(v)'
    <2>1. r \in build'[v].left \cup build'[v].got
        BY <1>2
    <2> QED BY <1>1, <1>2, <1>3, <1>5, <1>6, <1>14, <2>1 DEF VaultInv, BuildInv, Elsewhere
<1> QED BY <1>2, <1>9, <1>10, <1>11, <1>12, <1>13, <1>15, <1>16, StoreLift DEF VaultInv

\* What is dropped untried is what the index has.
LEMMA LiveTakeKeeps ==
    ASSUME IInv, NEW v \in Vault, NEW due \in SUBSET Res, LiveTake(v, due), Here
    PROVE  IInv'
<1>1. TypeOK /\ VaultInv(v) /\ RowInv
    BY DEF IInv, GlobalInv
<1>2. /\ Works(v) /\ Working(v) /\ ~live[v].on /\ vault[v].checked /\ vault[v].why \notin InPlace
      /\ index'[v] = index[v] /\ build'[v] = build[v] /\ carried'[v] = carried[v]
      /\ vault'[v].owned = vault[v].owned /\ vault'[v].leaving = vault[v].leaving
      /\ vault'[v].checked = vault[v].checked /\ vault'[v].queued = vault[v].queued
      /\ vault'[v].why = vault[v].why /\ vault'[v].seen = vault[v].seen
      /\ vault'[v].applied = vault[v].applied
      /\ \A r \in Res : vault'[v].pending[r] = vault[v].pending[r]
                        \/ (vault'[v].pending[r] = 0 /\ vault[v].pending[r] <= vault[v].applied)
      /\ \/ live'[v] = live[v]
         \/ /\ live'[v].on
            /\ \A r \in Res : live'[v].work[r] # 0 =>
                 live'[v].work[r] = vault[v].pending[r] /\ r \in live'[v].got
    BY <1>1, LiveTakeFacts
<1>3. Elsewhere
    BY <1>2 DEF Works
<1>4. Good(v)' = Good(v)
    BY <1>2, GoodStays
<1>5. /\ Alive(v)' = Alive(v) /\ Current' = Current /\ Back' = Back /\ Shown' = Shown /\ Fed(v)' = Fed(v)
      /\ \A r \in Res : /\ Unsaved(v, r)' = Unsaved(v, r) /\ InPage(v, r)' = InPage(v, r)
                        /\ ToCome(v, r)' = ToCome(v, r)
    BY <1>2, WorksMain
<1>6. vault[v].owned /\ ~(ShardOf[v] \notin up \/ epoch = NoEpoch)
    BY <1>1, <1>2, Blank DEF VaultInv, TakenIn, Working
<1>7. index[v].built
    <2>1. vault[v].why \in InPlace \cup Beside \cup {""}
        BY <1>1, StoreTypes DEF VaultState
    <2> QED BY <1>1, <1>2, <1>6, <2>1 DEF VaultInv, ReadsIndex
<1>8. OrphanInv(v)' /\ ListInv(v)'
    BY <1>1, <1>2, <1>3, <1>4 DEF VaultInv, OrphanInv, ListInv, Elsewhere
<1>9. ReadsIndex(v)'
    BY <1>1, <1>2, <1>3, <1>7 DEF VaultInv, ReadsIndex, Elsewhere
<1>10. TakenIn(v)'
    BY <1>1, <1>2, <1>3, <1>5, <1>6 DEF VaultInv, TakenIn, Elsewhere
<1>11. VaultBound(v)'
    <2>1. \A r \in Res : vault'[v].pending[r] = vault[v].pending[r] \/ vault'[v].pending[r] = 0
        BY <1>2
    <2>2. \A r \in Res : 0 <= row[v][r]
        BY <1>1, Numbers
    <2> QED BY <1>1, <1>2, <1>3, <1>5, <2>1, <2>2 DEF VaultInv, VaultBound, Elsewhere
<1>12. PageInv(v)' /\ DiskInv(v)'
    BY <1>1, <1>2, <1>3, <1>4, <1>5 DEF VaultInv, PageInv, Excused, DiskInv, Elsewhere
<1>13. \A r \in Res : Kept(v, r) /\ row[v][r] > vault[v].applied => Kept(v, r)'
    <2>1. \A r \in Res : row[v][r] > vault[v].applied => ~(row[v][r] <= vault[v].applied)
        BY <1>1, Numbers
    <2> QED BY <1>2, <1>3, <1>5, <2>1 DEF Kept, Elsewhere
<1>14. IndexInv(v)'
    <2> SUFFICES ASSUME Alive(v), Good(v)
                 PROVE  IndexInv(v)'
        BY <1>4, <1>5 DEF IndexInv
    <2>1. epoch = feedEpoch
        BY <1>6, GoodServes
    <2>2. /\ vault[v].applied = index[v].seq
          /\ \A r \in Res \ Had(v) : row[v][r] > index[v].seq /\ Kept(v, r)
        BY <1>1, <1>2, <1>6 DEF VaultInv, IndexInv
    <2>3. Had(v)' = Had(v)
        BY <1>2, <1>3 DEF Had, Elsewhere
    <2>4. \A r \in (Res \ Had(v))' : (row[v][r] > index[v].seq)' /\ Kept(v, r)'
        BY <1>2, <1>3, <1>13, <2>2, <2>3 DEF Elsewhere
    <2>5. \A r \in Res : vault[v].pending[r] <= top
        <3>1. \A r \in Res : vault[v].pending[r] <= row[v][r] /\ row[v][r] <= top
            BY <1>1, <2>1 DEF VaultInv, VaultBound, RowInv
        <3> QED BY <1>1, <3>1, Numbers, MainNumbers
    <2>6. live'[v].on => \A r \in Res : live'[v].work[r] # 0 =>
              /\ live'[v].work[r] <= top
              /\ r \notin live'[v].got => r \notin index[v].fresh /\ row[v][r] > live'[v].work[r]
        BY <1>2, <2>5
    <2> QED BY <1>2, <1>3, <2>2, <2>4, <2>6 DEF IndexInv, Elsewhere
<1>15. BuildInv(v)'
    BY <1>1, <1>2, <1>3, <1>5, <1>13 DEF VaultInv, BuildInv, Elsewhere
<1> QED BY <1>2, <1>8, <1>9, <1>10, <1>11, <1>12, <1>14, <1>15, StoreLift DEF VaultInv

\* An inspection finds nothing to do only if the index is of this epoch and no orphan's.
LEMMA CheckKeeps ==
    ASSUME IInv, NEW v \in Vault, Check(v), Here
    PROVE  IInv'
<1>1. TypeOK /\ VaultInv(v) /\ ShardInv /\ ShardOf[v] \in Shard
    BY StoreTypes DEF IInv, GlobalInv
<1>2. /\ Works(v) /\ Working(v) /\ vault[v].queued
      /\ index'[v] = index[v] /\ live'[v] = live[v] /\ build'[v] = build[v] /\ carried'[v] = carried[v]
      /\ vault'[v].owned = vault[v].owned /\ vault'[v].leaving = vault[v].leaving
      /\ vault'[v].pending = vault[v].pending /\ vault'[v].seen = vault[v].seen
      /\ vault'[v].checked /\ ~vault'[v].queued
      /\ vault[v].checked => vault'[v].why = vault[v].why /\ vault'[v].applied = vault[v].applied
    BY <1>1, CheckFacts
<1>3. ~vault[v].checked =>
         /\ vault'[v].why = "" => index[v].built /\ ~index[v].stale /\ index[v].epoch = epoch
         /\ vault'[v].why \in InPlace => vault[v].why \in InPlace \/ ~index[v].there \/ ~index[v].built
         /\ vault'[v].why = "stale" => vault[v].why = "stale" \/ index[v].stale
         /\ vault'[v].why = "epoch" => vault[v].why = "epoch" \/ (index[v].built /\ index[v].epoch # epoch)
         /\ vault'[v].why \in Beside => index[v].built
         /\ vault'[v].applied = IF vault'[v].why \in {"", "stale"} THEN index[v].seq
                                ELSE vault[v].applied
         /\ vault[v].why = "epoch" => vault'[v].why \notin {"", "stale"}
    <2>1. know[ShardOf[v]] = epoch
        BY <1>1, <1>2 DEF ShardInv, Working
    <2>2. epoch # NoEpoch
        BY <1>1, <1>2, Blank DEF VaultInv, TakenIn, Working
    <2> QED BY <1>1, <2>1, <2>2, CheckFacts
<1>4. Elsewhere
    BY <1>2 DEF Works
<1>5. Good(v)' = Good(v)
    BY <1>2, GoodStays
<1>6. /\ Alive(v)' = Alive(v) /\ Current' = Current /\ Back' = Back /\ Shown' = Shown /\ Fed(v)' = Fed(v)
      /\ \A r \in Res : /\ Unsaved(v, r)' = Unsaved(v, r) /\ InPage(v, r)' = InPage(v, r)
                        /\ ToCome(v, r)' = ToCome(v, r)
    BY <1>2, WorksMain
<1>7. vault[v].owned /\ ~(ShardOf[v] \notin up \/ epoch = NoEpoch)
    BY <1>1, <1>2, Blank DEF VaultInv, TakenIn, Working
<1>8. OrphanInv(v)' /\ ListInv(v)'
    BY <1>1, <1>2, <1>4, <1>5, <1>7 DEF VaultInv, OrphanInv, ListInv, Elsewhere
<1>9. ReadsIndex(v)'
    <2>1. CASE vault[v].checked
        BY <1>1, <1>2, <1>4, <2>1 DEF VaultInv, ReadsIndex, Elsewhere
    <2>2. CASE ~vault[v].checked
        <3>1. /\ index[v].built => index[v].there /\ index[v].epoch # NoEpoch
              /\ ~index[v].built => index[v].seq = 0
              /\ index[v].epoch <= feedEpoch
              /\ epoch # NoEpoch => index[v].epoch <= epoch
              /\ poll.on => index[v].epoch <= poll.epoch
              /\ live[v].on => index[v].built
              /\ build[v].on /\ build[v].place => ~index[v].built
            BY <1>1 DEF VaultInv, ReadsIndex
        <3>2. /\ vault[v].why \in InPlace => ~index[v].built
              /\ vault[v].why = "stale" => index[v].stale
              /\ vault[v].why = "epoch" => index[v].epoch # epoch
            BY <1>1, <1>7 DEF VaultInv, ReadsIndex
        <3>3. /\ vault'[v].why = "" => index[v].built /\ ~index[v].stale /\ index[v].epoch = epoch
              /\ vault'[v].why \in Beside => index[v].built
              /\ vault'[v].why \in InPlace => ~index[v].built
              /\ vault'[v].why = "stale" => index[v].stale
              /\ vault'[v].why = "epoch" => index[v].epoch # epoch
            BY <1>3, <2>2, <3>1, <3>2
        <3> QED BY <1>2, <1>4, <3>1, <3>3 DEF ReadsIndex, Elsewhere
    <2> QED BY <2>1, <2>2
<1>10. feedEpoch = 1 /\ index[v].built => index[v].epoch = feedEpoch /\ epoch = feedEpoch
    <2>1. /\ index[v].built => index[v].epoch # NoEpoch /\ index[v].epoch <= feedEpoch
          /\ epoch <= feedEpoch /\ epoch # NoEpoch
        BY <1>1, <1>7 DEF VaultInv, ReadsIndex, IInv, GlobalInv, MainInv
    <2>2. index[v].epoch \in Nat /\ epoch \in Nat /\ feedEpoch \in Nat /\ NoEpoch = 0
        BY <1>1, Numbers, MainNumbers
    <2> QED BY <2>1, <2>2
<1>11. TakenIn(v)'
    <2>1. feedEpoch = 1 => vault'[v].why # "epoch"
        <3>1. feedEpoch = 1 => vault[v].why # "epoch"
            BY <1>1 DEF VaultInv, TakenIn
        <3> QED BY <1>2, <1>3, <1>10, <3>1
    <2>2. /\ vault[v].owned => v \in owned
          /\ vault[v].owned /\ vault[v].leaving /\ Alive(v) => v \notin home \cup Shown
          /\ ~build[v].on => build[v].left = {}
        BY <1>1 DEF VaultInv, TakenIn
    <2> QED BY <1>2, <1>4, <1>6, <1>7, <2>1, <2>2 DEF TakenIn, Elsewhere
<1>12. VaultBound(v)'
    <2>1. epoch = feedEpoch => vault'[v].applied <= top
        <3> SUFFICES ASSUME epoch = feedEpoch
                     PROVE  vault'[v].applied <= top
            OBVIOUS
        <3>1. vault[v].applied <= top /\ (index[v].epoch = feedEpoch => index[v].seq <= top)
            BY <1>1 DEF VaultInv, VaultBound
        <3>2. CASE vault[v].checked
            BY <1>2, <3>1, <3>2
        <3>3. CASE ~vault[v].checked /\ vault'[v].why = ""
            BY <1>3, <3>1, <3>3
        <3>4. CASE ~vault[v].checked /\ vault'[v].why = "stale"
            <4>1. index[v].stale
                BY <1>1, <1>3, <1>7, <3>4 DEF VaultInv, ReadsIndex
            <4>2. feedEpoch = 1
                BY <4>1, OrphanEarly
            <4>3. index[v].built
                BY <1>3, <3>4 DEF Beside
            <4> QED BY <1>3, <1>10, <3>1, <3>4, <4>2, <4>3
        <3>5. CASE ~vault[v].checked /\ vault'[v].why \notin {"", "stale"}
            BY <1>3, <3>1, <3>5
        <3> QED BY <3>2, <3>3, <3>4, <3>5
    <2> QED BY <1>1, <1>2, <1>4, <1>6, <2>1 DEF VaultInv, VaultBound, Elsewhere
<1>13. PageInv(v)' /\ DiskInv(v)'
    BY <1>1, <1>2, <1>4, <1>5, <1>6 DEF VaultInv, PageInv, Excused, DiskInv, Elsewhere
<1>14. \A r \in Res : Kept(v, r)' = Kept(v, r)
    BY <1>2, <1>4, <1>6 DEF Kept, Elsewhere
<1>15. IndexInv(v)'
    <2> SUFFICES ASSUME Alive(v), Good(v)
                 PROVE  IndexInv(v)'
        BY <1>5, <1>6 DEF IndexInv
    <2>1. index[v].built /\ index[v].epoch = epoch /\ ~index[v].stale
        BY <1>7, GoodServes
    <2>2. vault'[v].applied = index[v].seq
        <3>1. CASE vault[v].checked
            BY <1>1, <1>2, <1>7, <3>1 DEF VaultInv, IndexInv
        <3>2. CASE ~vault[v].checked
            <4>1. vault'[v].why \in InPlace \cup Beside \cup {""}
                BY <1>2, StoreTypes DEF Works, VaultState, TypeOK, StoreType
            <4>2. vault'[v].why \notin InPlace /\ vault'[v].why # "stale" /\ vault'[v].why # "epoch"
                BY <1>2, <1>4, <1>7, <1>9, <2>1 DEF ReadsIndex, Elsewhere
            <4>3. vault'[v].why = ""
                BY <4>1, <4>2 DEF Beside
            <4> QED BY <1>3, <3>2, <4>3
        <3> QED BY <3>1, <3>2
    <2>3. Had(v)' = Had(v)
        BY <1>2, <1>4 DEF Had, Elsewhere
    <2> QED BY <1>1, <1>2, <1>4, <1>5, <1>6, <1>14, <2>2, <2>3 DEF VaultInv, IndexInv, Elsewhere
<1>16. BuildInv(v)'
    <2>1. build[v].on => vault'[v].applied = vault[v].applied
        <3>1. build[v].on /\ ~vault[v].checked => vault[v].why = "epoch"
            BY <1>1, <1>2 DEF VaultInv, TakenIn
        <3> QED BY <1>2, <1>3, <3>1
    <2> QED BY <1>1, <1>2, <1>4, <1>6, <1>14, <2>1 DEF VaultInv, BuildInv, Elsewhere
<1> QED BY <1>2, <1>8, <1>9, <1>11, <1>12, <1>13, <1>15, <1>16, StoreLift DEF VaultInv

\* What is built again has nothing to lose, and all to read.
LEMMA BuildStartKeeps ==
    ASSUME IInv, NEW v \in Vault, BuildStart(v), Here
    PROVE  IInv'
<1>1. TypeOK /\ VaultInv(v) /\ MainBound /\ ShardOf[v] \in Shard
    BY StoreTypes DEF IInv, GlobalInv
<1>2. /\ Works(v) /\ Working(v) /\ vault[v].why # "" /\ ~build[v].on
      /\ vault[v].checked \/ vault[v].why = "epoch"
      /\ live'[v] = live[v] /\ carried'[v] = carried[v]
      /\ vault'[v].owned = vault[v].owned /\ vault'[v].leaving = vault[v].leaving
      /\ vault'[v].checked = vault[v].checked /\ vault'[v].queued = vault[v].queued
      /\ vault'[v].why = vault[v].why /\ vault'[v].seen = vault[v].seen
      /\ vault'[v].applied = vault[v].applied
      /\ \A r \in Res : vault'[v].pending[r] \in {0, vault[v].pending[r]}
      /\ build'[v].on /\ build'[v].place = (vault[v].why \in InPlace)
      /\ build'[v].from = feedPos[ShardOf[v]] /\ build'[v].left = Res
      /\ vault[v].why \notin InPlace => index'[v] = index[v]
      /\ vault[v].why \in InPlace =>
           /\ ~index'[v].built /\ index'[v].seq = 0 /\ index'[v].epoch = NoEpoch
           /\ index'[v].stale = index[v].stale
    <2> DEFINE i == [NoIndex EXCEPT !.there = TRUE, !.stale = index[v].stale]
    <2>1. ~i.built /\ i.seq = 0 /\ i.epoch = NoEpoch /\ i.stale = index[v].stale
        BY DEF NoIndex
    <2> HIDE DEF i
    <2>2. vault[v].why \in InPlace => index'[v] = i
        BY <1>1, BuildStartFacts DEF i
    <2> QED BY <1>1, <2>1, <2>2, BuildStartFacts
<1>3. Elsewhere
    BY <1>2 DEF Works
<1>4. vault[v].owned /\ ~(ShardOf[v] \notin up \/ epoch = NoEpoch)
    BY <1>1, <1>2, Blank DEF VaultInv, TakenIn, Working
<1>5. ~Good(v)'
    <2>1. ~Good(v)
        BY <1>2, <1>4, GoodServes
    <2> QED BY <1>2, <1>3, <2>1 DEF Good, Doomed, Elsewhere
<1>6. Alive(v)' = Alive(v) /\ Shown' = Shown
    BY <1>2, WorksMain
<1>7. OrphanInv(v)' /\ ListInv(v)'
    <2>1. index'[v].stale = index[v].stale
        BY <1>2
    <2>2. v \in owned
        BY <1>1, <1>4 DEF VaultInv, TakenIn
    <2>3. ~(v \in home /\ listing.on /\ v \notin listing.ids \cup listing.seen)
        BY <1>1, <2>2 DEF VaultInv, ListInv
    <2>4. vault'[v].owned
        BY <1>2, <1>4
    <2>5. ListInv(v)'
        BY <1>3, <1>5, <2>2, <2>3, <2>4 DEF ListInv, Elsewhere
    <2> QED BY <1>1, <1>2, <1>3, <2>1, <2>5 DEF VaultInv, OrphanInv, Elsewhere
<1>8. ReadsIndex(v)'
    <2>1. CASE vault[v].why \in InPlace
        <3>1. ~live[v].on
            BY <1>1, <1>4, <2>1 DEF VaultInv, ReadsIndex
        <3>2. 0 <= feedEpoch /\ 0 <= epoch /\ 0 <= poll.epoch /\ NoEpoch = 0
            BY <1>1, MainNumbers
        <3>3. vault[v].why \notin Beside /\ vault[v].why # "stale" /\ vault[v].why # "epoch"
            BY <2>1 DEF InPlace, Beside
        <3> QED BY <1>2, <1>3, <2>1, <3>1, <3>2, <3>3 DEF ReadsIndex, Elsewhere
    <2>2. CASE vault[v].why \notin InPlace
        BY <1>1, <1>2, <1>3, <2>2 DEF VaultInv, ReadsIndex, Elsewhere
    <2> QED BY <2>1, <2>2
<1>9. TakenIn(v)'
    <2>1. feedEpoch = 1 => vault[v].why # "epoch" /\ ~(vault[v].checked /\ vault[v].queued)
        BY <1>1 DEF VaultInv, TakenIn
    <2>2. /\ vault[v].owned => v \in owned
          /\ vault[v].owned /\ v \in home => vault[v].checked \/ vault[v].queued
          /\ vault[v].owned /\ vault[v].leaving /\ Alive(v) => v \notin home \cup Shown
        BY <1>1 DEF VaultInv, TakenIn
    <2> QED BY <1>2, <1>3, <1>4, <1>6, <2>1, <2>2 DEF TakenIn, Elsewhere
<1>10. VaultBound(v)'
    <2>1. epoch = feedEpoch => build'[v].from <= top
        BY <1>1, <1>2 DEF MainBound
    <2>2. index'[v].epoch = feedEpoch => index'[v].seq <= top
        <3>1. feedEpoch # NoEpoch
            BY <1>1, MainNumbers
        <3> QED BY <1>1, <1>2, <3>1 DEF VaultInv, VaultBound
    <2>3. \A r \in Res : 0 <= row[v][r]
        BY <1>1, Numbers
    <2> QED BY <1>1, <1>2, <1>3, <1>6, <2>1, <2>2, <2>3 DEF VaultInv, VaultBound, Elsewhere
<1>11. PageInv(v)' /\ DiskInv(v)' /\ IndexInv(v)' /\ BuildInv(v)'
    BY <1>2, <1>5 DEF PageInv, Excused, DiskInv, IndexInv, BuildInv
<1> QED BY <1>2, <1>7, <1>8, <1>9, <1>10, <1>11, StoreLift DEF VaultInv

\* The sequence written is below every change that the index has not got.
LEMMA LiveWriteKeeps ==
    ASSUME IInv, NEW v \in Vault, LiveWrite(v), Here
    PROVE  IInv'
<1> DEFINE work == live[v].work
           got == live[v].got
<1>1. TypeOK /\ VaultInv(v) /\ MainInv
    BY DEF IInv, GlobalInv
<1>2. /\ Works(v) /\ ShardOf[v] \in up /\ live[v].on
      /\ vault'[v].owned = vault[v].owned /\ vault'[v].leaving = vault[v].leaving
      /\ vault'[v].checked = vault[v].checked /\ vault'[v].queued = vault[v].queued
      /\ vault'[v].why = vault[v].why /\ vault'[v].seen = vault[v].seen
      /\ index'[v].there = index[v].there /\ index'[v].built = index[v].built
      /\ index'[v].epoch = index[v].epoch /\ index'[v].stale = index[v].stale
      /\ index'[v].fresh = (index[v].fresh \ Waiting(work)) \cup got
      /\ carried'[v] = carried[v] \ got
      /\ ~live'[v].on
      /\ build'[v].on = build[v].on /\ build'[v].place = build[v].place
      /\ build'[v].from = build[v].from /\ build'[v].left = build[v].left
      /\ build'[v].got = build[v].got
      /\ build'[v].replay = IF build[v].on /\ ~build[v].place
                            THEN build[v].replay \cup Waiting(work) ELSE build[v].replay
      /\ \A r \in Res : \/ vault'[v].pending[r] = vault[v].pending[r]
                        \/ /\ vault'[v].pending[r] = 0 /\ work[r] # 0
                           /\ vault[v].pending[r] = work[r]
    BY <1>1, LiveWriteFacts
<1>3. PICK q \in Seq0 :
         /\ q = 0 \/ q <= vault[v].seen
         /\ \A r \in Res : vault'[v].pending[r] # 0 => q < vault'[v].pending[r]
         /\ vault'[v].applied = Larger(vault[v].applied, q)
         /\ index'[v].seq = IF q > vault[v].applied THEN q ELSE index[v].seq
    BY <1>1, LiveWriteFacts
<1>4. Elsewhere /\ q \in Nat
    BY <1>2, Constants DEF Works
<1>5. Good(v)' = Good(v)
    BY <1>2, GoodStays
<1>6. /\ Alive(v)' = Alive(v) /\ Current' = Current /\ Back' = Back /\ Shown' = Shown /\ Fed(v)' = Fed(v)
      /\ \A r \in Res : /\ Unsaved(v, r)' = Unsaved(v, r) /\ InPage(v, r)' = InPage(v, r)
                        /\ ToCome(v, r)' = ToCome(v, r)
    BY <1>2, WorksMain
<1>7. index[v].built /\ vault[v].owned
    BY <1>1, <1>2 DEF VaultInv, ReadsIndex, TakenIn
<1>8. ~(ShardOf[v] \notin up \/ epoch = NoEpoch)
    BY <1>1, <1>7, Blank DEF VaultInv, TakenIn
<1> HIDE DEF work, got
<1>9. OrphanInv(v)' /\ ListInv(v)'
    BY <1>1, <1>2, <1>4, <1>5 DEF VaultInv, OrphanInv, ListInv, Elsewhere
<1>10. ReadsIndex(v)'
    BY <1>1, <1>2, <1>4, <1>7 DEF VaultInv, ReadsIndex, Elsewhere
<1>11. TakenIn(v)'
    BY <1>1, <1>2, <1>4, <1>6, <1>8 DEF VaultInv, TakenIn, Elsewhere
<1>12. VaultBound(v)'
    <2>1. epoch = feedEpoch => q <= top
        <3>1. epoch = feedEpoch => vault[v].seen <= top
            BY <1>1 DEF VaultInv, VaultBound
        <3> QED BY <1>1, <1>3, <1>4, <3>1, Numbers, MainNumbers
    <2>2. epoch = feedEpoch => vault'[v].applied <= top
        BY <1>1, <1>3, <2>1 DEF Larger, VaultInv, VaultBound
    <2>3. index[v].epoch = feedEpoch => epoch = feedEpoch
        <3>1. index[v].epoch <= epoch /\ epoch <= feedEpoch
            BY <1>1, <1>8 DEF VaultInv, ReadsIndex, MainInv
        <3> QED BY <1>1, <3>1, Numbers, MainNumbers
    <2>4. index'[v].epoch = feedEpoch => index'[v].seq <= top
        BY <1>1, <1>2, <1>3, <2>1, <2>3 DEF VaultInv, VaultBound
    <2>5. \A r \in Res : vault'[v].pending[r] = vault[v].pending[r] \/ vault'[v].pending[r] = 0
        BY <1>2
    <2>6. \A r \in Res : 0 <= row[v][r]
        BY <1>1, Numbers
    <2> QED BY <1>1, <1>2, <1>4, <1>6, <2>2, <2>4, <2>5, <2>6 DEF VaultInv, VaultBound, Elsewhere
<1>13. Alive(v) /\ Good(v) =>
          /\ \A r \in Res : work[r] # 0 /\ r \notin got => r \notin index[v].fresh /\ row[v][r] > work[r]
          /\ index[v].fresh \subseteq index'[v].fresh
          /\ \A r \in Res \ Had(v) : row[v][r] > index[v].seq /\ Kept(v, r)
          /\ vault[v].checked => vault[v].applied = index[v].seq
    <2> SUFFICES ASSUME Alive(v), Good(v)
                 PROVE  /\ \A r \in Res : work[r] # 0 /\ r \notin got =>
                                r \notin index[v].fresh /\ row[v][r] > work[r]
                        /\ index[v].fresh \subseteq index'[v].fresh
                        /\ \A r \in Res \ Had(v) : row[v][r] > index[v].seq /\ Kept(v, r)
                        /\ vault[v].checked => vault[v].applied = index[v].seq
        OBVIOUS
    <2>1. /\ \A r \in Res : work[r] # 0 /\ r \notin got => r \notin index[v].fresh /\ row[v][r] > work[r]
          /\ \A r \in Res \ Had(v) : row[v][r] > index[v].seq /\ Kept(v, r)
          /\ vault[v].checked => vault[v].applied = index[v].seq
        BY <1>1, <1>2, <1>7 DEF VaultInv, IndexInv, work, got
    <2>2. index[v].fresh \subseteq Res
        BY <1>1, StoreTypes DEF IndexState
    <2>3. index[v].fresh \subseteq index'[v].fresh
        BY <1>2, <2>1, <2>2 DEF Waiting
    <2> QED BY <2>1, <2>3
<1>14. ASSUME NEW r \in Res, Kept(v, r), row[v][r] # 0, ~(work[r] # 0 /\ row[v][r] = work[r])
       PROVE  Kept(v, r)' /\ q < row[v][r]
    <2>1. row[v][r] \in Nat /\ vault[v].seen \in Nat
        BY <1>1, Numbers
    <2>2. CASE row[v][r] <= vault[v].seen
        <3>1. vault[v].pending[r] = row[v][r]
            BY <1>14, <2>2 DEF Kept
        <3>2. vault'[v].pending[r] = row[v][r]
            BY <1>2, <1>14, <3>1
        <3>3. ~(row[v][r] > vault[v].seen)
            BY <2>1, <2>2
        <3> QED BY <1>2, <1>3, <1>4, <1>14, <3>2, <3>3 DEF Kept, Elsewhere
    <2>3. CASE ~(row[v][r] <= vault[v].seen)
        <3>1. row[v][r] > vault[v].seen
            BY <2>1, <2>3
        <3>2. ToCome(v, r)
            BY <1>14, <3>1 DEF Kept
        <3>3. q < row[v][r]
            BY <1>3, <1>4, <2>1, <3>1
        <3> QED BY <1>2, <1>4, <1>6, <2>3, <3>2, <3>3 DEF Kept, Elsewhere
    <2> QED BY <2>2, <2>3
<1>15. ASSUME Alive(v), Good(v), NEW r \in Res \ Had(v), r \notin index'[v].fresh
       PROVE  row[v][r] > index'[v].seq /\ Kept(v, r)'
    <2>1. row[v][r] > index[v].seq /\ Kept(v, r) /\ r \notin got
        BY <1>2, <1>13, <1>15
    <2>2. row[v][r] \in Nat /\ index[v].seq \in Nat /\ work[r] \in Nat
        BY <1>1, Numbers DEF work
    <2>3. row[v][r] # 0 /\ ~(work[r] # 0 /\ row[v][r] = work[r])
        <3>1. work[r] # 0 => row[v][r] > work[r]
            BY <1>13, <1>15, <2>1
        <3> QED BY <2>1, <2>2, <3>1
    <2>4. Kept(v, r)' /\ q < row[v][r]
        BY <1>14, <2>1, <2>3
    <2>5. row[v][r] > q
        BY <1>4, <2>2, <2>4
    <2> QED BY <1>3, <2>1, <2>4, <2>5
<1>16. PageInv(v)'
    <2>1. \A r \in Res : Alive(v) /\ Excused(v, r) => Excused(v, r)'
        BY <1>2, <1>5, <1>13 DEF Excused
    <2> QED BY <1>1, <1>4, <1>6, <2>1 DEF VaultInv, PageInv, Elsewhere
<1>17. DiskInv(v)'
    <2> SUFFICES ASSUME Alive(v), Good(v), NEW r \in Res, r \notin index'[v].fresh, r \notin carried'[v]
                 PROVE  /\ (row[v][r])' > index'[v].seq
                        /\ Fed(v)' => /\ (saved.epoch = feedEpoch => row[v][r] > saved.cursor)'
                                      /\ Current' => (row[v][r] > persisted /\ (save.on => row[v][r] > save.safe))'
                                      /\ vault'[v].leaving => (row[v][r])' > Back'
        BY <1>5, <1>6 DEF DiskInv
    <2>1. r \in Res \ (index[v].fresh \cup carried[v])
        BY <1>2, <1>13
    <2>2. r \in Res \ Had(v)
        BY <2>1 DEF Had
    <2>3. row[v][r] > index'[v].seq
        BY <1>15, <2>2
    <2>4. Fed(v) => /\ saved.epoch = feedEpoch => row[v][r] > saved.cursor
                    /\ Current => row[v][r] > persisted /\ (save.on => row[v][r] > save.safe)
                    /\ vault[v].leaving => row[v][r] > Back
        BY <1>1, <2>1 DEF VaultInv, DiskInv
    <2> QED BY <1>2, <1>4, <1>6, <2>3, <2>4 DEF Elsewhere
<1>18. IndexInv(v)'
    <2> SUFFICES ASSUME Alive(v), Good(v)
                 PROVE  IndexInv(v)'
        BY <1>5, <1>6 DEF IndexInv
    <2>1. vault[v].checked => vault'[v].applied = index'[v].seq
        <3>1. vault[v].checked => vault[v].applied = index[v].seq
            BY <1>13
        <3>2. vault[v].applied \in Nat
            BY <1>1, Numbers
        <3> QED BY <1>3, <1>4, <3>1, <3>2 DEF Larger
    <2>2. Had(v) \cap Res \subseteq Had(v)' /\ index'[v].fresh \subseteq Had(v)'
        BY <1>2, <1>4, <1>13 DEF Had, Elsewhere
    <2>3. \A r \in (Res \ Had(v))' : row[v][r] > index'[v].seq /\ Kept(v, r)'
        BY <1>15, <2>2
    <2> QED BY <1>2, <1>4, <2>1, <2>3 DEF IndexInv, Elsewhere
<1>19. BuildInv(v)'
    <2> SUFFICES ASSUME Alive(v), build[v].on, epoch = feedEpoch, NEW r \in Res,
                        r \notin build'[v].left \cup build'[v].got \cup build'[v].replay
                 PROVE  row[v][r] > build'[v].from /\ row[v][r] > vault'[v].applied /\ Kept(v, r)'
        BY <1>2, <1>4, <1>6 DEF BuildInv, Elsewhere
    <2>1. ~build[v].place
        BY <1>1, <1>7 DEF VaultInv, ReadsIndex
    <2>2. r \notin build[v].left \cup build[v].got \cup build[v].replay /\ work[r] = 0
        BY <1>2, <2>1 DEF Waiting
    <2>3. row[v][r] > build[v].from /\ row[v][r] > vault[v].applied /\ Kept(v, r)
        BY <1>1, <2>2 DEF VaultInv, BuildInv
    <2>4. row[v][r] \in Nat /\ vault[v].applied \in Nat /\ row[v][r] # 0
        BY <1>1, <2>3, Numbers
    <2>5. Kept(v, r)' /\ q < row[v][r]
        BY <1>14, <2>2, <2>3, <2>4
    <2>6. row[v][r] > vault'[v].applied
        BY <1>3, <1>4, <2>3, <2>4, <2>5 DEF Larger
    <2> QED BY <1>2, <2>3, <2>5, <2>6
<1> QED BY <1>2, <1>9, <1>10, <1>11, <1>12, <1>16, <1>17, <1>18, <1>19, StoreLift DEF VaultInv

\* What the build has neither read nor left waiting comes after the position saved.
LEMMA BuildEndKeeps ==
    ASSUME IInv, NEW v \in Vault, BuildEnd(v), Here
    PROVE  IInv'
<1> DEFINE b == build[v]
<1>1. TypeOK /\ VaultInv(v) /\ MainInv /\ ShardInv /\ ShardOf[v] \in Shard
    BY StoreTypes DEF IInv, GlobalInv
<1>2. /\ Works(v) /\ Working(v) /\ build[v].on /\ build[v].left = {} /\ ~live[v].on
      /\ live'[v] = live[v] /\ carried'[v] = Waiting(vault[v].pending)
      /\ ~build'[v].on /\ build'[v].left = {}
      /\ vault'[v].owned = vault[v].owned /\ vault'[v].leaving = vault[v].leaving
      /\ vault'[v].queued = vault[v].queued /\ vault'[v].pending = vault[v].pending
      /\ vault'[v].seen = vault[v].seen /\ vault'[v].checked /\ vault'[v].why = ""
      /\ index'[v].there /\ index'[v].built /\ ~index'[v].stale
      /\ index'[v].fresh = build[v].got \cup build[v].replay
      /\ vault'[v].applied = index'[v].seq
      /\ index'[v].seq <= build[v].from \/ index'[v].seq <= vault[v].seen
      /\ \A r \in Waiting(vault[v].pending) :
           build[v].from < vault[v].pending[r] => index'[v].seq < vault[v].pending[r]
    BY <1>1, BuildEndFacts, Blank
<1>3. index'[v].epoch = epoch
    <2>1. index'[v].epoch = know[ShardOf[v]]
        BY <1>1, BuildEndFacts
    <2>2. know[ShardOf[v]] = epoch
        BY <1>1, <1>2 DEF ShardInv, Working
    <2> QED BY <2>1, <2>2
<1>4. Elsewhere
    BY <1>2 DEF Works
<1>5. vault[v].owned /\ v \in owned /\ ~(ShardOf[v] \notin up \/ epoch = NoEpoch)
    BY <1>1, <1>2, Blank DEF VaultInv, TakenIn, Working
<1>6. /\ Alive(v)' = Alive(v) /\ Current' = Current /\ Back' = Back /\ Shown' = Shown /\ Fed(v)' = Fed(v)
      /\ \A r \in Res : /\ Unsaved(v, r)' = Unsaved(v, r) /\ InPage(v, r)' = InPage(v, r)
                        /\ ToCome(v, r)' = ToCome(v, r)
    BY <1>2, WorksMain
<1>7. Good(v)' => epoch = feedEpoch
    BY <1>2, <1>3, <1>4 DEF Good, Doomed, Elsewhere
<1>8. index'[v].seq \in Nat /\ build[v].from \in Nat /\ vault[v].seen \in Nat /\ \A r \in Res : row[v][r] \in Nat
    <2>1. TypeOK'
        BY <1>2 DEF Works
    <2>2. index'[v].seq \in Seq0
        BY <2>1 DEF TypeOK, StoreType
    <2> QED BY <1>1, <2>2, Numbers, Constants
<1>9. OrphanInv(v)' /\ ListInv(v)'
    <2>1. OrphanInv(v)'
        BY <1>1, <1>2, <1>4 DEF VaultInv, OrphanInv, Elsewhere
    <2>2. v \in home /\ listing.on => v \in listing.ids \cup listing.seen
        BY <1>1, <1>5 DEF VaultInv, ListInv
    <2>3. ListInv(v)'
        BY <1>2, <1>4, <1>5, <2>2 DEF ListInv, Elsewhere
    <2> QED BY <2>1, <2>3
<1>10. ReadsIndex(v)'
    <2>1. epoch <= feedEpoch /\ (poll.on => epoch <= poll.epoch)
        BY <1>1, <1>5 DEF MainInv, Known
    <2>2. epoch <= epoch
        BY <1>1, MainNumbers
    <2>3. "" \notin Beside /\ "" \notin InPlace
        BY DEF Beside, InPlace
    <2> QED BY <1>2, <1>3, <1>4, <1>5, <2>1, <2>2, <2>3 DEF ReadsIndex, Elsewhere
<1>11. TakenIn(v)'
    <2>1. feedEpoch = 1 => ~vault[v].queued
        BY <1>1, <1>2 DEF VaultInv, TakenIn
    <2>2. vault[v].leaving /\ Alive(v) => v \notin home \cup Shown
        BY <1>1, <1>5 DEF VaultInv, TakenIn
    <2> QED BY <1>2, <1>4, <1>5, <1>6, <2>1, <2>2 DEF TakenIn, Elsewhere
<1>12. VaultBound(v)'
    <2>1. epoch = feedEpoch => vault[v].seen <= top /\ build[v].from <= top
        BY <1>1, <1>2 DEF VaultInv, VaultBound
    <2>2. epoch = feedEpoch => index'[v].seq <= top
        <3>1. index'[v].seq <= build[v].from \/ index'[v].seq <= vault[v].seen
            BY <1>2
        <3>2. top \in Nat
            BY <1>1, MainNumbers
        <3> QED BY <1>8, <2>1, <3>1, <3>2
    <2> QED BY <1>1, <1>2, <1>3, <1>4, <1>6, <2>2 DEF VaultInv, VaultBound, Elsewhere
<1>13. PageInv(v)'
    <2>1. \A r \in Res : Excused(v, r) => Excused(v, r)'
        BY <1>2 DEF Excused
    <2> QED BY <1>1, <1>4, <1>6, <2>1 DEF VaultInv, PageInv, Elsewhere
<1>14. ASSUME Alive(v), epoch = feedEpoch, NEW r \in Res \ (build[v].got \cup build[v].replay)
       PROVE  row[v][r] > index'[v].seq /\ Kept(v, r) /\ row[v][r] # 0
    <2>1. row[v][r] > build[v].from /\ Kept(v, r)
        BY <1>1, <1>2, <1>14 DEF VaultInv, BuildInv
    <2>2. CASE row[v][r] <= vault[v].seen
        <3>1. vault[v].pending[r] = row[v][r] /\ row[v][r] # 0 /\ build[v].from < row[v][r]
            BY <1>8, <2>1, <2>2 DEF Kept
        <3>2. index'[v].seq < row[v][r]
            BY <1>2, <3>1 DEF Waiting
        <3> QED BY <1>8, <2>1, <3>1, <3>2
    <2>3. CASE ~(row[v][r] <= vault[v].seen)
        <3>1. index'[v].seq <= build[v].from \/ index'[v].seq <= vault[v].seen
            BY <1>2
        <3> QED BY <1>8, <2>1, <2>3, <3>1
    <2> QED BY <2>2, <2>3
<1>15. DiskInv(v)'
    <2> SUFFICES ASSUME Alive(v), Good(v)', NEW r \in Res, r \notin index'[v].fresh, r \notin carried'[v]
                 PROVE  /\ (row[v][r])' > index'[v].seq
                        /\ Fed(v)' => /\ (saved.epoch = feedEpoch => row[v][r] > saved.cursor)'
                                      /\ Current' => (row[v][r] > persisted /\ (save.on => row[v][r] > save.safe))'
                                      /\ vault'[v].leaving => (row[v][r])' > Back'
        BY <1>6 DEF DiskInv
    <2>1. row[v][r] > index'[v].seq /\ Kept(v, r) /\ row[v][r] # 0
        BY <1>2, <1>7, <1>14
    <2>2. ToCome(v, r)
        <3>1. vault[v].pending[r] = 0
            BY <1>2 DEF Waiting
        <3>2. row[v][r] > vault[v].seen
            BY <1>8, <2>1, <3>1 DEF Kept
        <3> QED BY <2>1, <3>2 DEF Kept
    <2> QED BY <1>4, <1>6, <2>1, <2>2 DEF Elsewhere, ToCome, Unsaved
<1>16. \A r \in Res : Kept(v, r)' = Kept(v, r)
    BY <1>2, <1>4, <1>6 DEF Kept, Elsewhere
<1>17. IndexInv(v)'
    <2> SUFFICES ASSUME Alive(v), Good(v)'
                 PROVE  IndexInv(v)'
        BY <1>6 DEF IndexInv
    <2>1. index'[v].fresh \subseteq Had(v)'
        BY DEF Had
    <2>2. \A r \in (Res \ Had(v))' : row[v][r] > index'[v].seq /\ Kept(v, r)'
        BY <1>2, <1>7, <1>14, <1>16, <2>1
    <2> QED BY <1>2, <1>4, <2>2 DEF IndexInv, Elsewhere
<1>18. BuildInv(v)'
    BY <1>2 DEF BuildInv
<1> QED BY <1>2, <1>9, <1>10, <1>11, <1>12, <1>13, <1>15, <1>17, <1>18, StoreLift DEF VaultInv
-----------------------------------------------------------------------------
(* What the backend does keeps the invariant.                               *)

\* No position of the feed's epoch is beyond the feed.
LEMMA Positions ==
    ASSUME TypeOK, GlobalInv
    PROVE  /\ Current => /\ cursor <= top /\ persisted <= top /\ (save.on => save.safe <= top)
                         /\ Back <= top /\ Back \in Nat
           /\ saved.epoch = feedEpoch => saved.cursor <= top
<1>1. MainBound /\ MainInv
    BY DEF GlobalInv
<1>2. saved.epoch = feedEpoch => saved.cursor <= top
    BY <1>1 DEF MainBound
<1>3. Current => cursor <= top /\ persisted <= top /\ (save.on => save.safe <= top)
    <2>1. CASE epoch = NoEpoch
        <3>1. cursor = saved.cursor /\ persisted = saved.cursor /\ ~save.on
            BY <1>1, <2>1 DEF MainInv
        <3>2. saved.epoch = NoEpoch => saved.cursor = 0
            BY <1>1 DEF MainInv
        <3>3. Current => saved.epoch \in {NoEpoch, feedEpoch}
            BY <2>1 DEF Current, Known
        <3>4. 0 <= top
            BY MainNumbers
        <3> QED BY <1>2, <3>1, <3>2, <3>3, <3>4
    <2>2. CASE epoch # NoEpoch
        <3>1. Current => epoch = feedEpoch
            BY <2>2 DEF Current, Known
        <3> QED BY <1>1, <3>1 DEF MainBound
    <2> QED BY <2>1, <2>2
<1>4. Back \in Nat /\ Back <= cursor
    BY MainNumbers DEF Back, Smaller
<1> QED BY <1>2, <1>3, <1>4, MainNumbers

LEMMA EditKeeps ==
    ASSUME IInv, NEW v \in Vault, NEW r \in Res, Edit(v, r)
    PROVE  IInv'
<1>1. TypeOK /\ GlobalInv /\ VaultInv(v) /\ RowInv /\ FeedInv /\ MainInv /\ ShardInv /\ MainBound /\ PageBound
    BY DEF IInv, GlobalInv
<1>2. TypeOK' /\ top' = top + 1 /\ top \in Nat
    BY <1>1, EditTypes, MainNumbers
<1>3. /\ Alive(v) /\ UNCHANGED <<feedEpoch, home, up, know, feedPos, vault, saved, epoch, cursor, persisted,
                                 rewindTo, owned, listed, listing, poll, save, crashes, moves>>
      /\ Outdate(v, {r})
    BY DEF Edit, Alive, main
<1>4. /\ \A w \in Vault \ {v} : row'[w] = row[w]
      /\ \A q \in Res \cup {Gone} : row'[v][q] = IF q = r THEN top + 1 ELSE row[v][q]
      /\ r # Gone
    BY <1>1, EditRows, Constants
<1>5. \A w \in Vault : Alive(w)' = Alive(w)
    BY <1>4 DEF Alive
<1>6. \A w \in Vault : \A q \in Res \cup {Gone} : row[w][q] \in Nat /\ row[w][q] <= top
    BY <1>1, Numbers DEF RowInv
<1>7. RowInv'
    BY <1>1, EditRows
<1>8. FeedInv' /\ MainInv' /\ ShardInv'
    <2>1. FeedInv'
        <3>1. home \subseteq Vault
            BY <1>1 DEF TypeOK
        <3> QED BY <1>1, <1>3, <1>5, <3>1 DEF FeedInv
    <2>2. \A c \in poll.changes : c.v \in Vault
        BY <1>1, MainNumbers
    <2>3. MainInv'
        BY <1>1, <1>3, <1>5, <2>2 DEF MainInv, Known
    <2>4. ShardInv'
        BY <1>1, <1>3 DEF ShardInv
    <2> QED BY <2>1, <2>3, <2>4
<1>9. \A n \in Nat : n <= top => n <= top' /\ n < top + 1
    BY <1>2
<1>10. MainBound'
    BY <1>1, <1>3, <1>9, MainNumbers DEF MainBound
<1>11. PageBound'
    <2>1. \A w \in Vault : \A q \in Res \cup {Gone} : \A n \in Nat : n <= row[w][q] => n <= row'[w][q]
        BY <1>4, <1>6, <1>2
    <2>2. poll.last \in Nat /\ \A c \in poll.changes : c.v \in Vault /\ c.r \in Res \cup {Gone} /\ c.seq \in Nat
        BY <1>1, MainNumbers
    <2>3. Current' = Current
        BY <1>3 DEF Current, Known
    <2> QED BY <1>1, <1>3, <1>5, <1>9, <2>1, <2>2, <2>3 DEF PageBound
<1>12. ASSUME NEW w \in Vault \ {v}
       PROVE  VaultInv(w)'
    <2>1. /\ index'[w] = index[w] /\ live'[w] = live[w] /\ build'[w] = build[w] /\ carried'[w] = carried[w]
        BY <1>1, <1>3, OutdateFacts
    <2>2. top' >= top /\ moves' >= moves
        BY <1>1, <1>2, <1>3, MainNumbers
    <2>3. Same(w)
        BY <1>3, <1>4, <2>1, <2>2 DEF Same
    <2>4. VaultInv(w)
        BY DEF IInv
    <2> QED BY <1>1, <1>2, <2>3, <2>4, VaultFrame
<1>13. /\ index'[v].there = index[v].there /\ index'[v].built = index[v].built
       /\ index'[v].epoch = index[v].epoch /\ index'[v].seq = index[v].seq
       /\ index'[v].stale = index[v].stale /\ index'[v].fresh = index[v].fresh \ {r}
       /\ live'[v].on = live[v].on /\ live'[v].work = live[v].work /\ live'[v].got = live[v].got \ {r}
       /\ build'[v].on = build[v].on /\ build'[v].place = build[v].place /\ build'[v].from = build[v].from
       /\ build'[v].left = build[v].left /\ build'[v].replay = build[v].replay
       /\ build'[v].got = build[v].got \ {r}
       /\ carried'[v] = carried[v] \ {r}
    <2>1. /\ index'[v] = [index[v] EXCEPT !.fresh = index[v].fresh \ {r}]
          /\ live'[v] = [live[v] EXCEPT !.got = live[v].got \ {r}]
          /\ build'[v] = [build[v] EXCEPT !.got = build[v].got \ {r}]
          /\ carried'[v] = carried[v] \ {r}
        BY <1>1, <1>3, OutdateFacts
    <2>2. index[v] \in IndexState /\ live[v] \in UnitState /\ build[v] \in BuildState
        BY <1>1, StoreTypes
    <2>3. /\ index'[v].there = index[v].there /\ index'[v].built = index[v].built
          /\ index'[v].epoch = index[v].epoch /\ index'[v].seq = index[v].seq
          /\ index'[v].stale = index[v].stale /\ index'[v].fresh = index[v].fresh \ {r}
        BY <2>1, <2>2 DEF IndexState
    <2>4. live'[v].on = live[v].on /\ live'[v].work = live[v].work /\ live'[v].got = live[v].got \ {r}
        BY <2>1, <2>2 DEF UnitState
    <2>5. /\ build'[v].on = build[v].on /\ build'[v].place = build[v].place /\ build'[v].from = build[v].from
          /\ build'[v].left = build[v].left /\ build'[v].replay = build[v].replay
          /\ build'[v].got = build[v].got \ {r}
        BY <2>1, <2>2 DEF BuildState
    <2> QED BY <2>1, <2>3, <2>4, <2>5
<1>14. /\ Good(v)' = Good(v) /\ Current' = Current /\ Back' = Back /\ Shown' = Shown /\ Fed(v)' = Fed(v)
       /\ \A q \in Res \ {r} : row'[v][q] = row[v][q]
       /\ row'[v][r] = top + 1
    BY <1>3, <1>4, <1>13 DEF Good, Doomed, Current, Known, Back, Shown, Fed
<1>15. OrphanInv(v)' /\ ReadsIndex(v)' /\ TakenIn(v)' /\ ListInv(v)'
    <2>1. OrphanInv(v)' /\ ListInv(v)'
        BY <1>1, <1>3, <1>13, <1>14 DEF VaultInv, OrphanInv, ListInv
    <2>2. ReadsIndex(v)'
        BY <1>1, <1>3, <1>13 DEF VaultInv, ReadsIndex
    <2>3. TakenIn(v)'
        BY <1>1, <1>3, <1>5, <1>13, <1>14 DEF VaultInv, TakenIn
    <2> QED BY <2>1, <2>2, <2>3
<1>16. VaultBound(v)'
    <2>1. \A q \in Res : \A n \in Nat : n <= row[v][q] => n <= row'[v][q]
        BY <1>2, <1>6, <1>14
    <2> QED BY <1>1, <1>3, <1>5, <1>9, <1>13, <2>1, Numbers DEF VaultBound, VaultInv
<1>17. PageInv(v)'
    <2> SUFFICES ASSUME poll.on, poll.epoch = feedEpoch, Current, rewindTo = Nothing, v \in home \cup Shown,
                        NEW q \in Res, cursor < row'[v][q], row'[v][q] <= poll.last
                 PROVE  InPage(v, q)' \/ Excused(v, q)'
        BY <1>3, <1>14 DEF PageInv
    <2>1. q # r
        <3>1. poll.last <= top /\ poll.last \in Nat
            BY <1>1, MainNumbers DEF PageBound
        <3> QED BY <1>2, <1>14, <3>1
    <2>2. InPage(v, q) \/ Excused(v, q)
        BY <1>1, <1>3, <1>14, <2>1 DEF VaultInv, PageInv
    <2>3. InPage(v, q) => InPage(v, q)'
        BY <1>3, <1>14, <2>1 DEF InPage
    <2>4. Excused(v, q) => Excused(v, q)'
        BY <1>13, <1>14, <2>1 DEF Excused
    <2> QED BY <2>2, <2>3, <2>4
<1>18. Current => ToCome(v, r)'
    <2>1. /\ Current => /\ persisted <= top /\ (save.on => save.safe <= top)
                        /\ Back <= top /\ Back \in Nat
          /\ saved.epoch = feedEpoch => saved.cursor <= top
        BY <1>1, Positions
    <2>2. persisted \in Nat /\ save.safe \in Nat /\ saved.cursor \in Nat
        BY <1>1, MainNumbers
    <2> QED BY <1>2, <1>3, <1>14, <2>1, <2>2 DEF ToCome, Unsaved
<1>19. /\ \A q \in Res \ {r} : Kept(v, q) => Kept(v, q)'
       /\ epoch = feedEpoch => Kept(v, r)'
    <2>1. \A q \in Res \ {r} : Kept(v, q) => Kept(v, q)'
        BY <1>3, <1>14 DEF Kept, ToCome, Unsaved
    <2>2. epoch = feedEpoch => Kept(v, r)'
        <3> SUFFICES ASSUME epoch = feedEpoch
                     PROVE  Kept(v, r)'
            OBVIOUS
        <3>1. Current
            BY <1>1, MainNumbers DEF Current, Known
        <3>2. vault[v].seen <= top /\ vault[v].seen \in Nat
            BY <1>1, Numbers DEF VaultInv, VaultBound
        <3>3. ~(row'[v][r] <= vault'[v].seen)
            BY <1>2, <1>3, <1>14, <3>2
        <3> QED BY <1>18, <3>1, <3>3 DEF Kept
    <2> QED BY <2>1, <2>2
<1>20. Good(v) => index[v].seq < top + 1 /\ index[v].seq \in Nat
    <2>1. Good(v) => index[v].epoch = feedEpoch
        BY DEF Good, Doomed
    <2> QED BY <1>1, <1>9, <2>1, Numbers DEF VaultInv, VaultBound
<1>21. DiskInv(v)'
    <2> SUFFICES ASSUME Good(v), NEW q \in Res, q \notin index'[v].fresh, q \notin carried'[v]
                 PROVE  /\ row'[v][q] > index[v].seq
                        /\ Fed(v) => /\ saved.epoch = feedEpoch => row'[v][q] > saved.cursor
                                     /\ Current => row'[v][q] > persisted /\ (save.on => row'[v][q] > save.safe)
                                     /\ vault[v].leaving => row'[v][q] > Back
        BY <1>3, <1>5, <1>13, <1>14 DEF DiskInv
    <2>1. CASE q # r
        <3>1. q \in Res \ (index[v].fresh \cup carried[v])
            BY <1>13, <2>1
        <3> QED BY <1>1, <1>3, <1>14, <2>1, <3>1 DEF VaultInv, DiskInv
    <2>2. CASE q = r
        <3>1. /\ Current => /\ persisted <= top /\ (save.on => save.safe <= top)
                            /\ Back <= top /\ Back \in Nat
              /\ saved.epoch = feedEpoch => saved.cursor <= top
            BY <1>1, Positions
        <3>2. persisted \in Nat /\ save.safe \in Nat /\ saved.cursor \in Nat
            BY <1>1, MainNumbers
        <3>3. vault[v].leaving => Current
            <4>1. vault[v].leaving => epoch # NoEpoch
                BY <1>1, Blank DEF VaultInv, TakenIn
            <4> QED BY <4>1, GoodServes
        <3>4. row'[v][q] = top + 1
            BY <1>14, <2>2
        <3> QED BY <1>2, <1>20, <3>1, <3>2, <3>3, <3>4
    <2> QED BY <2>1, <2>2
<1>22. IndexInv(v)'
    <2> SUFFICES ASSUME Good(v), vault[v].owned
                 PROVE  IndexInv(v)'
        BY <1>3, <1>14 DEF IndexInv
    <2>1. epoch = feedEpoch
        BY GoodServes
    <2>2. /\ vault[v].checked => vault[v].applied = index[v].seq
          /\ \A q \in Res \ Had(v) : row[v][q] > index[v].seq /\ Kept(v, q)
          /\ live[v].on => \A q \in Res : live[v].work[q] # 0 =>
              /\ live[v].work[q] <= top
              /\ q \notin live[v].got => q \notin index[v].fresh /\ row[v][q] > live[v].work[q]
        BY <1>1, <1>3 DEF VaultInv, IndexInv
    <2>3. \A q \in Res \ {r} : q \notin Had(v)' => q \notin Had(v)
        BY <1>3, <1>13 DEF Had
    <2>4. ASSUME NEW q \in Res, q \notin Had(v)'
          PROVE  row'[v][q] > index'[v].seq /\ Kept(v, q)'
        <3>1. CASE q # r
            BY <1>13, <1>14, <1>19, <2>2, <2>3, <2>4, <3>1
        <3>2. CASE q = r
            BY <1>2, <1>13, <1>14, <1>19, <1>20, <2>1, <3>2
        <3> QED BY <3>1, <3>2
    <2>5. ASSUME live[v].on, NEW q \in Res, live[v].work[q] # 0
          PROVE  /\ live[v].work[q] <= top'
                 /\ q \notin live'[v].got => q \notin index'[v].fresh /\ row'[v][q] > live[v].work[q]
        <3>1. live[v].work[q] <= top /\ live[v].work[q] \in Nat
            BY <1>1, <2>2, <2>5, Numbers
        <3>2. live[v].work[q] <= top' /\ live[v].work[q] < top + 1
            BY <1>9, <3>1
        <3>3. CASE q # r
            BY <1>13, <1>14, <2>2, <2>5, <3>2, <3>3
        <3>4. CASE q = r
            BY <1>2, <1>13, <1>14, <3>1, <3>2, <3>4
        <3> QED BY <3>3, <3>4
    <2> QED BY <1>3, <1>13, <2>2, <2>4, <2>5 DEF IndexInv
<1>23. BuildInv(v)'
    <2> SUFFICES ASSUME build[v].on, epoch = feedEpoch, NEW q \in Res,
                        q \notin build'[v].left \cup build'[v].got \cup build'[v].replay
                 PROVE  row'[v][q] > build[v].from /\ row'[v][q] > vault[v].applied /\ Kept(v, q)'
        BY <1>3, <1>5, <1>13 DEF BuildInv
    <2>1. CASE q # r
        <3>1. q \notin build[v].left \cup build[v].got \cup build[v].replay
            BY <1>13, <2>1
        <3> QED BY <1>1, <1>3, <1>14, <1>19, <2>1, <3>1 DEF VaultInv, BuildInv
    <2>2. CASE q = r
        <3>1. build[v].from <= top /\ vault[v].applied <= top /\ build[v].from \in Nat /\ vault[v].applied \in Nat
            BY <1>1, Numbers DEF VaultInv, VaultBound
        <3> QED BY <1>2, <1>14, <1>19, <2>2, <3>1
    <2> QED BY <2>1, <2>2
<1>24. VaultInv(v)'
    BY <1>15, <1>16, <1>17, <1>21, <1>22, <1>23 DEF VaultInv
<1> QED BY <1>2, <1>7, <1>8, <1>10, <1>11, <1>12, <1>24 DEF IInv, GlobalInv

LEMMA DeleteKeeps ==
    ASSUME Apart, IInv, NEW v \in Vault, Delete(v)
    PROVE  IInv'
<1>1. TypeOK /\ GlobalInv /\ VaultInv(v) /\ RowInv /\ FeedInv /\ MainInv /\ ShardInv /\ MainBound /\ PageBound
    BY DEF IInv, GlobalInv
<1>2. TypeOK' /\ top' = top + 1 /\ top \in Nat /\ moves \in Nat
    BY <1>1, DeleteTypes, MainNumbers
<1>3. /\ UNCHANGED <<feedEpoch, up, know, feedPos, vault, index, live, build, carried, saved, epoch, cursor,
                     persisted, rewindTo, owned, listed, listing, poll, save, crashes>>
      /\ home' = home \ {v} /\ moves' = moves + 1 /\ moves' # 0 /\ moves' >= moves
      /\ feedEpoch = 1
    BY <1>2 DEF Delete, main, storeVars, Apart
<1>4. /\ \A w \in Vault \ {v} : row'[w] = row[w]
      /\ \A q \in Res \cup {Gone} : row'[v][q] = IF q = Gone THEN top + 1 ELSE 0
    BY <1>1, DeleteRows
<1>5. ~Alive(v)' /\ \A w \in Vault \ {v} : Alive(w)' = Alive(w)
    BY <1>2, <1>4 DEF Alive
<1>6. \A w \in Vault : \A q \in Res \cup {Gone} : row[w][q] \in Nat /\ row[w][q] <= top
    BY <1>1, Numbers DEF RowInv
<1>7. RowInv'
    BY <1>1, DeleteRows
<1>8. FeedInv'
    <2>1. \A w \in home' : Alive(w)'
        BY <1>1, <1>3, <1>5 DEF FeedInv, TypeOK
    <2>2. ~(feedEpoch' > 1)
        BY <1>3
    <2> QED BY <1>3, <2>1, <2>2 DEF FeedInv
<1>9. MainInv' /\ ShardInv'
    <2>1. \A c \in poll.changes : c.v \in Vault
        BY <1>1, MainNumbers
    <2>2. MainInv'
        BY <1>1, <1>3, <1>5, <2>1 DEF MainInv, Known
    <2> QED BY <1>1, <1>3, <2>2 DEF ShardInv
<1>10. \A n \in Nat : n <= top => n <= top' /\ n < top + 1
    BY <1>2
<1>11. MainBound'
    BY <1>1, <1>3, <1>10, MainNumbers DEF MainBound
<1>12. PageBound'
    <2>1. poll.last \in Nat /\ \A c \in poll.changes : c.v \in Vault /\ c.r \in Res \cup {Gone} /\ c.seq \in Nat
        BY <1>1, MainNumbers
    <2>2. Current' = Current
        BY <1>3 DEF Current, Known
    <2>3. \A c \in poll.changes : Alive(c.v)' => Alive(c.v) /\ row'[c.v] = row[c.v]
        BY <1>4, <1>5, <2>1
    <2> QED BY <1>1, <1>3, <1>10, <2>1, <2>2, <2>3 DEF PageBound
<1>13. ASSUME NEW w \in Vault \ {v}
       PROVE  VaultInv(w)'
    <2>1. top' >= top
        BY <1>2
    <2>2. Same(w)
        BY <1>3, <1>4, <2>1 DEF Same
    <2>3. VaultInv(w)
        BY DEF IInv
    <2> QED BY <1>1, <1>2, <2>2, <2>3, VaultFrame
<1>14. VaultInv(v)'
    <2>1. PageInv(v)' /\ DiskInv(v)' /\ IndexInv(v)' /\ BuildInv(v)'
        BY <1>5 DEF PageInv, DiskInv, IndexInv, BuildInv
    <2>2. OrphanInv(v)'
        BY <1>3 DEF OrphanInv
    <2>3. ReadsIndex(v)'
        BY <1>1, <1>3 DEF VaultInv, ReadsIndex
    <2>4. TakenIn(v)'
        BY <1>1, <1>3, <1>5 DEF VaultInv, TakenIn
    <2>5. ListInv(v)'
        <3>1. Good(v)' = Good(v) /\ v \notin home'
            BY <1>3 DEF Good, Doomed
        <3> QED BY <1>1, <1>3, <3>1 DEF VaultInv, ListInv
    <2>6. VaultBound(v)'
        BY <1>1, <1>3, <1>5, <1>10, Numbers DEF VaultInv, VaultBound
    <2> QED BY <2>1, <2>2, <2>3, <2>4, <2>5, <2>6 DEF VaultInv
<1> QED BY <1>2, <1>7, <1>8, <1>9, <1>11, <1>12, <1>13, <1>14 DEF IInv, GlobalInv

LEMMA LeaveKeeps ==
    ASSUME Apart, IInv, NEW v \in Vault, Leave(v)
    PROVE  IInv'
<1>1. TypeOK /\ GlobalInv /\ RowInv /\ FeedInv /\ MainInv /\ ShardInv /\ MainBound /\ PageBound
    BY DEF IInv, GlobalInv
<1>2. TypeOK' /\ moves \in Nat /\ top \in Nat
    BY <1>1, LeaveTypes, MainNumbers
<1>3. /\ UNCHANGED <<feedEpoch, top, row, up, know, feedPos, vault, index, live, build, carried, saved, epoch,
                     cursor, persisted, rewindTo, owned, listed, listing, poll, save, crashes>>
      /\ home' = home \ {v} /\ moves' # 0 /\ moves' >= moves
      /\ feedEpoch = 1
    BY <1>2 DEF Leave, main, storeVars, Apart
<1>4. \A w \in Vault : Alive(w)' = Alive(w)
    BY <1>3 DEF Alive
<1>5. RowInv' /\ FeedInv'
    <2>1. ~(feedEpoch' > 1) /\ home' \subseteq Vault
        BY <1>1, <1>3 DEF TypeOK
    <2>2. RowInv'
        BY <1>1, <1>3 DEF RowInv
    <2>3. \A w \in home' : Alive(w)'
        BY <1>1, <1>3, <1>4, <2>1 DEF FeedInv
    <2> QED BY <1>3, <2>1, <2>2, <2>3 DEF FeedInv
<1>6. MainInv' /\ ShardInv' /\ MainBound' /\ PageBound'
    <2>1. \A c \in poll.changes : c.v \in Vault
        BY <1>1, MainNumbers
    <2>2. Current' = Current /\ Known' = Known
        BY <1>3 DEF Current, Known
    <2>3. MainInv'
        BY <1>1, <1>3, <1>4, <2>1, <2>2 DEF MainInv
    <2>4. ShardInv' /\ MainBound'
        BY <1>1, <1>3 DEF ShardInv, MainBound
    <2>5. PageBound'
        BY <1>1, <1>3, <1>4, <2>1, <2>2 DEF PageBound
    <2> QED BY <2>3, <2>4, <2>5
<1>7. ASSUME NEW w \in Vault
      PROVE  VaultInv(w)'
    <2>1. Same(w)
        BY <1>2, <1>3 DEF Same
    <2>2. VaultInv(w)
        BY DEF IInv
    <2> QED BY <1>1, <1>2, <2>1, <2>2, VaultFrame
<1> QED BY <1>2, <1>5, <1>6, <1>7 DEF IInv, GlobalInv

\* A vault that comes back has no index yet, or one marked as an orphan's.
LEMMA ReturnKeeps ==
    ASSUME Apart, IInv, NEW v \in Vault, Return(v)
    PROVE  IInv'
<1>1. TypeOK /\ GlobalInv /\ RowInv /\ FeedInv /\ MainInv /\ ShardInv /\ MainBound /\ PageBound /\ VaultInv(v)
    BY DEF IInv, GlobalInv
<1>2. TypeOK' /\ moves \in Nat /\ top \in Nat
    BY <1>1, LeaveTypes, MainNumbers
<1>3. /\ UNCHANGED <<feedEpoch, top, row, up, know, feedPos, vault, index, live, build, carried, saved, epoch,
                     cursor, persisted, rewindTo, owned, listed, listing, poll, save, crashes, moves>>
      /\ home' = home \cup {v} /\ v \notin owned /\ ~vault[v].owned /\ v \notin home
      /\ Alive(v) /\ (index[v].stale \/ ~index[v].there)
    BY DEF Return, main, storeVars, Apart, Alive
<1>4. /\ \A w \in Vault : Alive(w)' = Alive(w)
      /\ Current' = Current /\ Known' = Known /\ Shown' = Shown
    BY <1>3 DEF Alive, Current, Known, Shown
<1>5. moves # 0
    BY <1>1, <1>3 DEF FeedInv
<1>6. RowInv' /\ FeedInv'
    <2>1. RowInv'
        BY <1>1, <1>3 DEF RowInv
    <2>2. \A w \in home' : Alive(w)'
        BY <1>1, <1>3, <1>4 DEF FeedInv, TypeOK
    <2> QED BY <1>1, <1>3, <1>5, <2>1, <2>2 DEF FeedInv
<1>7. MainInv' /\ ShardInv' /\ MainBound' /\ PageBound'
    <2>1. \A c \in poll.changes : c.v \in Vault
        BY <1>1, MainNumbers
    <2>2. MainInv'
        BY <1>1, <1>3, <1>4, <2>1 DEF MainInv
    <2>3. ShardInv' /\ MainBound'
        BY <1>1, <1>3 DEF ShardInv, MainBound
    <2>4. PageBound'
        BY <1>1, <1>3, <1>4, <2>1 DEF PageBound
    <2> QED BY <2>2, <2>3, <2>4
<1>8. ASSUME NEW w \in Vault \ {v}
      PROVE  VaultInv(w)'
    <2>1. Same(w)
        BY <1>2, <1>3 DEF Same
    <2>2. VaultInv(w)
        BY DEF IInv
    <2> QED BY <1>1, <1>2, <2>1, <2>2, VaultFrame
<1>9. VaultInv(v)'
    <2>1. ~Good(v)' /\ ~build[v].on
        <3>1. index[v].built => index[v].there
            BY <1>1 DEF VaultInv, ReadsIndex
        <3>2. ~build[v].on
            BY <1>1, <1>3 DEF VaultInv, TakenIn
        <3> QED BY <1>3, <3>1, <3>2 DEF Good, Doomed
    <2>2. PageInv(v)' /\ DiskInv(v)' /\ IndexInv(v)' /\ BuildInv(v)'
        BY <1>3, <2>1 DEF PageInv, Excused, DiskInv, IndexInv, BuildInv
    <2>3. OrphanInv(v)' /\ ReadsIndex(v)'
        <3>1. OrphanInv(v)'
            BY <1>3, <1>5 DEF OrphanInv
        <3>2. ReadsIndex(v)'
            BY <1>1, <1>3 DEF VaultInv, ReadsIndex
        <3> QED BY <3>1, <3>2
    <2>4. TakenIn(v)'
        BY <1>1, <1>3, <1>4 DEF VaultInv, TakenIn
    <2>5. ListInv(v)'
        BY <1>1, <1>3, <2>1 DEF VaultInv, ListInv
    <2>6. VaultBound(v)'
        BY <1>1, <1>3, <1>4 DEF VaultInv, VaultBound
    <2> QED BY <2>2, <2>3, <2>4, <2>5, <2>6 DEF VaultInv
<1> QED BY <1>2, <1>6, <1>7, <1>8, <1>9 DEF IInv, GlobalInv

\* In a new epoch every index there is will be built again.
LEMMA RecreateKeeps ==
    ASSUME Apart, IInv, Recreate
    PROVE  IInv'
<1>1. TypeOK /\ GlobalInv /\ RowInv /\ FeedInv /\ MainInv /\ ShardInv /\ MainBound /\ PageBound
    BY DEF IInv, GlobalInv
<1>2. /\ TypeOK'
      /\ \A v \in Vault :
           /\ row'[v] = [r \in Res \cup {Gone} |-> 0]
           /\ index'[v] = [index[v] EXCEPT !.fresh = {}]
           /\ live'[v] = [live[v] EXCEPT !.got = {}]
           /\ build'[v] = [build[v] EXCEPT !.got = {}]
    BY <1>1, RecreateTypes
<1>3. /\ UNCHANGED <<home, up, know, feedPos, vault, saved, epoch, cursor, persisted, rewindTo, owned, listed,
                     listing, poll, save, crashes, moves>>
      /\ feedEpoch' = feedEpoch + 1 /\ top' = 0 /\ moves = 0
    BY DEF Recreate, main, Apart
<1>4. \A v \in Vault : Alive(v) /\ Alive(v)' /\ \A r \in Res \cup {Gone} : row'[v][r] = 0
    <2>1. \A v \in Vault : Alive(v)
        BY <1>1, <1>3 DEF FeedInv
    <2>2. \A v \in Vault : \A r \in Res \cup {Gone} : row'[v][r] = 0
        <3>1. \A v \in Vault : row'[v] = [r \in Res \cup {Gone} |-> 0]
            BY <1>2
        <3> QED BY <3>1
    <2>3. \A v \in Vault : Alive(v)'
        BY <2>2 DEF Alive
    <2> QED BY <2>1, <2>2, <2>3
<1>5. \A e \in Nat : e <= feedEpoch => e <= feedEpoch' /\ e # feedEpoch'
    BY <1>1, <1>3, MainNumbers
<1>6. RowInv' /\ FeedInv'
    <2>1. RowInv'
        BY <1>3, <1>4 DEF RowInv
    <2> QED BY <1>1, <1>3, <1>4, <2>1 DEF FeedInv, TypeOK
<1>7. MainInv' /\ ShardInv' /\ MainBound' /\ PageBound'
    <2>1. \A c \in poll.changes : c.v \in Vault /\ c.r # Gone
        BY <1>1, <1>4, MainNumbers DEF MainInv
    <2>2. epoch \in Nat /\ saved.epoch \in Nat /\ poll.epoch \in Nat
        BY <1>1, MainNumbers
    <2>3. MainInv'
        BY <1>1, <1>3, <1>5, <2>1, <2>2 DEF MainInv, Known
    <2>4. epoch <= feedEpoch /\ saved.epoch <= feedEpoch /\ (poll.on => poll.epoch <= feedEpoch)
        BY <1>1 DEF MainInv
    <2>5. epoch # feedEpoch' /\ saved.epoch # feedEpoch' /\ (poll.on => poll.epoch # feedEpoch')
        BY <1>5, <2>2, <2>4
    <2>6. ShardInv' /\ MainBound' /\ PageBound'
        BY <1>1, <1>3, <2>5 DEF ShardInv, MainBound, PageBound
    <2> QED BY <2>3, <2>6
<1>8. ASSUME NEW v \in Vault
      PROVE  VaultInv(v)'
    <2>1. /\ index'[v].there = index[v].there /\ index'[v].built = index[v].built
          /\ index'[v].epoch = index[v].epoch /\ index'[v].seq = index[v].seq
          /\ index'[v].stale = index[v].stale
          /\ live'[v].on = live[v].on
          /\ build'[v].on = build[v].on /\ build'[v].place = build[v].place /\ build'[v].left = build[v].left
        <3>1. index[v] \in IndexState /\ live[v] \in UnitState /\ build[v] \in BuildState
            BY <1>1, StoreTypes
        <3>2. /\ index'[v].there = index[v].there /\ index'[v].built = index[v].built
              /\ index'[v].epoch = index[v].epoch /\ index'[v].seq = index[v].seq
              /\ index'[v].stale = index[v].stale
            BY <1>2, <3>1 DEF IndexState
        <3>3. live'[v].on = live[v].on
            BY <1>2, <3>1 DEF UnitState
        <3>4. build'[v].on = build[v].on /\ build'[v].place = build[v].place /\ build'[v].left = build[v].left
            BY <1>2, <3>1 DEF BuildState
        <3> QED BY <3>2, <3>3, <3>4
    <2>2. VaultInv(v)
        BY DEF IInv
    <2>3. index[v].epoch # feedEpoch' /\ epoch # feedEpoch' /\ (poll.on => poll.epoch # feedEpoch') /\ feedEpoch' # 1
        <3>1. index[v].epoch <= feedEpoch /\ epoch <= feedEpoch /\ (poll.on => poll.epoch <= feedEpoch)
            BY <1>1, <2>2 DEF VaultInv, ReadsIndex, MainInv
        <3> QED BY <1>1, <1>3, <1>5, <3>1, Numbers, MainNumbers
    <2>4. ~Good(v)'
        BY <2>1, <2>3 DEF Good, Doomed
    <2>5. PageInv(v)' /\ DiskInv(v)' /\ IndexInv(v)' /\ BuildInv(v)' /\ VaultBound(v)'
        BY <1>3, <2>1, <2>3, <2>4 DEF PageInv, DiskInv, IndexInv, BuildInv, VaultBound
    <2>6. OrphanInv(v)' /\ ListInv(v)'
        BY <1>3, <2>1, <2>2, <2>4 DEF VaultInv, OrphanInv, ListInv
    <2>7. ReadsIndex(v)'
        <3>1. index[v].epoch <= feedEpoch'
            BY <1>1, <1>5, <2>2, Numbers DEF VaultInv, ReadsIndex
        <3> QED BY <1>3, <2>1, <2>2, <3>1 DEF VaultInv, ReadsIndex
    <2>8. TakenIn(v)'
        <3>1. Shown' = Shown
            BY <1>3 DEF Shown
        <3> QED BY <1>3, <1>4, <2>1, <2>2, <2>3, <3>1 DEF VaultInv, TakenIn
    <2> QED BY <2>5, <2>6, <2>7, <2>8 DEF VaultInv
<1> QED BY <1>2, <1>6, <1>7, <1>8 DEF IInv, GlobalInv
-----------------------------------------------------------------------------
(* The main thread, where it tells the shards nothing.                      *)

LEMMA MainFrame ==
    ASSUME IInv, NEW v \in Vault,
           UNCHANGED <<backend, storeVars, epoch, owned, crashes, moves>>,
           Back' = Back, Alive(v) /\ Fed(v)' => Fed(v),
           Alive(v) /\ v \in Shown' => v \in home \cup Shown,
           poll'.on => index[v].epoch <= poll'.epoch,
           \A r \in Res : row[v][r] > Back /\ Unsaved(v, r) => Unsaved(v, r)'
    PROVE  /\ Alive(v)' = Alive(v) /\ Good(v)' = Good(v)
           /\ OrphanInv(v)' /\ ReadsIndex(v)' /\ TakenIn(v)' /\ VaultBound(v)'
           /\ IndexInv(v)' /\ BuildInv(v)'
<1>1. /\ UNCHANGED <<feedEpoch, top, row, home, index, up, know, feedPos, vault, live, build, carried,
                     epoch, owned, crashes, moves>>
      /\ Alive(v)' = Alive(v) /\ Good(v)' = Good(v)
    BY DEF backend, storeVars, Alive, Good, Doomed
<1>2. VaultInv(v)
    BY DEF IInv
<1>3. OrphanInv(v)' /\ VaultBound(v)'
    BY <1>1, <1>2 DEF VaultInv, OrphanInv, VaultBound
<1>4. ReadsIndex(v)'
    BY <1>1, <1>2 DEF VaultInv, ReadsIndex
<1>5. TakenIn(v)'
    BY <1>1, <1>2 DEF VaultInv, TakenIn
<1>6. \A r \in Res : Alive(v) /\ Kept(v, r) => Kept(v, r)'
    BY <1>1 DEF Kept, ToCome
<1>7. IndexInv(v)'
    <2>1. Had(v)' = Had(v)
        BY <1>1 DEF Had
    <2>2. IndexInv(v)
        BY <1>2 DEF VaultInv
    <2> QED BY <1>1, <1>6, <2>1, <2>2 DEF IndexInv
<1>8. BuildInv(v)'
    <2>1. BuildInv(v)
        BY <1>2 DEF VaultInv
    <2> QED BY <1>1, <1>6, <2>1 DEF BuildInv
<1> QED BY <1>1, <1>3, <1>4, <1>5, <1>7, <1>8

LEMMA ListAskKeeps ==
    ASSUME IInv, ListAsk
    PROVE  IInv'
<1>1. TypeOK /\ GlobalInv /\ RowInv /\ FeedInv /\ MainInv /\ ShardInv /\ MainBound /\ PageBound
    BY DEF IInv, GlobalInv
<1>2. TypeOK'
    BY <1>1, ListTypes
<1>3. /\ UNCHANGED <<feedEpoch, top, row, home, index, up, know, feedPos, vault, live, build, carried,
                     saved, epoch, cursor, persisted, rewindTo, owned, listed, poll, save, crashes, moves>>
      /\ UNCHANGED <<backend, storeVars>>
      /\ listing'.on /\ listing'.ids = home /\ listing'.seen = {}
    BY DEF ListAsk, backend, storeVars
<1>4. /\ Back' = Back /\ Current' = Current /\ Known' = Known /\ Shown' = Shown
      /\ \A v \in Vault : Alive(v)' = Alive(v) /\ Fed(v)' = Fed(v)
      /\ \A v \in Vault, r \in Res : Unsaved(v, r)' = Unsaved(v, r) /\ InPage(v, r)' = InPage(v, r)
    BY <1>3 DEF Back, Current, Known, Shown, Alive, Fed, Unsaved, InPage
<1>5. RowInv' /\ FeedInv'
    BY <1>1, <1>3, <1>4 DEF RowInv, FeedInv, TypeOK
<1>6. MainInv' /\ ShardInv' /\ MainBound' /\ PageBound'
    <2>1. \A c \in poll.changes : c.v \in Vault
        BY <1>1, MainNumbers
    <2>2. moves = 0 => home = Vault
        BY <1>1 DEF FeedInv
    <2>3. MainInv'
        BY <1>1, <1>3, <1>4, <2>1, <2>2 DEF MainInv
    <2>4. ShardInv' /\ MainBound'
        BY <1>1, <1>3 DEF ShardInv, MainBound
    <2>5. PageBound'
        BY <1>1, <1>3, <1>4, <2>1 DEF PageBound
    <2> QED BY <2>3, <2>4, <2>5
<1>7. ASSUME NEW v \in Vault
      PROVE  VaultInv(v)'
    <2>1. VaultInv(v)
        BY DEF IInv
    <2>2. poll'.on => index[v].epoch <= poll'.epoch
        BY <1>3, <2>1 DEF VaultInv, ReadsIndex
    <2>3. /\ Alive(v)' = Alive(v) /\ Good(v)' = Good(v)
          /\ OrphanInv(v)' /\ ReadsIndex(v)' /\ TakenIn(v)' /\ VaultBound(v)'
          /\ IndexInv(v)' /\ BuildInv(v)'
        BY <1>3, <1>4, <2>2, MainFrame
    <2>4. ListInv(v)'
        BY <1>3, <2>1, <2>3 DEF VaultInv, ListInv
    <2>5. PageInv(v)'
        <3>1. \A r \in Res : Excused(v, r)' = Excused(v, r)
            BY <1>3, <2>3 DEF Excused
        <3> QED BY <1>3, <1>4, <2>1, <2>3, <3>1 DEF VaultInv, PageInv
    <2>6. DiskInv(v)'
        BY <1>3, <1>4, <2>1, <2>3 DEF VaultInv, DiskInv
    <2> QED BY <2>3, <2>4, <2>5, <2>6 DEF VaultInv
<1> QED BY <1>2, <1>5, <1>6, <1>7 DEF IInv, GlobalInv

LEMMA PollFailsKeeps ==
    ASSUME IInv, PollFails
    PROVE  IInv'
<1>1. TypeOK /\ GlobalInv /\ RowInv /\ FeedInv /\ MainInv /\ ShardInv /\ MainBound /\ PageBound
    BY DEF IInv, GlobalInv
<1>2. TypeOK'
    BY <1>1, ListTypes
<1>3. /\ UNCHANGED <<feedEpoch, top, row, home, index, up, know, feedPos, vault, live, build, carried,
                     saved, epoch, cursor, persisted, rewindTo, owned, listed, listing, save, crashes, moves>>
      /\ UNCHANGED <<backend, storeVars>>
      /\ ~poll'.on /\ poll'.changes = {}
    BY DEF PollFails, NoPage, backend, storeVars
<1>4. /\ Back' = Back /\ Current' = Current /\ Known' = Known /\ Shown' = {}
      /\ \A v \in Vault : Alive(v)' = Alive(v) /\ (Fed(v)' => Fed(v))
      /\ \A v \in Vault, r \in Res : Unsaved(v, r)' = Unsaved(v, r)
    BY <1>3 DEF Back, Current, Known, Shown, Alive, Fed, Unsaved
<1>5. RowInv' /\ FeedInv'
    BY <1>1, <1>3, <1>4 DEF RowInv, FeedInv, TypeOK
<1>6. MainInv' /\ ShardInv' /\ MainBound' /\ PageBound'
    <2>1. MainInv'
        BY <1>1, <1>3, <1>4 DEF MainInv
    <2>2. ShardInv' /\ MainBound'
        BY <1>1, <1>3 DEF ShardInv, MainBound
    <2>3. PageBound'
        BY <1>3 DEF PageBound
    <2> QED BY <2>1, <2>2, <2>3
<1>7. ASSUME NEW v \in Vault
      PROVE  VaultInv(v)'
    <2>1. VaultInv(v)
        BY DEF IInv
    <2>2. /\ Alive(v)' = Alive(v) /\ Good(v)' = Good(v)
          /\ OrphanInv(v)' /\ ReadsIndex(v)' /\ TakenIn(v)' /\ VaultBound(v)'
          /\ IndexInv(v)' /\ BuildInv(v)'
        BY <1>3, <1>4, MainFrame
    <2>3. ListInv(v)'
        BY <1>3, <2>1, <2>2 DEF VaultInv, ListInv
    <2>4. PageInv(v)'
        BY <1>3 DEF PageInv
    <2>5. DiskInv(v)'
        BY <1>3, <1>4, <2>1, <2>2 DEF VaultInv, DiskInv
    <2> QED BY <2>2, <2>3, <2>4, <2>5 DEF VaultInv
<1> QED BY <1>2, <1>5, <1>6, <1>7 DEF IInv, GlobalInv

LEMMA PollKeeps ==
    ASSUME IInv, Poll
    PROVE  IInv'
<1>1. TypeOK /\ GlobalInv /\ RowInv /\ FeedInv /\ MainInv /\ ShardInv /\ MainBound /\ PageBound
    BY DEF IInv, GlobalInv
<1>2. TypeOK' /\ cursor' = Back /\ rewindTo' = Nothing /\ poll' = Page(cursor')
    BY <1>1, PollTypes
<1>3. /\ UNCHANGED <<feedEpoch, top, row, home, index, up, know, feedPos, vault, live, build, carried,
                     saved, epoch, persisted, owned, listed, listing, save, crashes, moves>>
      /\ UNCHANGED <<backend, storeVars>> /\ listed
    BY DEF Poll, backend, storeVars
<1>4. cursor' \in Seq0
    BY <1>2 DEF TypeOK
<1>5. /\ poll'.on /\ poll'.epoch = feedEpoch
      /\ cursor' <= top => poll'.last <= top
      /\ \A c \in poll'.changes : c \in Feed /\ c.seq <= poll'.last
      /\ \A v \in home : \A r \in Res : cursor' < row[v][r] /\ row[v][r] <= poll'.last =>
             \E c \in poll'.changes : c.v = v /\ c.r = r /\ c.seq = row[v][r]
    <2> DEFINE since == cursor'
    <2>1. since \in Seq0
        BY <1>4
    <2> HIDE DEF since
    <2>2. /\ Page(since).on /\ Page(since).epoch = feedEpoch
          /\ since <= top => Page(since).last <= top
          /\ \A c \in Page(since).changes : c \in Feed /\ c.seq <= Page(since).last
          /\ \A v \in home : \A r \in Res : since < row[v][r] /\ row[v][r] <= Page(since).last =>
                \E c \in Page(since).changes : c.v = v /\ c.r = r /\ c.seq = row[v][r]
        BY <1>1, <2>1, PageFacts
    <2>3. poll' = Page(since) /\ since = cursor'
        BY <1>2 DEF since
    <2> QED BY <2>2, <2>3
<1>6. \A c \in poll'.changes : /\ c.v \in Vault /\ c.seq = row[c.v][c.r] /\ c.seq # 0
                               /\ c.v \in home \/ c.r = Gone
                               /\ c.r = Gone => ~Alive(c.v)
    <2> SUFFICES ASSUME NEW c \in poll'.changes
                 PROVE  /\ c.v \in Vault /\ c.seq = row[c.v][c.r] /\ c.seq # 0
                        /\ c.v \in home \/ c.r = Gone
                        /\ c.r = Gone => ~Alive(c.v)
        OBVIOUS
    <2>1. c \in Feed
        BY <1>5
    <2>2. c \in Change /\ c.seq = row[c.v][c.r] /\ (c.v \in home \/ c.r = Gone)
        BY <2>1 DEF Feed
    <2>3. c.v \in Vault /\ c.seq # 0
        BY <2>2, Constants DEF Change
    <2> QED BY <2>2, <2>3 DEF Alive
<1>7. /\ Back' = Back /\ Current' = Current /\ Known' = Known
      /\ \A v \in Vault : Alive(v)' = Alive(v)
      /\ \A v \in Vault, r \in Res : Unsaved(v, r)' = Unsaved(v, r)
    <2>1. Back' = Back
        <3>1. cursor' \in Nat /\ cursor' <= Nothing /\ cursor' < Nothing
            BY <1>4, Constants
        <3> QED BY <1>2, <3>1 DEF Back, Smaller
    <2> QED BY <1>3, <2>1 DEF Current, Known, Alive, Unsaved
<1>8. \A v \in Vault : Alive(v) /\ v \in Shown' => v \in home
    <2>1. \A v \in Vault : v \in Shown' => \E c \in poll'.changes : c.v = v
        BY DEF Shown
    <2> QED BY <1>6, <2>1
<1>9. \A v \in Vault : Alive(v) /\ Fed(v)' => Fed(v)
    BY <1>3, <1>8 DEF Fed
<1>10. RowInv' /\ FeedInv'
    BY <1>1, <1>3, <1>7 DEF RowInv, FeedInv, TypeOK
<1>11. MainInv' /\ ShardInv' /\ MainBound' /\ PageBound'
    <2>1. Known <= feedEpoch /\ feedEpoch # NoEpoch
        BY <1>1, MainNumbers DEF MainInv, Known
    <2>2. epoch = NoEpoch => cursor' = saved.cursor
        BY <1>1, <1>2, MainNumbers DEF MainInv, Back, Smaller
    <2>3. \A c \in poll'.changes : c.r = Gone => ~Alive(c.v)'
        BY <1>6, <1>7
    <2>4. MainInv'
        <3>1. /\ epoch' <= feedEpoch' /\ saved'.epoch <= feedEpoch'
              /\ epoch' # NoEpoch => listed' /\ saved'.epoch <= epoch'
              /\ epoch' = NoEpoch => persisted' = saved'.cursor /\ ~save'.on
              /\ saved'.epoch = NoEpoch => saved'.cursor = 0
              /\ moves' = 0 => (listing'.on => listing'.ids = Vault) /\ (listed' => owned' = Vault)
            BY <1>1, <1>3 DEF MainInv
        <3>2. poll'.on => listed' /\ Known' <= poll'.epoch /\ poll'.epoch <= feedEpoch' /\ poll'.epoch # NoEpoch
            BY <1>1, <1>3, <1>5, <1>7, <2>1, MainNumbers
        <3> QED BY <1>2, <1>3, <1>5, <2>2, <2>3, <3>1, <3>2 DEF MainInv
    <2>5. Current => cursor' <= top
        BY <1>1, <1>2, Positions
    <2>6. epoch = feedEpoch => Current
        BY <1>1, MainNumbers DEF Current, Known
    <2>7. ShardInv' /\ MainBound'
        BY <1>1, <1>3, <2>5, <2>6 DEF ShardInv, MainBound
    <2>8. PageBound'
        <3>1. \A c \in poll'.changes : c.seq <= poll'.last /\ (Alive(c.v)' => c.seq <= row[c.v][c.r])
            <4>1. poll'.changes \subseteq Change
                BY <1>2 DEF TypeOK
            <4>2. \A c \in poll'.changes : c.seq \in Nat
                BY <4>1 DEF Change
            <4> QED BY <1>5, <1>6, <4>2
        <3> QED BY <1>3, <1>5, <1>7, <2>5, <3>1 DEF PageBound
    <2> QED BY <2>4, <2>7, <2>8
<1>12. ASSUME NEW v \in Vault
       PROVE  VaultInv(v)'
    <2>1. VaultInv(v)
        BY DEF IInv
    <2>2. poll'.on => index[v].epoch <= poll'.epoch
        BY <1>5, <2>1 DEF VaultInv, ReadsIndex
    <2>3. /\ Alive(v)' = Alive(v) /\ Good(v)' = Good(v)
          /\ OrphanInv(v)' /\ ReadsIndex(v)' /\ TakenIn(v)' /\ VaultBound(v)'
          /\ IndexInv(v)' /\ BuildInv(v)'
        BY <1>3, <1>7, <1>8, <1>9, <2>2, MainFrame
    <2>4. ListInv(v)'
        BY <1>3, <2>1, <2>3 DEF VaultInv, ListInv
    <2>5. PageInv(v)'
        BY <1>3, <1>5, <1>7, <1>8 DEF PageInv, InPage
    <2>6. DiskInv(v)'
        BY <1>3, <1>7, <1>9, <2>1, <2>3 DEF VaultInv, DiskInv
    <2> QED BY <2>3, <2>4, <2>5, <2>6 DEF VaultInv
<1> QED BY <1>2, <1>10, <1>11, <1>12 DEF IInv, GlobalInv

LEMMA SaveBeginKeeps ==
    ASSUME Apart, IInv, SaveBegin
    PROVE  IInv'
<1>1. TypeOK /\ GlobalInv /\ RowInv /\ FeedInv /\ MainInv /\ ShardInv /\ MainBound /\ PageBound
    BY DEF IInv, GlobalInv
<1>2. /\ TypeOK' /\ save'.on /\ save'.safe <= cursor
      /\ \A v \in Vault, r \in Res :
            vault[v].owned /\ vault[v].why = "" /\ vault[v].pending[r] # 0
                => save'.safe < vault[v].pending[r]
    BY <1>1, SaveFacts
<1>3. /\ UNCHANGED <<feedEpoch, top, row, home, index, up, know, feedPos, vault, live, build, carried,
                     saved, epoch, cursor, persisted, rewindTo, owned, listed, listing, poll, crashes, moves>>
      /\ UNCHANGED <<backend, storeVars>>
      /\ epoch # NoEpoch /\ ~save.on /\ up = Shard /\ rewindTo = Nothing
    BY DEF SaveBegin, backend, storeVars, Apart
<1>4. /\ Back' = Back /\ Current' = Current /\ Known' = Known /\ Shown' = Shown
      /\ \A v \in Vault : Alive(v)' = Alive(v) /\ Fed(v)' = Fed(v)
      /\ \A v \in Vault, r \in Res : InPage(v, r)' = InPage(v, r)
    BY <1>3 DEF Back, Current, Known, Shown, Alive, Fed, InPage
<1>5. Back = cursor /\ save'.safe \in Nat /\ cursor \in Nat
    <2>1. Back = cursor
        BY <1>1, <1>3, MainNumbers DEF Back, Smaller
    <2>2. save' \in [on : BOOLEAN, safe : Seq0]
        BY <1>2 DEF TypeOK
    <2> QED BY <1>1, <2>1, <2>2, MainNumbers, Constants
<1>9. \A n \in Nat : n > Back => n > save'.safe
    <2>1. save'.safe <= Back /\ Back \in Nat
        BY <1>2, <1>5
    <2> QED BY <1>5, <2>1
<1>6. RowInv' /\ FeedInv'
    BY <1>1, <1>3, <1>4 DEF RowInv, FeedInv, TypeOK
<1>7. MainInv' /\ ShardInv' /\ MainBound' /\ PageBound'
    <2>1. \A c \in poll.changes : c.v \in Vault
        BY <1>1, MainNumbers
    <2>2. MainInv'
        BY <1>1, <1>3, <1>4, <2>1 DEF MainInv
    <2>3. epoch = feedEpoch => save'.safe <= top
        <3>1. epoch = feedEpoch => cursor <= top
            BY <1>1 DEF MainBound
        <3>2. top \in Nat /\ save'.safe <= cursor
            BY <1>1, <1>2, MainNumbers
        <3> QED BY <1>5, <3>1, <3>2
    <2>4. ShardInv' /\ MainBound'
        BY <1>1, <1>3, <2>3 DEF ShardInv, MainBound
    <2>5. PageBound'
        BY <1>1, <1>3, <1>4, <2>1 DEF PageBound
    <2> QED BY <2>2, <2>4, <2>5
<1>8. ASSUME NEW v \in Vault
      PROVE  VaultInv(v)'
    <2>1. VaultInv(v)
        BY DEF IInv
    <2>2. poll'.on => index[v].epoch <= poll'.epoch
        BY <1>3, <2>1 DEF VaultInv, ReadsIndex
    <2>3. \A r \in Res : row[v][r] \in Nat
        BY <1>1, Numbers
    <2>4. \A r \in Res : row[v][r] > Back /\ Unsaved(v, r) => Unsaved(v, r)'
        BY <1>3, <1>9, <2>3 DEF Unsaved
    <2>5. /\ Alive(v)' = Alive(v) /\ Good(v)' = Good(v)
          /\ OrphanInv(v)' /\ ReadsIndex(v)' /\ TakenIn(v)' /\ VaultBound(v)'
          /\ IndexInv(v)' /\ BuildInv(v)'
        BY <1>3, <1>4, <2>2, <2>4, MainFrame
    <2>6. ListInv(v)'
        BY <1>3, <2>1, <2>5 DEF VaultInv, ListInv
    <2>7. PageInv(v)'
        <3>1. \A r \in Res : Excused(v, r)' = Excused(v, r)
            BY <1>3, <2>5 DEF Excused
        <3> QED BY <1>3, <1>4, <2>1, <2>5, <3>1 DEF VaultInv, PageInv
    <2>8. ASSUME Alive(v), Good(v), Fed(v), NEW r \in Res \ (index[v].fresh \cup carried[v])
          PROVE  row[v][r] > save'.safe
        <3>1. /\ row[v][r] > index[v].seq
              /\ vault[v].leaving => row[v][r] > Back
            BY <2>1, <2>8 DEF VaultInv, DiskInv
        <3>2. row[v][r] \in Nat /\ index[v].seq \in Nat /\ vault[v].seen \in Nat
            BY <1>1, Numbers
        <3>3. CASE vault[v].owned
            <4>1. vault[v].why = ""
                BY <2>8, <3>3, GoodServes
            <4>2. r \in Res \ Had(v)
                BY <2>8 DEF Had
            <4>3. Kept(v, r)
                BY <2>1, <2>8, <3>3, <4>2 DEF VaultInv, IndexInv
            <4>4. CASE row[v][r] <= vault[v].seen
                <5>1. vault[v].pending[r] = row[v][r]
                    BY <4>3, <4>4 DEF Kept
                <5>2. row[v][r] # 0
                    BY <3>1, <3>2
                <5>3. save'.safe < vault[v].pending[r]
                    BY <1>2, <3>3, <4>1, <5>1, <5>2
                <5> QED BY <1>5, <3>2, <5>1, <5>3
            <4>5. CASE row[v][r] > vault[v].seen
                <5>1. row[v][r] > Back
                    BY <2>8, <4>3, <4>5 DEF Kept, ToCome
                <5> QED BY <1>9, <3>2, <5>1
            <4> QED BY <3>2, <4>4, <4>5
        <3>4. CASE ~vault[v].owned
            <4>1. index[v].there /\ ~index[v].stale
                BY <2>8, GoodServes
            <4>2. ShardOf[v] \in up
                BY <1>1, <1>3, StoreTypes
            <4>3. vault[v].leaving
                BY <1>3, <2>1, <3>4, <4>1, <4>2 DEF VaultInv, ListInv
            <4> QED BY <1>9, <3>1, <3>2, <4>3
        <3> QED BY <3>3, <3>4
    <2>9. DiskInv(v)'
        <3>1. DiskInv(v)
            BY <2>1 DEF VaultInv
        <3> QED BY <1>3, <1>4, <2>5, <2>8, <3>1 DEF DiskInv
    <2> QED BY <2>5, <2>6, <2>7, <2>9 DEF VaultInv
<1> QED BY <1>2, <1>6, <1>7, <1>8 DEF IInv, GlobalInv

LEMMA SaveEndKeeps ==
    ASSUME IInv, SaveEnd
    PROVE  IInv'
<1>1. TypeOK /\ GlobalInv /\ RowInv /\ FeedInv /\ MainInv /\ ShardInv /\ MainBound /\ PageBound
    BY DEF IInv, GlobalInv
<1>2. TypeOK'
    BY <1>1, ListTypes
<1>3. /\ UNCHANGED <<feedEpoch, top, row, home, index, up, know, feedPos, vault, live, build, carried,
                     epoch, cursor, rewindTo, owned, listed, listing, poll, crashes, moves>>
      /\ UNCHANGED <<backend, storeVars>> /\ save.on /\ epoch # NoEpoch
      /\ saved'.epoch = epoch /\ saved'.cursor = save.safe
      /\ persisted' = save.safe /\ ~save'.on
    BY <1>1 DEF SaveEnd, NoSave, backend, storeVars, MainInv
<1>4. /\ Back' = Back /\ Current' = Current /\ Known' = Known /\ Shown' = Shown
      /\ epoch = feedEpoch => Current
      /\ \A v \in Vault : Alive(v)' = Alive(v) /\ Fed(v)' = Fed(v)
      /\ \A v \in Vault, r \in Res : InPage(v, r)' = InPage(v, r)
    BY <1>3 DEF Back, Current, Known, Shown, Alive, Fed, InPage
<1>5. RowInv' /\ FeedInv'
    BY <1>1, <1>3, <1>4 DEF RowInv, FeedInv, TypeOK
<1>6. MainInv' /\ ShardInv' /\ MainBound' /\ PageBound'
    <2>1. \A c \in poll.changes : c.v \in Vault
        BY <1>1, MainNumbers
    <2>2. MainInv'
        <3>1. epoch <= epoch
            BY <1>1, MainNumbers
        <3> QED BY <1>1, <1>3, <1>4, <2>1, <3>1 DEF MainInv
    <2>3. ShardInv' /\ MainBound'
        BY <1>1, <1>3 DEF ShardInv, MainBound
    <2>4. PageBound'
        BY <1>1, <1>3, <1>4, <2>1 DEF PageBound
    <2> QED BY <2>2, <2>3, <2>4
<1>7. ASSUME NEW v \in Vault
      PROVE  VaultInv(v)'
    <2>1. VaultInv(v)
        BY DEF IInv
    <2>2. poll'.on => index[v].epoch <= poll'.epoch
        BY <1>3, <2>1 DEF VaultInv, ReadsIndex
    <2>3. \A r \in Res : Unsaved(v, r) => Unsaved(v, r)'
        BY <1>3 DEF Unsaved
    <2>4. /\ Alive(v)' = Alive(v) /\ Good(v)' = Good(v)
          /\ OrphanInv(v)' /\ ReadsIndex(v)' /\ TakenIn(v)' /\ VaultBound(v)'
          /\ IndexInv(v)' /\ BuildInv(v)'
        BY <1>3, <1>4, <2>2, <2>3, MainFrame
    <2>5. ListInv(v)'
        BY <1>3, <2>1, <2>4 DEF VaultInv, ListInv
    <2>6. PageInv(v)'
        <3>1. \A r \in Res : Excused(v, r)' = Excused(v, r)
            BY <1>3, <2>4 DEF Excused
        <3> QED BY <1>3, <1>4, <2>1, <2>4, <3>1 DEF VaultInv, PageInv
    <2>7. DiskInv(v)'
        <3>1. DiskInv(v)
            BY <2>1 DEF VaultInv
        <3> QED BY <1>3, <1>4, <2>4, <3>1 DEF DiskInv
    <2> QED BY <2>4, <2>5, <2>6, <2>7 DEF VaultInv
<1> QED BY <1>2, <1>5, <1>6, <1>7 DEF IInv, GlobalInv
-----------------------------------------------------------------------------
(* A full list of the vaults.                                               *)

\* What a list makes of a vault: an orphan to be, one to be looked at, or what it was.
Turned(v, w) ==
    /\ ~w.owned /\ w.leaving /\ ~w.queued /\ w.pending = NoPending
    /\ w.checked = vault[v].checked /\ w.why = vault[v].why
    /\ w.seen = vault[v].seen /\ w.applied = vault[v].applied
Met(v, w) ==
    /\ w.owned /\ ~w.leaving /\ w.queued = index[v].there /\ w.checked = ~index[v].there
    /\ w.why = IF ~index[v].there THEN "missing" ELSE IF index[v].stale THEN "stale" ELSE ""
    /\ w.pending = vault[v].pending /\ w.seen = vault[v].seen /\ w.applied = vault[v].applied

LEMMA OwnCases ==
    ASSUME TypeOK, NEW S, NEW ids, NEW v \in Vault,
           ~vault[v].leaving, ~vault[v].owned => ~vault[v].checked
    PROVE  /\ v \in Orphans(S, vault, ids) => /\ Turned(v, AfterOwn(S, vault, ids)[v])
                                              /\ v \notin ids /\ ShardOf[v] \in S
           /\ v \notin Orphans(S, vault, ids) =>
                \/ /\ AfterOwn(S, vault, ids)[v] = vault[v]
                   /\ \/ ShardOf[v] \notin S
                      \/ vault[v].owned /\ v \in ids
                      \/ v \notin ids /\ ~vault[v].owned /\ (~index[v].there \/ index[v].stale)
                \/ Met(v, AfterOwn(S, vault, ids)[v]) /\ v \in ids /\ ShardOf[v] \in S /\ ~vault[v].owned
<1> DEFINE w == AfterOwn(S, vault, ids)[v]
           O == Orphans(S, vault, ids)
<1>1. vault \in [Vault -> VaultState] /\ vault[v] \in VaultState
    BY Functions, StoreTypes
<1>2. /\ v \in O <=> /\ v \notin ids /\ ShardOf[v] \in S
                     /\ vault[v].owned \/ (index[v].there /\ ~index[v].stale)
      /\ v \in O => /\ ~w.owned /\ w.leaving /\ ~w.queued /\ w.pending = NoPending
                    /\ w.checked = vault[v].checked /\ w.why = vault[v].why
                    /\ w.seen = vault[v].seen /\ w.applied = vault[v].applied
      /\ ShardOf[v] \in S /\ v \in ids => w = Adopted(v, vault[v])
      /\ v \notin O /\ ~(ShardOf[v] \in S /\ v \in ids) => w = vault[v]
    <2>1. vault \in [Vault -> VaultState]
        BY <1>1
    <2> QED BY <2>1, AfterOwnFacts
<1>3. vault[v].owned => Adopted(v, vault[v]) = vault[v]
    BY <1>1 DEF Adopted, VaultState
<1>4. ~vault[v].owned => Met(v, Adopted(v, vault[v]))
    <2> SUFFICES ASSUME ~vault[v].owned
                 PROVE  Met(v, Adopted(v, vault[v]))
        OBVIOUS
    <2>1. ~vault[v].checked /\ ~vault[v].leaving
        OBVIOUS
    <2>2. /\ Adopted(v, vault[v]).owned
          /\ Adopted(v, vault[v]).leaving = vault[v].leaving
          /\ Adopted(v, vault[v]).pending = vault[v].pending
          /\ Adopted(v, vault[v]).seen = vault[v].seen
          /\ Adopted(v, vault[v]).applied = vault[v].applied
          /\ Adopted(v, vault[v]).queued = index[v].there
          /\ Adopted(v, vault[v]).checked = ~index[v].there
          /\ Adopted(v, vault[v]).why = IF ~index[v].there THEN "missing"
                                        ELSE IF index[v].stale THEN "stale" ELSE ""
        <3>1. ASSUME NEW x \in VaultState, x = vault[v], ~x.owned, ~x.checked
              PROVE  /\ Adopted(v, x).owned /\ Adopted(v, x).leaving = x.leaving
                     /\ Adopted(v, x).pending = x.pending /\ Adopted(v, x).seen = x.seen
                     /\ Adopted(v, x).applied = x.applied
                     /\ Adopted(v, x).queued = index[v].there
                     /\ Adopted(v, x).checked = ~index[v].there
                     /\ Adopted(v, x).why = IF ~index[v].there THEN "missing"
                                            ELSE IF index[v].stale THEN "stale" ELSE ""
            BY <3>1, AdoptedFacts
        <3> QED BY <1>1, <2>1, <3>1
    <2> DEFINE z == Adopted(v, vault[v])
    <2> HIDE DEF z
    <2>3. /\ z.owned /\ ~z.leaving /\ z.queued = index[v].there /\ z.checked = ~index[v].there
          /\ z.why = IF ~index[v].there THEN "missing" ELSE IF index[v].stale THEN "stale" ELSE ""
          /\ z.pending = vault[v].pending /\ z.seen = vault[v].seen /\ z.applied = vault[v].applied
        BY <2>1, <2>2 DEF z
    <2>4. Met(v, z)
        BY <2>3 DEF Met
    <2> QED BY <2>4 DEF z
<1> HIDE DEF w, O
<1>5. v \in O => Turned(v, w) /\ v \notin ids /\ ShardOf[v] \in S
    BY <1>2 DEF Turned
<1>6. v \notin O => \/ /\ w = vault[v]
                       /\ \/ ShardOf[v] \notin S
                          \/ vault[v].owned /\ v \in ids
                          \/ v \notin ids /\ ~vault[v].owned /\ (~index[v].there \/ index[v].stale)
                    \/ Met(v, w) /\ v \in ids /\ ShardOf[v] \in S /\ ~vault[v].owned
    BY <1>2, <1>3, <1>4
<1> QED BY <1>5, <1>6 DEF w, O

\* An index that is not taken for good, of a vault that is not being built, may lack anything.
LEMMA Unserved ==
    ASSUME NEW v, ~Good(v)', ~build'[v].on
    PROVE  PageInv(v)' /\ DiskInv(v)' /\ IndexInv(v)' /\ BuildInv(v)'
BY DEF PageInv, Excused, DiskInv, IndexInv, BuildInv

LEMMA ListTakeKeeps ==
    ASSUME Apart, IInv, ListTake
    PROVE  IInv'
<1>1. TypeOK /\ GlobalInv /\ RowInv /\ FeedInv /\ MainInv /\ ShardInv /\ MainBound /\ PageBound
    BY DEF IInv, GlobalInv
<1>2. TypeOK'
    BY <1>1, ListTakeTypes
<1>3. /\ UNCHANGED <<feedEpoch, top, row, home, up, know, feedPos, carried,
                     saved, epoch, cursor, persisted, rewindTo, poll, save, crashes, moves>>
      /\ owned' = listing.ids \cup listing.seen /\ listed' /\ listing.on /\ ~listing'.on
    BY DEF ListTake, backend, NoList
<1>4. index' = index /\ live' = live
    <2>1. vault \in [Vault -> VaultState]
        BY <1>1, Functions
    <2>2. epoch # NoEpoch => Own(up, vault, owned')
        BY DEF ListTake
    <2>3. epoch # NoEpoch => index' = index /\ live' = live
        BY <1>1, <2>1, <2>2, OwnFacts
    <2> QED BY <2>3 DEF ListTake
<1>5. /\ Back' = Back /\ Current' = Current /\ Known' = Known /\ Shown' = Shown
      /\ \A v \in Vault : Alive(v)' = Alive(v) /\ Good(v)' = Good(v)
      /\ \A v \in Vault, r \in Res : InPage(v, r)' = InPage(v, r) /\ Unsaved(v, r)' = Unsaved(v, r)
    BY <1>3, <1>4 DEF Back, Current, Known, Shown, Alive, Good, Doomed, InPage, Unsaved
<1>6. moves = 0 => owned' = Vault
    <2>1. moves = 0 => listing.ids = Vault
        BY <1>1, <1>3 DEF MainInv
    <2>2. listing.seen \subseteq Vault
        BY <1>1 DEF TypeOK
    <2> QED BY <1>3, <2>1, <2>2
<1>7. RowInv' /\ FeedInv'
    BY <1>1, <1>3, <1>5 DEF RowInv, FeedInv, TypeOK
<1>8. MainInv' /\ ShardInv' /\ MainBound' /\ PageBound'
    <2>1. \A c \in poll.changes : c.v \in Vault
        BY <1>1, MainNumbers
    <2>2. MainInv'
        BY <1>1, <1>3, <1>5, <1>6, <2>1 DEF MainInv
    <2>3. ShardInv' /\ MainBound'
        BY <1>1, <1>3 DEF ShardInv, MainBound
    <2>4. PageBound'
        BY <1>1, <1>3, <1>5, <2>1 DEF PageBound
    <2> QED BY <2>2, <2>3, <2>4
<1>9. ASSUME NEW v \in Vault
      PROVE  \/ vault'[v] = vault[v] /\ build'[v] = build[v] /\ (vault[v].owned => v \in owned')
             \/ /\ epoch # NoEpoch /\ ShardOf[v] \in up /\ ~live[v].on
                /\ Turned(v, vault'[v]) /\ build'[v] = NoBuild /\ v \notin owned'
             \/ /\ epoch # NoEpoch /\ ShardOf[v] \in up /\ ~vault[v].leaving /\ build'[v] = build[v]
                /\ Met(v, vault'[v]) /\ v \in owned' /\ ~vault[v].owned
    <2>1. VaultInv(v)
        BY DEF IInv
    <2>2. ShardOf[v] \notin up \/ epoch = NoEpoch => vault[v] = NewVault
        BY <2>1 DEF VaultInv, TakenIn
    <2>3. ~NewVault.owned
        BY Blank
    <2>4. CASE epoch = NoEpoch
        BY <2>2, <2>3, <2>4 DEF ListTake
    <2>5. CASE epoch # NoEpoch
        <3>1. vault \in [Vault -> VaultState]
            BY <1>1, Functions
        <3>2. Own(up, vault, owned') /\ Calm(up, vault, owned')
            BY <2>5 DEF ListTake
        <3>3. ~vault[v].leaving /\ (v \in Orphans(up, vault, owned') => ~live[v].on)
            BY <3>2 DEF Calm, Apart
        <3>4. /\ vault' = AfterOwn(up, vault, owned')
              /\ build'[v] = IF v \in Orphans(up, vault, owned') THEN NoBuild ELSE build[v]
            BY <1>1, <3>1, <3>2, OwnFacts
        <3>5. ~vault[v].owned => ~vault[v].checked
            BY <2>1, <3>3 DEF VaultInv, TakenIn
        <3> DEFINE ids == owned'
        <3> HIDE DEF ids
        <3>6. /\ v \in Orphans(up, vault, ids) => /\ Turned(v, AfterOwn(up, vault, ids)[v])
                                                  /\ v \notin ids /\ ShardOf[v] \in up
              /\ v \notin Orphans(up, vault, ids) =>
                   \/ /\ AfterOwn(up, vault, ids)[v] = vault[v]
                      /\ \/ ShardOf[v] \notin up
                         \/ vault[v].owned /\ v \in ids
                         \/ v \notin ids /\ ~vault[v].owned /\ (~index[v].there \/ index[v].stale)
                   \/ Met(v, AfterOwn(up, vault, ids)[v]) /\ v \in ids /\ ShardOf[v] \in up /\ ~vault[v].owned
            BY <1>1, <3>3, <3>5, OwnCases
        <3> USE DEF ids
        <3> QED BY <2>2, <2>3, <2>5, <3>3, <3>4, <3>6
    <2> QED BY <2>4, <2>5
<1>10. ASSUME NEW v \in Vault
       PROVE  VaultInv(v)'
    <2>1. VaultInv(v)
        BY DEF IInv
    <2>2. v \in home /\ v \notin owned' => v \notin owned /\ ~Good(v) /\ (~index[v].there \/ index[v].stale)
        <3>1. v \in home /\ v \notin owned' => v \notin owned /\ (~index[v].there \/ index[v].stale)
            BY <1>3, <2>1 DEF VaultInv, ListInv
        <3>2. index[v].built => index[v].there
            BY <2>1 DEF VaultInv, ReadsIndex
        <3> QED BY <3>1, <3>2 DEF Good, Doomed
    <2>3. CASE vault'[v] = vault[v] /\ build'[v] = build[v] /\ (vault[v].owned => v \in owned')
        <3>1. /\ Fed(v)' = Fed(v) /\ Had(v)' = Had(v)
              /\ \A r \in Res : Excused(v, r)' = Excused(v, r) /\ Kept(v, r)' = Kept(v, r)
            <4>1. Fed(v)' = Fed(v)
                BY <1>3, <1>5, <2>3 DEF Fed
            <4> QED BY <1>3, <1>4, <1>5, <2>3, <4>1 DEF Had, Excused, Kept, ToCome
        <3>2. OrphanInv(v)' /\ ReadsIndex(v)' /\ VaultBound(v)'
            <4>1. OrphanInv(v)'
                BY <1>3, <1>4, <1>5, <2>1, <2>3 DEF VaultInv, OrphanInv
            <4>2. ReadsIndex(v)'
                BY <1>3, <1>4, <1>5, <2>1, <2>3 DEF VaultInv, ReadsIndex
            <4>3. VaultBound(v)'
                BY <1>3, <1>4, <1>5, <2>1, <2>3 DEF VaultInv, VaultBound
            <4> QED BY <4>1, <4>2, <4>3
        <3>3. TakenIn(v)'
            BY <1>3, <1>4, <1>5, <2>1, <2>3 DEF VaultInv, TakenIn
        <3>4. ListInv(v)'
            BY <1>3, <1>4, <1>5, <2>1, <2>2, <2>3 DEF VaultInv, ListInv
        <3>5. PageInv(v)' /\ DiskInv(v)'
            BY <1>3, <1>4, <1>5, <2>1, <2>3, <3>1 DEF VaultInv, PageInv, DiskInv
        <3>6. IndexInv(v)' /\ BuildInv(v)'
            BY <1>3, <1>4, <1>5, <2>1, <2>3, <3>1 DEF VaultInv, IndexInv, BuildInv
        <3> QED BY <3>2, <3>3, <3>4, <3>5, <3>6 DEF VaultInv
    <2>4. CASE /\ epoch # NoEpoch /\ ShardOf[v] \in up /\ ~live[v].on
               /\ Turned(v, vault'[v]) /\ build'[v] = NoBuild /\ v \notin owned'
        <3>1. /\ ~vault'[v].owned /\ vault'[v].leaving /\ ~vault'[v].queued
              /\ vault'[v].checked = vault[v].checked /\ vault'[v].why = vault[v].why
              /\ vault'[v].seen = vault[v].seen /\ vault'[v].applied = vault[v].applied
              /\ \A r \in Res : vault'[v].pending[r] = 0
              /\ ~build'[v].on /\ build'[v].left = {} /\ ~live'[v].on
            BY <1>4, <2>4, Blank DEF Turned
        <3>2. moves # 0
            BY <1>6, <2>4
        <3>3. OrphanInv(v)' /\ ReadsIndex(v)' /\ TakenIn(v)' /\ ListInv(v)'
            <4>1. OrphanInv(v)'
                BY <1>3, <3>2 DEF OrphanInv
            <4>2. ReadsIndex(v)'
                BY <1>3, <1>4, <2>1, <3>1 DEF VaultInv, ReadsIndex
            <4>3. TakenIn(v)'
                BY <1>3, <2>1, <2>4, <3>1 DEF VaultInv, TakenIn
            <4>4. ListInv(v)'
                BY <1>3, <1>4, <2>2, <2>4, <3>1 DEF ListInv
            <4> QED BY <4>1, <4>2, <4>3, <4>4
        <3>4. VaultBound(v)'
            <4>1. VaultBound(v)
                BY <2>1 DEF VaultInv
            <4>2. \A r \in Res : row[v][r] \in Nat
                BY <1>1, Numbers
            <4> QED BY <1>3, <1>4, <1>5, <3>1, <4>1, <4>2 DEF VaultBound
        <3>5. Good(v) => ~Fed(v)'
            BY <1>3, <2>2, <2>4, <3>1 DEF Fed
        <3>6. PageInv(v)'
            <4>1. \A r \in Res : Excused(v, r) => Excused(v, r)'
                BY <1>4, <1>5, <3>1 DEF Excused
            <4> QED BY <1>3, <1>5, <2>1, <4>1 DEF VaultInv, PageInv
        <3>7. DiskInv(v)' /\ IndexInv(v)' /\ BuildInv(v)'
            <4>1. DiskInv(v)'
                BY <1>3, <1>4, <1>5, <2>1, <3>5 DEF VaultInv, DiskInv
            <4> QED BY <3>1, <4>1 DEF IndexInv, BuildInv
        <3> QED BY <3>3, <3>4, <3>6, <3>7 DEF VaultInv
    <2>5. CASE /\ epoch # NoEpoch /\ ShardOf[v] \in up /\ ~vault[v].leaving /\ build'[v] = build[v]
               /\ Met(v, vault'[v]) /\ v \in owned' /\ ~vault[v].owned
        <3>1. ~index[v].there \/ index[v].stale
            BY <2>1, <2>5 DEF VaultInv, ListInv
        <3>2. index[v].built => index[v].there
            BY <2>1 DEF VaultInv, ReadsIndex
        <3>3. ~Good(v)' /\ ~Good(v)
            BY <1>5, <3>1, <3>2 DEF Good, Doomed
        <3>4. ~build[v].on /\ ~live[v].on /\ build[v].left = {}
            BY <2>1, <2>5 DEF VaultInv, TakenIn
        <3>5. /\ vault'[v].owned /\ ~vault'[v].leaving
              /\ vault'[v].queued = index[v].there /\ vault'[v].checked = ~index[v].there
              /\ vault'[v].why = IF ~index[v].there THEN "missing" ELSE IF index[v].stale THEN "stale" ELSE ""
              /\ vault'[v].pending = vault[v].pending /\ vault'[v].seen = vault[v].seen
              /\ vault'[v].applied = vault[v].applied
            BY <2>5 DEF Met
        <3>6. PageInv(v)' /\ DiskInv(v)' /\ IndexInv(v)' /\ BuildInv(v)'
            BY <2>5, <3>3, <3>4, Unserved
        <3>7. OrphanInv(v)' /\ VaultBound(v)' /\ ListInv(v)'
            <4>1. OrphanInv(v)'
                BY <1>3, <1>4, <2>1, <3>5 DEF VaultInv, OrphanInv
            <4>2. VaultBound(v)'
                BY <1>3, <1>4, <1>5, <2>1, <2>5, <3>5 DEF VaultInv, VaultBound
            <4>3. ListInv(v)'
                BY <1>3, <2>5, <3>3, <3>5 DEF ListInv
            <4> QED BY <4>1, <4>2, <4>3
        <3>8. ReadsIndex(v)'
            BY <1>3, <1>4, <2>1, <2>5, <3>1, <3>2, <3>4, <3>5 DEF VaultInv, ReadsIndex, InPlace, Beside
        <3>9. TakenIn(v)'
            BY <1>3, <1>4, <2>5, <3>4, <3>5 DEF TakenIn
        <3> QED BY <3>6, <3>7, <3>8, <3>9 DEF VaultInv
    <2> QED BY <1>9, <2>3, <2>4, <2>5
<1> QED BY <1>2, <1>7, <1>8, <1>10 DEF IInv, GlobalInv
-----------------------------------------------------------------------------
(* A shard falls, or the peer does, and starts again.                       *)

LEMMA ShardDiesKeeps ==
    ASSUME IInv, NEW s \in Shard, ShardDies(s)
    PROVE  IInv'
<1>1. TypeOK /\ GlobalInv /\ RowInv /\ FeedInv /\ MainInv /\ ShardInv /\ MainBound /\ PageBound
    BY DEF IInv, GlobalInv
<1>2. TypeOK'
    BY <1>1, ShardDiesTypes
<1>3. /\ UNCHANGED <<feedEpoch, top, row, home, index, carried, saved, epoch, cursor, persisted,
                     rewindTo, owned, listed, listing, poll, moves>>
      /\ up' = up \ {s} /\ s \in up /\ crashes' = crashes + 1
      /\ save' = save \/ ~save'.on
    BY DEF ShardDies, backend, NoSave
<1>4. /\ \A t \in Shard : /\ know'[t] = IF t = s THEN NoEpoch ELSE know[t]
                          /\ feedPos'[t] = IF t = s THEN 0 ELSE feedPos[t]
      /\ \A v \in Vault :
           /\ ShardOf[v] = s => vault'[v] = NewVault /\ live'[v] = NoUnit /\ build'[v] = NoBuild
           /\ ShardOf[v] # s => vault'[v] = vault[v] /\ live'[v] = live[v] /\ build'[v] = build[v]
    <2>1. Forget({s})
        BY DEF ShardDies
    <2> QED BY <1>1, <2>1, ForgetFacts
<1>5. crashes' > 0 /\ crashes' # 0
    BY <1>1, <1>3, MainNumbers
<1>6. /\ Back' = Back /\ Current' = Current /\ Known' = Known /\ Shown' = Shown
      /\ \A v \in Vault : Alive(v)' = Alive(v) /\ Good(v)' = Good(v) /\ (Fed(v)' => Fed(v) \/ ShardOf[v] = s)
      /\ \A v \in Vault, r \in Res : InPage(v, r)' = InPage(v, r) /\ (Unsaved(v, r) => Unsaved(v, r)')
    <2>1. /\ Back' = Back /\ Current' = Current /\ Known' = Known /\ Shown' = Shown
          /\ \A v \in Vault : Alive(v)' = Alive(v) /\ Good(v)' = Good(v)
          /\ \A v \in Vault, r \in Res : InPage(v, r)' = InPage(v, r) /\ (Unsaved(v, r) => Unsaved(v, r)')
        BY <1>3 DEF Back, Current, Known, Shown, Alive, Good, Doomed, InPage, Unsaved
    <2>2. \A v \in Vault : Fed(v)' => Fed(v) \/ ShardOf[v] = s
        BY <1>3, <1>4, <2>1 DEF Fed
    <2> QED BY <2>1, <2>2
<1>7. RowInv' /\ FeedInv'
    BY <1>1, <1>3, <1>6 DEF RowInv, FeedInv, TypeOK
<1>8. MainInv' /\ ShardInv' /\ MainBound' /\ PageBound'
    <2>1. \A c \in poll.changes : c.v \in Vault
        BY <1>1, MainNumbers
    <2>2. MainInv'
        BY <1>1, <1>3, <1>6, <2>1 DEF MainInv
    <2>3. ShardInv'
        BY <1>1, <1>3, <1>4, <1>5 DEF ShardInv
    <2>4. MainBound'
        BY <1>1, <1>3, <1>4, MainNumbers DEF MainBound
    <2>5. PageBound'
        BY <1>1, <1>3, <1>6, <2>1 DEF PageBound
    <2> QED BY <2>2, <2>3, <2>4, <2>5
<1>9. ASSUME NEW v \in Vault
      PROVE  VaultInv(v)'
    <2>1. VaultInv(v)
        BY DEF IInv
    <2>2. CASE ShardOf[v] # s
        <3>1. vault'[v] = vault[v] /\ live'[v] = live[v] /\ build'[v] = build[v]
            BY <1>4, <2>2
        <3>2. /\ Fed(v)' => Fed(v)
              /\ Had(v) \subseteq Had(v)'
              /\ \A r \in Res : Excused(v, r)' = Excused(v, r) /\ (Kept(v, r) => Kept(v, r)')
            <4>1. Fed(v)' => Fed(v)
                BY <1>6, <2>2
            <4> QED BY <1>3, <1>5, <1>6, <3>1, <4>1 DEF Had, Excused, Kept, ToCome
        <3>3. OrphanInv(v)' /\ ReadsIndex(v)' /\ VaultBound(v)'
            <4>1. OrphanInv(v)'
                BY <1>3, <1>6, <2>1, <3>1 DEF VaultInv, OrphanInv
            <4>2. ReadsIndex(v)'
                BY <1>3, <1>6, <2>1, <3>1 DEF VaultInv, ReadsIndex
            <4>3. VaultBound(v)'
                BY <1>3, <1>6, <2>1, <3>1 DEF VaultInv, VaultBound
            <4> QED BY <4>1, <4>2, <4>3
        <3>4. TakenIn(v)'
            BY <1>3, <1>6, <2>1, <2>2, <3>1 DEF VaultInv, TakenIn
        <3>5. ListInv(v)'
            BY <1>3, <1>5, <1>6, <2>1, <3>1 DEF VaultInv, ListInv
        <3>6. PageInv(v)' /\ DiskInv(v)'
            BY <1>3, <1>6, <2>1, <3>1, <3>2 DEF VaultInv, PageInv, DiskInv
        <3>7. IndexInv(v)'
            BY <1>3, <1>6, <2>1, <3>1, <3>2 DEF VaultInv, IndexInv
        <3>8. BuildInv(v)'
            BY <1>3, <1>6, <2>1, <3>1, <3>2 DEF VaultInv, BuildInv
        <3> QED BY <3>3, <3>4, <3>5, <3>6, <3>7, <3>8 DEF VaultInv
    <2>3. CASE ShardOf[v] = s
        <3>1. vault'[v] = NewVault /\ live'[v] = NoUnit /\ build'[v] = NoBuild /\ ShardOf[v] \notin up'
            BY <1>3, <1>4, <2>3
        <3>2. OrphanInv(v)' /\ ReadsIndex(v)' /\ TakenIn(v)' /\ ListInv(v)'
            <4>1. OrphanInv(v)'
                BY <1>3, <2>1, <3>1, Blank DEF VaultInv, OrphanInv
            <4>2. ReadsIndex(v)'
                BY <1>3, <2>1, <3>1, Blank DEF VaultInv, ReadsIndex
            <4>3. TakenIn(v)'
                BY <3>1, Blank DEF TakenIn
            <4>4. ListInv(v)'
                BY <1>3, <1>5, <1>6, <2>1, <3>1, Blank DEF VaultInv, ListInv
            <4> QED BY <4>1, <4>2, <4>3, <4>4
        <3>3. VaultBound(v)'
            <4>1. VaultBound(v)
                BY <2>1 DEF VaultInv
            <4>2. /\ vault'[v].seen = 0 /\ vault'[v].applied = 0 /\ ~build'[v].on
                  /\ \A r \in Res : vault'[v].pending[r] = 0
                BY <3>1, Blank
            <4>3. top \in Nat /\ \A r \in Res : row[v][r] \in Nat
                BY <1>1, MainNumbers, Numbers
            <4> QED BY <1>3, <4>1, <4>2, <4>3 DEF VaultBound
        <3>4. Fed(v)' => Fed(v)
            BY <1>3, <3>1 DEF Fed
        <3>5. PageInv(v)'
            <4>1. \A r \in Res : Excused(v, r) => Excused(v, r)'
                BY <1>3, <1>6, <3>1, Blank DEF Excused
            <4> QED BY <1>3, <1>6, <2>1, <4>1 DEF VaultInv, PageInv
        <3>6. DiskInv(v)'
            BY <1>3, <1>6, <2>1, <3>1, <3>4, Blank DEF VaultInv, DiskInv
        <3>7. IndexInv(v)' /\ BuildInv(v)'
            BY <3>1, Blank DEF IndexInv, BuildInv
        <3> QED BY <3>2, <3>3, <3>5, <3>6, <3>7 DEF VaultInv
    <2> QED BY <2>2, <2>3
<1> QED BY <1>2, <1>7, <1>8, <1>9 DEF IInv, GlobalInv

LEMMA CrashKeeps ==
    ASSUME IInv, Crash
    PROVE  IInv'
<1>1. TypeOK /\ GlobalInv /\ RowInv /\ FeedInv /\ MainInv /\ ShardInv /\ MainBound /\ PageBound
    BY DEF IInv, GlobalInv
<1>2. TypeOK'
    BY <1>1, CrashTypes
<1>3. /\ UNCHANGED <<feedEpoch, top, row, home, index, carried, saved, moves>>
      /\ up' = Shard /\ crashes' = crashes + 1
      /\ epoch' = NoEpoch /\ cursor' = saved.cursor /\ persisted' = saved.cursor /\ rewindTo' = Nothing
      /\ owned' = {} /\ ~listed' /\ ~listing'.on /\ ~poll'.on /\ poll'.changes = {} /\ ~save'.on
    BY DEF Crash, backend, NoList, NoPage, NoSave
<1>4. /\ \A t \in Shard : know'[t] = NoEpoch /\ feedPos'[t] = 0
      /\ \A v \in Vault : vault'[v] = NewVault /\ live'[v] = NoUnit /\ build'[v] = NoBuild
    <2>1. Forget(Shard)
        BY DEF Crash
    <2> QED BY <1>1, <2>1, ForgetFacts, ShardAssumption
<1>5. crashes' # 0 /\ feedEpoch # NoEpoch /\ NoEpoch = 0 /\ feedEpoch \in Nat
    BY <1>1, <1>3, MainNumbers
<1>6. \A v \in Vault : /\ Alive(v)' = Alive(v) /\ Good(v)' = Good(v)
                       /\ Fed(v)' => v \in home
    BY <1>3 DEF Alive, Good, Doomed, Fed, Shown
<1>7. RowInv' /\ FeedInv'
    BY <1>1, <1>3, <1>6 DEF RowInv, FeedInv, TypeOK
<1>8. MainInv' /\ ShardInv' /\ MainBound' /\ PageBound'
    <2>1. MainInv'
        BY <1>1, <1>3, <1>5 DEF MainInv
    <2>2. ShardInv' /\ PageBound'
        BY <1>3, <1>4 DEF ShardInv, PageBound
    <2>3. MainBound'
        BY <1>1, <1>3, <1>5 DEF MainBound
    <2> QED BY <2>1, <2>2, <2>3
<1>9. ASSUME NEW v \in Vault
      PROVE  VaultInv(v)'
    <2>1. VaultInv(v)
        BY DEF IInv
    <2>2. vault'[v] = NewVault /\ live'[v] = NoUnit /\ build'[v] = NoBuild
        BY <1>4
    <2>3. OrphanInv(v)' /\ ReadsIndex(v)' /\ TakenIn(v)' /\ ListInv(v)'
        <3>1. OrphanInv(v)'
            BY <1>3, <2>1, <2>2, Blank DEF VaultInv, OrphanInv
        <3>2. ReadsIndex(v)'
            BY <1>3, <2>1, <2>2, Blank DEF VaultInv, ReadsIndex
        <3>3. TakenIn(v)'
            BY <2>2, Blank DEF TakenIn
        <3>4. ListInv(v)'
            BY <1>3, <1>5, <2>2, Blank DEF ListInv
        <3> QED BY <3>1, <3>2, <3>3, <3>4
    <2>4. VaultBound(v)'
        BY <1>3, <1>5, <2>1 DEF VaultInv, VaultBound
    <2>5. PageInv(v)' /\ IndexInv(v)' /\ BuildInv(v)'
        BY <1>3, <2>2, Blank DEF PageInv, IndexInv, BuildInv
    <2>6. DiskInv(v)'
        <3>1. DiskInv(v)
            BY <2>1 DEF VaultInv
        <3>2. ASSUME Alive(v), Good(v), NEW r \in Res \ (index[v].fresh \cup carried[v])
              PROVE  /\ row[v][r] > index[v].seq
                     /\ v \in home =>
                          /\ saved.epoch = feedEpoch => row[v][r] > saved.cursor
                          /\ saved.epoch = NoEpoch => row[v][r] > saved.cursor
            <4>1. row[v][r] > index[v].seq /\ (Fed(v) /\ saved.epoch = feedEpoch => row[v][r] > saved.cursor)
                BY <3>1, <3>2 DEF DiskInv
            <4>2. saved.epoch = NoEpoch => saved.cursor = 0
                BY <1>1 DEF MainInv
            <4>3. row[v][r] \in Nat /\ index[v].seq \in Nat
                BY <1>1, Numbers
            <4>4. v \in home => Fed(v)
                BY DEF Fed
            <4> QED BY <4>1, <4>2, <4>3, <4>4
        <3>3. Current' => saved.epoch \in {NoEpoch, feedEpoch}
            BY <1>3 DEF Current, Known
        <3> QED BY <1>3, <1>6, <2>2, <3>2, <3>3, Blank DEF DiskInv
    <2> QED BY <2>3, <2>4, <2>5, <2>6 DEF VaultInv
<1> QED BY <1>2, <1>7, <1>8, <1>9 DEF IInv, GlobalInv

LEMMA ShardRestartsKeeps ==
    ASSUME Apart, IInv, NEW s \in Shard, ShardRestarts(s)
    PROVE  IInv'
<1> DEFINE ids == owned \cap Of(s)
<1>1. TypeOK /\ GlobalInv /\ RowInv /\ FeedInv /\ MainInv /\ ShardInv /\ MainBound /\ PageBound
    BY DEF IInv, GlobalInv
<1>2. TypeOK' /\ \A t \in Shard : know'[t] = IF t = s THEN epoch ELSE know[t]
    BY <1>1, ShardRestartsTypes
<1>3. /\ UNCHANGED <<feedEpoch, top, row, home, feedPos, carried, saved, epoch, cursor, persisted,
                     owned, listed, listing, poll, save, crashes, moves>>
      /\ up' = up \cup {s} /\ s \notin up /\ epoch # NoEpoch /\ rewindTo' = persisted
      /\ Own(up', vault, ids) /\ \A v \in Vault : ~vault[v].leaving /\ (v \in Orphans(up', vault, ids) => ~live[v].on)
    BY DEF ShardRestarts, backend, Apart, Calm
<1>4. /\ vault' = AfterOwn(up', vault, ids) /\ index' = index /\ live' = live
      /\ \A v \in Vault : build'[v] = IF v \in Orphans(up', vault, ids) THEN NoBuild ELSE build[v]
    <2>1. vault \in [Vault -> VaultState] /\ Own(up', vault, ids)
        BY <1>1, <1>3, Functions
    <2> HIDE DEF ids
    <2> QED BY <1>1, <2>1, OwnFacts
<1>5. crashes # 0 /\ listed /\ rewindTo' # Nothing
    BY <1>1, <1>3, MainNumbers DEF ShardInv, MainInv
<1>6. /\ Current' = Current /\ Known' = Known /\ Shown' = Shown
      /\ \A v \in Vault : /\ Alive(v)' = Alive(v) /\ Good(v)' = Good(v) /\ Had(v)' = Had(v)
                          /\ Fed(v)' => Fed(v)
      /\ \A v \in Vault, r \in Res : Unsaved(v, r)' = Unsaved(v, r)
    BY <1>3, <1>4, <1>5 DEF Current, Known, Shown, Alive, Good, Doomed, Fed, Had, Unsaved
<1>7. \A n \in Nat : n > persisted => n > Back'
    <2>1. Back' = Smaller(cursor, persisted)
        BY <1>3 DEF Back
    <2> QED BY <1>1, <2>1, MainNumbers DEF Smaller
<1>8. RowInv' /\ FeedInv'
    BY <1>1, <1>3, <1>6 DEF RowInv, FeedInv, TypeOK
<1>9. MainInv' /\ ShardInv' /\ MainBound' /\ PageBound'
    <2>1. \A c \in poll.changes : c.v \in Vault
        BY <1>1, MainNumbers
    <2>2. MainInv'
        BY <1>1, <1>3, <1>6, <2>1 DEF MainInv
    <2>3. ShardInv' /\ MainBound'
        BY <1>1, <1>2, <1>3 DEF ShardInv, MainBound
    <2>4. PageBound'
        BY <1>1, <1>3, <1>6, <2>1 DEF PageBound
    <2> QED BY <2>2, <2>3, <2>4
<1>10. ASSUME NEW v \in Vault
       PROVE  \/ /\ vault'[v] = vault[v] /\ build'[v] = build[v]
                 /\ ~vault[v].owned /\ ShardOf[v] \in up' => ~index[v].there \/ index[v].stale
              \/ /\ ShardOf[v] \in up' /\ ~live[v].on
                 /\ Turned(v, vault'[v]) /\ build'[v] = NoBuild /\ v \notin ids
              \/ /\ ShardOf[v] = s /\ build'[v] = build[v]
                 /\ Met(v, vault'[v]) /\ v \in owned
    <2>1. VaultInv(v) /\ ~vault[v].leaving
        BY <1>3 DEF IInv
    <2>2. ~vault[v].owned => ~vault[v].checked
        BY <2>1 DEF VaultInv, TakenIn
    <2>3. v \in ids => v \in owned /\ ShardOf[v] = s
        BY DEF Of
    <2> HIDE DEF ids
    <2>4. /\ v \in Orphans(up', vault, ids) => /\ Turned(v, AfterOwn(up', vault, ids)[v])
                                               /\ v \notin ids /\ ShardOf[v] \in up'
          /\ v \notin Orphans(up', vault, ids) =>
               \/ /\ AfterOwn(up', vault, ids)[v] = vault[v]
                  /\ \/ ShardOf[v] \notin up'
                     \/ vault[v].owned /\ v \in ids
                     \/ v \notin ids /\ ~vault[v].owned /\ (~index[v].there \/ index[v].stale)
               \/ Met(v, AfterOwn(up', vault, ids)[v]) /\ v \in ids /\ ShardOf[v] \in up' /\ ~vault[v].owned
        BY <1>1, <2>1, <2>2, OwnCases
    <2> QED BY <1>3, <1>4, <2>3, <2>4
<1>11. ASSUME NEW v \in Vault
       PROVE  VaultInv(v)'
    <2>1. VaultInv(v) /\ ~vault[v].leaving
        BY <1>3 DEF IInv
    <2>2. PageInv(v)'
        BY <1>5 DEF PageInv
    <2>3. \A r \in Res : row[v][r] \in Nat /\ index[v].seq \in Nat
        BY <1>1, Numbers
    <2>4. ASSUME Alive(v), Good(v), NEW r \in Res \ (index[v].fresh \cup carried[v])
          PROVE  /\ row[v][r] > index[v].seq
                 /\ Fed(v)' => row[v][r] > Back' /\ Unsaved(v, r)
        <3>1. /\ row[v][r] > index[v].seq
              /\ Fed(v) => /\ saved.epoch = feedEpoch => row[v][r] > saved.cursor
                           /\ Current => row[v][r] > persisted /\ (save.on => row[v][r] > save.safe)
            BY <2>1, <2>4 DEF VaultInv, DiskInv
        <3>2. Current
            BY <1>3, <2>4, GoodServes
        <3>3. Fed(v)' => row[v][r] > persisted /\ Unsaved(v, r)
            BY <1>6, <3>1, <3>2 DEF Unsaved
        <3> QED BY <1>7, <2>3, <3>1, <3>3
    <2>5. DiskInv(v)'
        BY <1>3, <1>4, <1>6, <2>4 DEF DiskInv, Unsaved
    <2>6. CASE /\ vault'[v] = vault[v] /\ build'[v] = build[v]
               /\ ~vault[v].owned /\ ShardOf[v] \in up' => ~index[v].there \/ index[v].stale
        <3>1. OrphanInv(v)' /\ ReadsIndex(v)' /\ VaultBound(v)'
            <4>1. OrphanInv(v)'
                BY <1>3, <1>4, <1>6, <2>1, <2>6 DEF VaultInv, OrphanInv
            <4>2. ReadsIndex(v)'
                BY <1>3, <1>4, <1>6, <2>1, <2>6 DEF VaultInv, ReadsIndex
            <4>3. VaultBound(v)'
                BY <1>3, <1>4, <1>6, <2>1, <2>6 DEF VaultInv, VaultBound
            <4> QED BY <4>1, <4>2, <4>3
        <3>2. TakenIn(v)' /\ ListInv(v)'
            <4>1. TakenIn(v)'
                BY <1>3, <1>4, <1>6, <2>1, <2>6 DEF VaultInv, TakenIn
            <4>2. ListInv(v)'
                BY <1>3, <1>4, <1>5, <1>6, <2>1, <2>6 DEF VaultInv, ListInv
            <4> QED BY <4>1, <4>2
        <3>3. \A r \in Res : Kept(v, r) => Kept(v, r)'
            <4>1. \A r \in Res : ToCome(v, r) => ToCome(v, r)'
                <5>1. \A r \in Res : Unsaved(v, r) => row[v][r] > persisted
                    BY DEF Unsaved
                <5> QED BY <1>3, <1>6, <1>7, <2>3, <5>1 DEF ToCome
            <4> QED BY <1>3, <2>6, <4>1 DEF Kept
        <3>4. IndexInv(v)'
            <4>1. IndexInv(v)
                BY <2>1 DEF VaultInv
            <4> QED BY <1>3, <1>4, <1>6, <2>6, <3>3, <4>1 DEF IndexInv
        <3>5. BuildInv(v)'
            <4>1. BuildInv(v)
                BY <2>1 DEF VaultInv
            <4> QED BY <1>3, <1>4, <1>6, <2>6, <3>3, <4>1 DEF BuildInv
        <3> QED BY <2>2, <2>5, <3>1, <3>2, <3>4, <3>5 DEF VaultInv
    <2>7. CASE /\ ShardOf[v] \in up' /\ ~live[v].on
               /\ Turned(v, vault'[v]) /\ build'[v] = NoBuild /\ v \notin ids
        <3>1. /\ ~vault'[v].owned /\ vault'[v].leaving /\ ~vault'[v].queued
              /\ vault'[v].checked = vault[v].checked /\ vault'[v].why = vault[v].why
              /\ vault'[v].seen = vault[v].seen /\ vault'[v].applied = vault[v].applied
              /\ \A r \in Res : vault'[v].pending[r] = 0
              /\ ~build'[v].on /\ build'[v].left = {} /\ ~live'[v].on
            BY <1>4, <2>7, Blank DEF Turned
        <3>2. OrphanInv(v)'
            <4>1. MaxEpoch # 1 => ShardOf[v] = s
                BY <1>1, StoreTypes DEF Apart
            <4>2. moves = 0 => v \in owned
                BY <1>1, <1>5 DEF MainInv
            <4>3. v \in owned => ShardOf[v] # s
                BY <2>7 DEF Of
            <4> QED BY <1>3, <4>1, <4>2, <4>3 DEF OrphanInv
        <3>3. ReadsIndex(v)' /\ TakenIn(v)' /\ ListInv(v)'
            <4>1. ReadsIndex(v)'
                BY <1>3, <1>4, <2>1, <3>1 DEF VaultInv, ReadsIndex
            <4>2. TakenIn(v)'
                BY <1>3, <2>1, <2>7, <3>1 DEF VaultInv, TakenIn
            <4>3. ListInv(v)'
                BY <1>3, <1>4, <2>1, <3>1 DEF VaultInv, ListInv
            <4> QED BY <4>1, <4>2, <4>3
        <3>4. VaultBound(v)'
            <4>1. VaultBound(v)
                BY <2>1 DEF VaultInv
            <4>2. \A r \in Res : vault'[v].pending[r] <= row[v][r]
                BY <2>3, <3>1
            <4>3. build'[v].on = FALSE /\ index'[v] = index[v]
                BY <1>4, <3>1
            <4> QED BY <1>3, <1>6, <3>1, <4>1, <4>2, <4>3 DEF VaultBound
        <3>5. IndexInv(v)' /\ BuildInv(v)'
            BY <3>1 DEF IndexInv, BuildInv
        <3> QED BY <2>2, <2>5, <3>2, <3>3, <3>4, <3>5 DEF VaultInv
    <2>8. CASE /\ ShardOf[v] = s /\ build'[v] = build[v]
               /\ Met(v, vault'[v]) /\ v \in owned
        <3>1. vault[v] = NewVault
            BY <1>3, <2>1, <2>8 DEF VaultInv, TakenIn
        <3>2. ~build[v].on /\ ~live[v].on /\ build[v].left = {} /\ (index[v].built => index[v].there)
            BY <2>1, <3>1, Blank DEF VaultInv, TakenIn, ReadsIndex
        <3>3. /\ vault'[v].owned /\ ~vault'[v].leaving
              /\ vault'[v].queued = index[v].there /\ vault'[v].checked = ~index[v].there
              /\ vault'[v].why = IF ~index[v].there THEN "missing" ELSE IF index[v].stale THEN "stale" ELSE ""
              /\ vault'[v].pending = vault[v].pending /\ vault'[v].seen = 0 /\ vault'[v].applied = vault[v].applied
            BY <2>8, <3>1, Blank DEF Met
        <3>4. OrphanInv(v)' /\ VaultBound(v)' /\ ListInv(v)'
            <4>1. OrphanInv(v)'
                BY <1>3, <1>4, <2>1, <3>3 DEF VaultInv, OrphanInv
            <4>2. VaultBound(v)'
                <5>1. VaultBound(v) /\ 0 <= top
                    BY <1>1, <2>1, MainNumbers DEF VaultInv
                <5> QED BY <1>3, <1>4, <1>6, <2>8, <3>3, <5>1 DEF VaultBound
            <4>3. ListInv(v)'
                BY <1>3, <1>5, <1>6, <2>1, <2>8, <3>3 DEF VaultInv, ListInv
            <4> QED BY <4>1, <4>2, <4>3
        <3>5. ReadsIndex(v)'
            BY <1>3, <1>4, <2>1, <2>8, <3>2, <3>3 DEF VaultInv, ReadsIndex, InPlace, Beside
        <3>6. TakenIn(v)'
            BY <1>3, <1>4, <2>8, <3>2, <3>3 DEF TakenIn
        <3>7. IndexInv(v)'
            <4>1. Good(v) => ~vault'[v].checked
                <5>1. Good(v) => index[v].there
                    BY GoodServes
                <5> QED BY <3>3, <5>1
            <4>2. Had(v) = index[v].fresh \cup carried[v]
                BY <1>5 DEF Had
            <4>3. \A r \in Res : row[v][r] > index[v].seq => row[v][r] > 0 /\ ~(row[v][r] <= 0)
                BY <2>3
            <4>4. ASSUME Alive(v), Good(v), NEW r \in Res \ Had(v)
                  PROVE  row[v][r] > index[v].seq /\ Kept(v, r)'
                <5>1. row[v][r] > index[v].seq /\ (Fed(v)' => row[v][r] > Back' /\ Unsaved(v, r))
                    BY <2>4, <4>2, <4>4
                <5>2. ToCome(v, r)'
                    BY <1>3, <1>6, <5>1 DEF ToCome
                <5>3. ~(row'[v][r] <= vault'[v].seen)
                    BY <1>3, <3>3, <4>3, <5>1
                <5> QED BY <5>1, <5>2, <5>3 DEF Kept
            <4> QED BY <1>3, <1>4, <1>6, <3>2, <4>1, <4>4 DEF IndexInv
        <3>8. BuildInv(v)'
            BY <2>8, <3>2 DEF BuildInv
        <3> QED BY <2>2, <2>5, <3>4, <3>5, <3>6, <3>7, <3>8 DEF VaultInv
    <2> QED BY <1>10, <2>6, <2>7, <2>8
<1> QED BY <1>2, <1>8, <1>9, <1>11 DEF IInv, GlobalInv
-----------------------------------------------------------------------------
(* Another epoch.                                                           *)

\* There is no orphan yet: the vaults are those of the peer, and each goes on as it was, to
\* be built again, or is met for the first time.
LEMMA EpochTurns ==
    ASSUME Apart, IInv, NewEpoch
    PROVE  /\ moves = 0 /\ feedEpoch # 1 /\ MaxEpoch # 1 /\ poll.on /\ listed /\ owned = Vault /\ home = Vault
           /\ poll.epoch # NoEpoch /\ poll.epoch <= feedEpoch /\ saved.epoch < poll.epoch
           /\ epoch # NoEpoch => epoch < poll.epoch
           /\ index' = index /\ live' = live /\ build' = build
           /\ \A v \in Vault :
                /\ Alive(v) /\ ~vault[v].leaving /\ ~index[v].stale /\ ~build[v].on /\ build[v].left = {}
                /\ ShardOf[v] \notin up => vault[v] = NewVault /\ vault'[v] = NewVault
                /\ ShardOf[v] \in up =>
                     /\ vault'[v].owned /\ ~vault'[v].leaving
                     /\ vault'[v].seen = 0 /\ vault'[v].applied = 0 /\ \A r \in Res : vault'[v].pending[r] = 0
                     /\ vault[v].owned =>
                          /\ vault'[v].queued = vault[v].queued /\ vault'[v].checked = vault[v].checked
                          /\ vault'[v].why = IF vault[v].why = "" THEN "epoch" ELSE vault[v].why
                     /\ ~vault[v].owned =>
                          /\ vault'[v].queued = index[v].there /\ vault'[v].checked = ~index[v].there
                          /\ vault'[v].why = IF ~index[v].there THEN "missing" ELSE ""
<1>1. TypeOK /\ FeedInv /\ MainInv
    BY DEF IInv, GlobalInv
<1>2. /\ poll.on /\ Known # NoEpoch /\ Known # poll.epoch
      /\ \A v \in Vault : ~build[v].on
      /\ Own(up, AfterEpoch(up), owned)
    BY DEF NewEpoch, Apart
<1>3. /\ listed /\ Known <= poll.epoch /\ poll.epoch <= feedEpoch /\ poll.epoch # NoEpoch
      /\ epoch # NoEpoch => saved.epoch <= epoch
    BY <1>1, <1>2 DEF MainInv
<1>4. /\ Known \in Nat /\ poll.epoch \in Nat /\ feedEpoch \in Nat /\ saved.epoch \in Nat /\ epoch \in Nat
      /\ NoEpoch = 0 /\ MaxEpoch \in Nat
    BY <1>1, MainNumbers, Constants DEF Known
<1>5. Known < poll.epoch /\ poll.epoch > 1 /\ feedEpoch > 1
    BY <1>2, <1>3, <1>4
<1>6. saved.epoch < poll.epoch /\ (epoch # NoEpoch => epoch < poll.epoch)
    BY <1>3, <1>4, <1>5 DEF Known
<1>7. moves = 0 /\ feedEpoch # 1 /\ owned = Vault /\ home = Vault /\ \A v \in Vault : Alive(v)
    <2>1. moves = 0
        BY <1>1, <1>5 DEF FeedInv
    <2>2. owned = Vault
        BY <1>1, <1>3, <2>1 DEF MainInv
    <2> QED BY <1>1, <1>5, <2>1, <2>2 DEF FeedInv
<1>8. MaxEpoch # 1
    <2>1. feedEpoch \in 1..MaxEpoch
        BY <1>1 DEF TypeOK, Epoch
    <2> QED BY <1>4, <1>5, <2>1
<1> DEFINE known == AfterEpoch(up)
<1>9. known \in [Vault -> VaultState]
    BY <1>1, AfterEpochFacts
<1>10. /\ vault' = AfterOwn(up, known, owned) /\ index' = index /\ live' = live
       /\ build' \in [Vault -> BuildState]
       /\ \A v \in Vault : build'[v] = IF v \in Orphans(up, known, owned) THEN NoBuild ELSE build[v]
    <2>1. Own(up, known, owned)
        BY <1>2
    <2> HIDE DEF known
    <2> QED BY <1>1, <1>9, <2>1, OwnFacts
<1>11. \A v \in Vault :
         /\ v \notin Orphans(up, known, owned)
         /\ ShardOf[v] \in up => vault'[v] = Adopted(v, known[v])
         /\ ShardOf[v] \notin up => vault'[v] = known[v]
    <2> HIDE DEF known
    <2> QED BY <1>1, <1>7, <1>9, <1>10, AfterOwnFacts
<1>12. build' = build
    <2>1. build \in [Vault -> BuildState]
        BY <1>1, Functions
    <2>2. \A v \in Vault : build'[v] = build[v]
        BY <1>10, <1>11
    <2> QED BY <1>10, <2>1, <2>2
<1>13. ASSUME NEW v \in Vault
       PROVE  /\ ~vault[v].leaving /\ ~index[v].stale /\ build[v].left = {}
              /\ ShardOf[v] \notin up => vault[v] = NewVault /\ vault'[v] = NewVault
              /\ ~vault[v].owned => ~vault[v].checked
    <2>1. OrphanInv(v) /\ TakenIn(v)
        BY DEF IInv, VaultInv
    <2>2. ~vault[v].leaving /\ ~index[v].stale
        BY <1>7, <1>8, <2>1 DEF OrphanInv
    <2>3. ShardOf[v] \notin up => known[v] = vault[v]
        BY <1>1, AfterEpochFacts
    <2> HIDE DEF known
    <2>4. /\ build[v].left = {} /\ (ShardOf[v] \notin up => vault[v] = NewVault)
          /\ ~vault[v].owned => ~vault[v].checked
        BY <1>2, <2>1, <2>2 DEF TakenIn
    <2> QED BY <1>11, <2>2, <2>3, <2>4
<1>14. ASSUME NEW v \in Vault, ShardOf[v] \in up
       PROVE  /\ vault'[v].owned /\ ~vault'[v].leaving
              /\ vault'[v].seen = 0 /\ vault'[v].applied = 0 /\ \A r \in Res : vault'[v].pending[r] = 0
              /\ vault[v].owned =>
                   /\ vault'[v].queued = vault[v].queued /\ vault'[v].checked = vault[v].checked
                   /\ vault'[v].why = IF vault[v].why = "" THEN "epoch" ELSE vault[v].why
              /\ ~vault[v].owned =>
                   /\ vault'[v].queued = index[v].there /\ vault'[v].checked = ~index[v].there
                   /\ vault'[v].why = IF ~index[v].there THEN "missing" ELSE ""
    <2>1. /\ known[v].applied = 0 /\ known[v].seen = 0 /\ known[v].pending = NoPending
          /\ known[v].owned = vault[v].owned /\ known[v].leaving = vault[v].leaving
          /\ known[v].queued = vault[v].queued /\ known[v].checked = vault[v].checked
          /\ known[v].why = IF vault[v].owned /\ vault[v].why = "" THEN "epoch" ELSE vault[v].why
        BY <1>1, <1>14, AfterEpochFacts
    <2>2. known[v] \in VaultState
        BY <1>9
    <2> HIDE DEF known
    <2> DEFINE w == known[v]
    <2>3. w \in VaultState
        BY <2>2
    <2> HIDE DEF w
    <2>4. /\ Adopted(v, w).owned
          /\ Adopted(v, w).leaving = w.leaving /\ Adopted(v, w).pending = w.pending
          /\ Adopted(v, w).seen = w.seen /\ Adopted(v, w).applied = w.applied
          /\ w.owned \/ w.checked =>
                /\ Adopted(v, w).queued = w.queued /\ Adopted(v, w).checked = w.checked
                /\ Adopted(v, w).why = w.why
          /\ ~w.owned /\ ~w.checked =>
                /\ Adopted(v, w).queued = index[v].there
                /\ Adopted(v, w).checked = ~index[v].there
                /\ Adopted(v, w).why = IF ~index[v].there THEN "missing"
                                       ELSE IF index[v].stale THEN "stale" ELSE ""
        BY <1>1, <2>3, AdoptedFacts
    <2>5. vault'[v] = Adopted(v, w)
        BY <1>11, <1>14 DEF w
    <2>6. /\ w.applied = 0 /\ w.seen = 0 /\ w.pending = NoPending
          /\ w.owned = vault[v].owned /\ w.leaving = vault[v].leaving
          /\ w.queued = vault[v].queued /\ w.checked = vault[v].checked
          /\ w.why = IF vault[v].owned /\ vault[v].why = "" THEN "epoch" ELSE vault[v].why
        BY <2>1 DEF w
    <2>7. \A r \in Res : NoPending[r] = 0
        BY Blank
    <2>8. ~vault[v].leaving /\ ~index[v].stale /\ (~vault[v].owned => ~vault[v].checked)
        BY <1>13
    <2>9. /\ vault'[v].owned /\ ~vault'[v].leaving
          /\ vault'[v].seen = 0 /\ vault'[v].applied = 0 /\ \A r \in Res : vault'[v].pending[r] = 0
        BY <2>4, <2>5, <2>6, <2>7, <2>8
    <2>10. vault[v].owned =>
             /\ vault'[v].queued = vault[v].queued /\ vault'[v].checked = vault[v].checked
             /\ vault'[v].why = IF vault[v].why = "" THEN "epoch" ELSE vault[v].why
        BY <2>4, <2>5, <2>6
    <2>11. ~vault[v].owned =>
             /\ vault'[v].queued = index[v].there /\ vault'[v].checked = ~index[v].there
             /\ vault'[v].why = IF ~index[v].there THEN "missing" ELSE ""
        BY <2>4, <2>5, <2>6, <2>8
    <2> QED BY <2>9, <2>10, <2>11
<1> QED BY <1>2, <1>3, <1>6, <1>7, <1>8, <1>10, <1>12, <1>13, <1>14

LEMMA NewEpochKeeps ==
    ASSUME Apart, IInv, NewEpoch
    PROVE  IInv'
<1>1. TypeOK /\ GlobalInv /\ RowInv /\ FeedInv /\ MainInv /\ ShardInv /\ MainBound /\ PageBound
    BY DEF IInv, GlobalInv
<1>2. /\ TypeOK'
      /\ \A s \in Shard : /\ know'[s] = IF s \in up THEN poll.epoch ELSE know[s]
                          /\ feedPos'[s] = IF s \in up THEN 0 ELSE feedPos[s]
    BY <1>1, NewEpochTypes
<1>3. /\ UNCHANGED <<feedEpoch, top, row, home, up, carried, saved, rewindTo, owned, listed, listing, save,
                     crashes, moves>>
      /\ epoch' = poll.epoch /\ cursor' = 0 /\ persisted' = 0 /\ ~save.on
      /\ ~poll'.on /\ poll'.changes = {}
    BY DEF NewEpoch, backend, NoPage, Apart
<1>4. /\ moves = 0 /\ feedEpoch # 1 /\ MaxEpoch # 1 /\ poll.on /\ listed /\ owned = Vault /\ home = Vault
      /\ poll.epoch # NoEpoch /\ poll.epoch <= feedEpoch /\ saved.epoch < poll.epoch
      /\ epoch # NoEpoch => epoch < poll.epoch
      /\ index' = index /\ live' = live /\ build' = build
    BY EpochTurns
<1>5. \A v \in Vault : Alive(v)' = Alive(v) /\ Good(v)' = Good(v)
    BY <1>3, <1>4 DEF Alive, Good, Doomed
<1>6. saved.epoch # feedEpoch /\ saved.epoch <= poll.epoch /\ (epoch # NoEpoch => epoch # feedEpoch)
    BY <1>1, <1>4, MainNumbers
<1>7. Back' = 0
    BY <1>1, <1>3, MainNumbers DEF Back, Smaller
<1>8. RowInv' /\ FeedInv'
    BY <1>1, <1>3, <1>5 DEF RowInv, FeedInv, TypeOK
<1>9. MainInv' /\ ShardInv' /\ MainBound' /\ PageBound'
    <2>1. MainInv'
        BY <1>1, <1>3, <1>4, <1>6 DEF MainInv
    <2>2. ShardInv' /\ PageBound'
        BY <1>1, <1>2, <1>3, <1>4 DEF ShardInv, PageBound
    <2>3. \A s \in Shard : feedPos'[s] = 0
        BY <1>1, <1>2 DEF ShardInv
    <2>4. MainBound'
        BY <1>1, <1>3, <1>6, <2>3, MainNumbers DEF MainBound
    <2> QED BY <2>1, <2>2, <2>4
<1>10. ASSUME NEW v \in Vault
       PROVE  VaultInv(v)'
    <2>1. VaultInv(v)
        BY DEF IInv
    <2>2. /\ Alive(v) /\ ~vault[v].leaving /\ ~index[v].stale /\ ~build[v].on /\ build[v].left = {}
          /\ ShardOf[v] \notin up => vault[v] = NewVault /\ vault'[v] = NewVault
          /\ ShardOf[v] \in up =>
               /\ vault'[v].owned /\ ~vault'[v].leaving
               /\ vault'[v].seen = 0 /\ vault'[v].applied = 0 /\ \A r \in Res : vault'[v].pending[r] = 0
               /\ vault[v].owned =>
                    /\ vault'[v].queued = vault[v].queued /\ vault'[v].checked = vault[v].checked
                    /\ vault'[v].why = IF vault[v].why = "" THEN "epoch" ELSE vault[v].why
               /\ ~vault[v].owned =>
                    /\ vault'[v].queued = index[v].there /\ vault'[v].checked = ~index[v].there
                    /\ vault'[v].why = IF ~index[v].there THEN "missing" ELSE ""
        BY EpochTurns
    <2>3. /\ ~vault'[v].leaving /\ ~build'[v].on /\ build'[v].left = {}
          /\ vault'[v].seen = 0 /\ vault'[v].applied = 0 /\ \A r \in Res : vault'[v].pending[r] = 0
          /\ vault'[v].owned => ShardOf[v] \in up
          /\ ~vault'[v].owned => vault'[v] = NewVault /\ vault[v] = NewVault /\ ShardOf[v] \notin up
        BY <1>4, <2>2, Blank
    <2>4. index[v].epoch <= poll.epoch /\ (epoch # NoEpoch => index[v].epoch <= epoch)
        BY <1>4, <2>1 DEF VaultInv, ReadsIndex
    <2>5. epoch # NoEpoch => index[v].epoch # poll.epoch /\ index[v].epoch # feedEpoch
        BY <1>1, <1>4, <2>4, MainNumbers, Numbers
    <2>6. Good(v) => epoch = NoEpoch
        BY <2>5 DEF Good, Doomed
    <2>7. epoch = NoEpoch => vault[v] = NewVault
        BY <2>1 DEF VaultInv, TakenIn
    <2>8. vault[v].owned => epoch # NoEpoch
        BY <2>7, Blank
    <2>9. Good(v) => crashes # 0 /\ index[v].there /\ ~vault[v].owned /\ ~live[v].on
        <3> SUFFICES ASSUME Good(v)
                     PROVE  crashes # 0 /\ index[v].there /\ ~vault[v].owned /\ ~live[v].on
            OBVIOUS
        <3>1. index[v].there /\ ~index[v].stale
            BY GoodServes
        <3>2. vault[v] = NewVault
            BY <2>6, <2>7
        <3>3. ~vault[v].owned /\ ~vault[v].leaving
            BY <3>2, Blank
        <3>4. ListInv(v) /\ TakenIn(v)
            BY <2>1 DEF VaultInv
        <3>5. crashes # 0
            BY <3>1, <3>3, <3>4 DEF ListInv
        <3> QED BY <3>1, <3>3, <3>4, <3>5 DEF TakenIn
    <2>10. \A r \in Res : row[v][r] \in Nat /\ index[v].seq \in Nat
        BY <1>1, Numbers
    <2>11. ASSUME Good(v), NEW r \in Res \ (index[v].fresh \cup carried[v])
           PROVE  row[v][r] > index[v].seq /\ row[v][r] > 0
        <3>1. row[v][r] > index[v].seq
            BY <2>1, <2>2, <2>11 DEF VaultInv, DiskInv
        <3> QED BY <2>10, <3>1
    <2>12. OrphanInv(v)' /\ VaultBound(v)' /\ PageInv(v)' /\ BuildInv(v)'
        <3>1. OrphanInv(v)' /\ PageInv(v)' /\ BuildInv(v)'
            BY <1>3, <1>4, <2>2, <2>3 DEF OrphanInv, PageInv, BuildInv
        <3>2. VaultBound(v)'
            <4>1. VaultBound(v) /\ 0 <= top /\ \A r \in Res : 0 <= row[v][r]
                BY <1>1, <2>1, <2>10, MainNumbers DEF VaultInv
            <4> QED BY <1>3, <1>4, <2>3, <4>1 DEF VaultBound
        <3> QED BY <3>1, <3>2
    <2>13. ReadsIndex(v)'
        <3>1. ReadsIndex(v)
            BY <2>1 DEF VaultInv
        <3>2. vault'[v].owned =>
                /\ vault'[v].why = "" /\ vault'[v].checked => FALSE
                /\ vault'[v].why \in Beside /\ vault'[v].checked => index[v].built
                /\ vault'[v].why \in InPlace => ~index[v].built
                /\ vault'[v].why = "stale" => index[v].stale
                /\ vault'[v].why = "epoch" => index[v].epoch # poll.epoch
            <4>1. CASE vault[v].owned
                BY <2>2, <2>3, <2>5, <2>8, <3>1, <4>1 DEF ReadsIndex, InPlace, Beside
            <4>2. CASE ~vault[v].owned
                BY <2>2, <2>3, <3>1, <4>2 DEF ReadsIndex, InPlace, Beside
            <4> QED BY <4>1, <4>2
        <3> QED BY <1>3, <1>4, <2>3, <2>4, <3>1, <3>2 DEF ReadsIndex
    <2>14. TakenIn(v)'
        <3>1. TakenIn(v)
            BY <2>1 DEF VaultInv
        <3>2. /\ ShardOf[v] \notin up => vault'[v] = NewVault
              /\ vault'[v].owned => vault'[v].checked \/ vault'[v].queued
              /\ ~vault'[v].owned => ~live[v].on /\ ~vault'[v].checked
            BY <1>4, <2>2, <2>3, <3>1, Blank DEF TakenIn
        <3> QED BY <1>3, <1>4, <2>3, <3>2 DEF TakenIn
    <2>15. ListInv(v)'
        <3>1. listing.on => listing.ids = Vault
            BY <1>1, <1>4 DEF MainInv
        <3>2. ShardOf[v] \notin up => crashes # 0
            BY <1>1, MainNumbers, ShardAssumption DEF ShardInv
        <3> QED BY <1>3, <1>4, <1>5, <2>3, <2>9, <3>1, <3>2 DEF ListInv
    <2>16. DiskInv(v)'
        BY <1>3, <1>4, <1>5, <1>6, <2>3, <2>11 DEF DiskInv
    <2>17. IndexInv(v)'
        <3>1. vault'[v].owned /\ Good(v) => ~vault'[v].checked
            BY <2>2, <2>3, <2>9
        <3>2. ASSUME Good(v), NEW r \in Res \ Had(v)'
              PROVE  row[v][r] > index[v].seq /\ Kept(v, r)'
            <4>1. r \in Res \ (index[v].fresh \cup carried[v])
                BY <1>3, <1>4, <2>9, <3>2 DEF Had
            <4>2. row[v][r] > index[v].seq /\ row[v][r] > 0 /\ ~(row[v][r] <= 0)
                BY <2>10, <2>11, <3>2, <4>1
            <4>3. ToCome(v, r)'
                BY <1>3, <1>6, <1>7, <4>2 DEF ToCome, Unsaved
            <4> QED BY <1>3, <2>3, <4>2, <4>3 DEF Kept
        <3> QED BY <1>3, <1>4, <1>5, <2>9, <3>1, <3>2 DEF IndexInv
    <2> QED BY <2>12, <2>13, <2>14, <2>15, <2>16, <2>17 DEF VaultInv
<1> QED BY <1>2, <1>8, <1>9, <1>10 DEF IInv, GlobalInv
-----------------------------------------------------------------------------
(* A page.                                                                  *)

\* What a page tells of a vault is added to what its shard knows.
Told(v) ==
    /\ vault'[v].applied = vault[v].applied /\ vault'[v].seen >= vault[v].seen
    /\ \A c \in ChangesOf(v, poll.changes) : vault'[v].seen >= c.seq
    /\ vault'[v].seen = vault[v].seen \/ \E c \in ChangesOf(v, poll.changes) : vault'[v].seen = c.seq
    /\ \A r \in Res :
         /\ vault'[v].pending[r] >= vault[v].pending[r]
         /\ \A c \in ChangesOf(v, poll.changes) : c.r = r => vault'[v].pending[r] >= c.seq
         /\ \/ vault'[v].pending[r] = vault[v].pending[r]
            \/ \E c \in ChangesOf(v, poll.changes) : c.r = r /\ vault'[v].pending[r] = c.seq

\* What becomes of a vault: it goes with its files; its shard learns nothing of it; it goes on;
\* it is met; it is to be an orphan.
PageDrops(v) == vault'[v] = NewVault /\ index'[v] = NoIndex /\ live'[v] = NoUnit /\ build'[v] = NoBuild
PagePasses(v) ==
    /\ vault[v] = NewVault /\ vault'[v] = NewVault /\ build'[v] = build[v]
    /\ ShardOf[v] \notin up \/ ((~index[v].there \/ index[v].stale) /\ v \notin Shown)
PageGoesOn(v) ==
    /\ epoch # NoEpoch /\ ShardOf[v] \in up /\ build'[v] = build[v] /\ Told(v)
    /\ vault'[v].owned = vault[v].owned /\ ~vault[v].leaving /\ ~vault'[v].leaving
    /\ vault'[v].queued = vault[v].queued /\ vault'[v].checked = vault[v].checked
    /\ vault'[v].why = vault[v].why
PageMeets(v) ==
    /\ ShardOf[v] \in up /\ ~build'[v].on /\ build'[v].left = {} /\ Told(v)
    /\ vault'[v].owned /\ vault'[v].queued = index[v].there /\ vault'[v].checked = ~index[v].there
    /\ vault'[v].why = IF ~index[v].there THEN "missing" ELSE IF index[v].stale THEN "stale" ELSE ""
    /\ ~vault[v].owned /\ ~vault[v].leaving
    /\ v \in owned \cup Shown /\ v \in owned'
    /\ vault'[v].leaving => epoch = NoEpoch /\ v \notin owned /\ index[v].there /\ ~index[v].stale
PageTurns(v) ==
    /\ ShardOf[v] \in up /\ ~build'[v].on /\ build'[v].left = {} /\ Turned(v, vault'[v])
    /\ epoch = NoEpoch /\ v \notin owned /\ v \notin Shown /\ index[v].there /\ ~index[v].stale

LEMMA PageCases ==
    ASSUME Apart, IInv, TakePage, NEW v \in Vault
    PROVE  \/ PageDrops(v) /\ ~Alive(v)
           \/ /\ index'[v] = index[v] /\ live'[v] = live[v]
              /\ v \in owned => v \in owned' \/ ShardOf[v] \notin up
              /\ PagePasses(v) \/ PageGoesOn(v) \/ PageMeets(v) \/ PageTurns(v)
<1> DEFINE batch == poll.changes
           mine == ChangesOf(v, batch)
           b == Before1[v]
<1>1. TypeOK /\ MainInv /\ VaultInv(v)
    BY DEF IInv, GlobalInv
<1>2. /\ Changes(up, Before1, Left1, batch, poll.last)
      /\ Before1 \in [Vault -> VaultState] /\ batch \subseteq Change /\ poll.last \in Seq0
      /\ owned' = (owned \ GoneOf(batch)) \cup HereOf(batch)
    BY <1>1, TakePageTypes
<1>3. /\ v \in Dead(up, batch) => PageDrops(v)
      /\ v \notin Dead(up, batch) =>
           /\ index'[v] = index[v] /\ live'[v] = live[v]
           /\ build'[v] = IF v \in Left1 THEN NoBuild ELSE build[v]
           /\ mine = {} \/ ShardOf[v] \notin up => vault'[v] = b
           /\ mine # {} /\ ShardOf[v] \in up =>
                /\ vault'[v].owned
                /\ vault'[v].leaving = Adopted(v, b).leaving
                /\ vault'[v].queued = Adopted(v, b).queued
                /\ vault'[v].checked = Adopted(v, b).checked
                /\ vault'[v].why = Adopted(v, b).why
                /\ vault'[v].applied = Adopted(v, b).applied
                /\ vault'[v].seen >= b.seen
                /\ \A c \in mine : vault'[v].seen >= c.seq
                /\ vault'[v].seen = b.seen \/ \E c \in mine : vault'[v].seen = c.seq
                /\ \A r \in Res :
                     /\ vault'[v].pending[r] >= b.pending[r]
                     /\ \A c \in mine : c.r = r => vault'[v].pending[r] >= c.seq
                     /\ \/ vault'[v].pending[r] = b.pending[r]
                        \/ \E c \in mine : c.r = r /\ vault'[v].pending[r] = c.seq
    <2>1. Changed(v, b, up, Left1, batch)
        BY <1>1, TakePageTypes
    <2> HIDE DEF b, batch
    <2> QED BY <2>1 DEF Changed, PageDrops
<1>4. v \in Dead(up, batch) => ~Alive(v)
    BY <1>1 DEF Dead, MainInv
<1>5. v \notin Dead(up, batch) /\ ShardOf[v] \in up => /\ v \notin GoneOf(batch)
                                                       /\ mine # {} => v \in Shown
                                                       /\ v \in Shown => mine # {}
    BY DEF Dead, GoneOf, ChangesOf, Shown
<1>6. /\ v \notin Dead(up, batch) /\ v \in owned => v \in owned' \/ ShardOf[v] \notin up
      /\ v \notin Dead(up, batch) /\ ShardOf[v] \in up /\ v \in Shown => v \in owned'
    BY <1>2, <1>5 DEF HereOf, Shown
<1>7. ~vault[v].leaving
    BY DEF TakePage, Calm, Apart
<1>8. ~vault[v].owned => ~vault[v].checked /\ ~build[v].on /\ build[v].left = {}
    BY <1>1, <1>7 DEF VaultInv, TakenIn
<1>9. /\ ShardOf[v] \notin up \/ epoch = NoEpoch => vault[v] = NewVault
      /\ vault[v] \in VaultState /\ b \in VaultState
    BY <1>1, <1>2, StoreTypes DEF VaultInv, TakenIn
<1>10. CASE v \in Dead(up, batch)
    BY <1>3, <1>4, <1>10
<1>11. CASE v \notin Dead(up, batch) /\ epoch # NoEpoch
    <2>1. b = vault[v] /\ v \notin Left1
        BY <1>11 DEF Before1, Left1
    <2> HIDE DEF b
    <2>2. /\ index'[v] = index[v] /\ live'[v] = live[v] /\ build'[v] = build[v]
          /\ mine = {} \/ ShardOf[v] \notin up => vault'[v] = vault[v]
        BY <1>3, <1>11, <2>1
    <2>3. CASE ShardOf[v] \notin up
        BY <1>6, <1>9, <1>11, <2>2, <2>3 DEF PagePasses
    <2>4. CASE ShardOf[v] \in up /\ mine = {}
        <3>1. vault'[v] = vault[v]
            BY <2>2, <2>4
        <3>2. vault[v].seen \in Nat /\ \A r \in Res : vault[v].pending[r] \in Nat
            BY <1>1, Numbers
        <3>3. Told(v)
            BY <2>4, <3>1, <3>2 DEF Told
        <3>4. PageGoesOn(v)
            BY <1>7, <1>11, <2>2, <2>4, <3>1, <3>3 DEF PageGoesOn
        <3> QED BY <1>6, <1>11, <2>2, <3>4
    <2>5. CASE ShardOf[v] \in up /\ mine # {}
        <3>1. /\ vault'[v].owned
              /\ vault'[v].leaving = Adopted(v, vault[v]).leaving
              /\ vault'[v].queued = Adopted(v, vault[v]).queued
              /\ vault'[v].checked = Adopted(v, vault[v]).checked
              /\ vault'[v].why = Adopted(v, vault[v]).why
              /\ vault'[v].applied = Adopted(v, vault[v]).applied
            BY <1>3, <1>11, <2>1, <2>5
        <3>2. /\ vault'[v].seen >= vault[v].seen
              /\ \A c \in mine : vault'[v].seen >= c.seq
              /\ vault'[v].seen = vault[v].seen \/ \E c \in mine : vault'[v].seen = c.seq
              /\ \A r \in Res :
                   /\ vault'[v].pending[r] >= vault[v].pending[r]
                   /\ \A c \in mine : c.r = r => vault'[v].pending[r] >= c.seq
                   /\ \/ vault'[v].pending[r] = vault[v].pending[r]
                      \/ \E c \in mine : c.r = r /\ vault'[v].pending[r] = c.seq
            BY <1>3, <1>11, <2>1, <2>5
        <3>3. /\ Adopted(v, vault[v]).leaving = vault[v].leaving
              /\ Adopted(v, vault[v]).applied = vault[v].applied
              /\ vault[v].owned =>
                   /\ Adopted(v, vault[v]).queued = vault[v].queued
                   /\ Adopted(v, vault[v]).checked = vault[v].checked
                   /\ Adopted(v, vault[v]).why = vault[v].why
              /\ ~vault[v].owned =>
                   /\ Adopted(v, vault[v]).queued = index[v].there
                   /\ Adopted(v, vault[v]).checked = ~index[v].there
                   /\ Adopted(v, vault[v]).why = IF ~index[v].there THEN "missing"
                                                 ELSE IF index[v].stale THEN "stale" ELSE ""
            BY <1>1, <1>8, <1>9, AdoptedFacts
        <3>4. Told(v)
            BY <3>1, <3>2, <3>3 DEF Told
        <3>5. CASE vault[v].owned
            <4>1. PageGoesOn(v)
                BY <1>7, <1>11, <2>2, <2>5, <3>1, <3>3, <3>4, <3>5 DEF PageGoesOn
            <4> QED BY <1>6, <1>11, <2>2, <4>1
        <3>6. CASE ~vault[v].owned
            <4>1. v \in Shown
                BY <1>5, <1>11, <2>5
            <4>2. PageMeets(v)
                BY <1>6, <1>7, <1>8, <1>11, <2>2, <2>5, <3>1, <3>3, <3>4, <3>6, <4>1 DEF PageMeets
            <4> QED BY <1>6, <1>11, <2>2, <4>2
        <3> QED BY <3>5, <3>6
    <2> QED BY <2>3, <2>4, <2>5
<1>12. CASE v \notin Dead(up, batch) /\ epoch = NoEpoch
    <2>1. /\ b = AfterOwn(up, vault, owned)[v]
          /\ v \in Left1 <=> v \in Orphans(up, vault, owned)
        BY <1>12 DEF Before1, Left1
    <2>2. vault[v] = NewVault /\ ~vault[v].owned /\ ~build[v].on /\ build[v].left = {}
        BY <1>8, <1>9, <1>12, Blank
    <2>3. /\ v \in Left1 => /\ Turned(v, b) /\ v \notin owned /\ ShardOf[v] \in up
                            /\ index[v].there /\ ~index[v].stale
          /\ v \notin Left1 =>
               \/ /\ b = NewVault
                  /\ \/ ShardOf[v] \notin up
                     \/ v \notin owned /\ (~index[v].there \/ index[v].stale)
               \/ Met(v, b) /\ v \in owned /\ ShardOf[v] \in up
        <3>1. /\ v \in Orphans(up, vault, owned) => /\ Turned(v, AfterOwn(up, vault, owned)[v])
                                                    /\ v \notin owned /\ ShardOf[v] \in up
              /\ v \notin Orphans(up, vault, owned) =>
                   \/ /\ AfterOwn(up, vault, owned)[v] = vault[v]
                      /\ \/ ShardOf[v] \notin up
                         \/ vault[v].owned /\ v \in owned
                         \/ v \notin owned /\ ~vault[v].owned /\ (~index[v].there \/ index[v].stale)
                   \/ Met(v, AfterOwn(up, vault, owned)[v]) /\ v \in owned /\ ShardOf[v] \in up /\ ~vault[v].owned
            BY <1>1, <1>7, <1>8, OwnCases
        <3>2. v \in Orphans(up, vault, owned) => index[v].there /\ ~index[v].stale
            BY <2>2 DEF Orphans
        <3> QED BY <2>1, <2>2, <3>1, <3>2
    <2> HIDE DEF b
    <2>4. /\ index'[v] = index[v] /\ live'[v] = live[v]
          /\ build'[v] = IF v \in Left1 THEN NoBuild ELSE build[v]
          /\ mine = {} \/ ShardOf[v] \notin up => vault'[v] = b
        BY <1>3, <1>12
    <2>5. ~build'[v].on /\ build'[v].left = {} /\ (v \notin Left1 => build'[v] = build[v])
        BY <2>2, <2>4, Blank
    <2>6. /\ b.applied = vault[v].applied /\ b.seen = vault[v].seen
          /\ \A r \in Res : b.pending[r] = vault[v].pending[r]
          /\ b.leaving => v \in Left1
        <3>1. CASE v \in Left1
            BY <2>2, <2>3, <3>1, Blank DEF Turned
        <3>2. CASE v \notin Left1
            BY <2>2, <2>3, <3>2, Blank DEF Met
        <3> QED BY <3>1, <3>2
    <2>7. CASE ShardOf[v] \notin up
        <3>1. vault'[v] = NewVault /\ build'[v] = build[v]
            BY <2>3, <2>4, <2>5, <2>7
        <3> QED BY <1>6, <1>12, <2>2, <2>4, <2>7, <3>1 DEF PagePasses
    <2>8. CASE ShardOf[v] \in up /\ mine = {}
        <3>1. vault'[v] = b /\ v \notin Shown
            BY <1>5, <1>12, <2>4, <2>8
        <3>2. CASE v \in Left1
            <4>1. PageTurns(v)
                BY <1>12, <2>3, <2>5, <2>8, <3>1, <3>2 DEF PageTurns
            <4> QED BY <1>6, <1>12, <2>4, <4>1
        <3>3. CASE b = NewVault /\ v \notin Left1 /\ (~index[v].there \/ index[v].stale)
            <4>1. PagePasses(v)
                BY <2>2, <2>5, <3>1, <3>3 DEF PagePasses
            <4> QED BY <1>6, <1>12, <2>4, <4>1
        <3>4. CASE Met(v, b) /\ v \in owned /\ v \notin Left1
            <4>1. vault[v].seen \in Nat /\ \A r \in Res : vault[v].pending[r] \in Nat
                BY <1>1, Numbers
            <4>2. Told(v)
                BY <2>6, <2>8, <3>1, <4>1 DEF Told
            <4>3. PageMeets(v)
                BY <1>6, <1>7, <1>12, <2>2, <2>5, <2>8, <3>1, <3>4, <4>2 DEF PageMeets, Met
            <4> QED BY <1>6, <1>12, <2>4, <4>3
        <3> QED BY <2>3, <2>8, <3>2, <3>3, <3>4
    <2>9. CASE ShardOf[v] \in up /\ mine # {}
        <3>1. /\ vault'[v].owned
              /\ vault'[v].leaving = Adopted(v, b).leaving
              /\ vault'[v].queued = Adopted(v, b).queued
              /\ vault'[v].checked = Adopted(v, b).checked
              /\ vault'[v].why = Adopted(v, b).why
              /\ vault'[v].applied = Adopted(v, b).applied
            BY <1>3, <1>12, <2>9
        <3>2. /\ vault'[v].seen >= b.seen
              /\ \A c \in mine : vault'[v].seen >= c.seq
              /\ vault'[v].seen = b.seen \/ \E c \in mine : vault'[v].seen = c.seq
              /\ \A r \in Res :
                   /\ vault'[v].pending[r] >= b.pending[r]
                   /\ \A c \in mine : c.r = r => vault'[v].pending[r] >= c.seq
                   /\ \/ vault'[v].pending[r] = b.pending[r]
                      \/ \E c \in mine : c.r = r /\ vault'[v].pending[r] = c.seq
            BY <1>3, <1>12, <2>9
        <3>3. /\ Adopted(v, b).leaving = b.leaving /\ Adopted(v, b).applied = b.applied
              /\ b.owned \/ b.checked =>
                   /\ Adopted(v, b).queued = b.queued /\ Adopted(v, b).checked = b.checked
                   /\ Adopted(v, b).why = b.why
              /\ ~b.owned /\ ~b.checked =>
                   /\ Adopted(v, b).queued = index[v].there
                   /\ Adopted(v, b).checked = ~index[v].there
                   /\ Adopted(v, b).why = IF ~index[v].there THEN "missing"
                                          ELSE IF index[v].stale THEN "stale" ELSE ""
            BY <1>1, <1>9, AdoptedFacts DEF b
        <3>4. \/ ~b.owned /\ ~b.checked
              \/ /\ b.owned /\ b.queued = index[v].there /\ b.checked = ~index[v].there
                 /\ b.why = IF ~index[v].there THEN "missing" ELSE IF index[v].stale THEN "stale" ELSE ""
            <4>1. CASE v \in Left1
                BY <2>2, <2>3, <4>1, Blank DEF Turned
            <4>2. CASE v \notin Left1
                BY <2>3, <2>9, <4>2, Blank DEF Met
            <4> QED BY <4>1, <4>2
        <3>5. /\ vault'[v].queued = index[v].there /\ vault'[v].checked = ~index[v].there
              /\ vault'[v].why = IF ~index[v].there THEN "missing" ELSE IF index[v].stale THEN "stale" ELSE ""
            BY <3>1, <3>3, <3>4
        <3>6. Told(v)
            BY <2>6, <3>1, <3>2, <3>3 DEF Told
        <3>7. v \in Shown
            BY <1>5, <1>12, <2>9
        <3>8. vault'[v].leaving => epoch = NoEpoch /\ v \notin owned /\ index[v].there /\ ~index[v].stale
            BY <1>12, <2>3, <2>6, <3>1, <3>3
        <3>9. PageMeets(v)
            BY <1>6, <1>7, <1>12, <2>2, <2>5, <2>9, <3>1, <3>5, <3>6, <3>7, <3>8 DEF PageMeets
        <3> QED BY <1>6, <1>12, <2>4, <3>9
    <2> QED BY <2>7, <2>8, <2>9
<1> QED BY <1>10, <1>11, <1>12

\* What taking a page does to the main thread.
LEMMA PageMain ==
    ASSUME Apart, IInv, TakePage
    PROVE  /\ UNCHANGED <<feedEpoch, top, row, home, up, carried, saved, persisted, rewindTo, listed, save,
                          crashes, moves>>
           /\ poll.on /\ listed /\ rewindTo = Nothing /\ ~poll'.on /\ poll'.changes = {} /\ Shown' = {}
           /\ epoch' = poll.epoch /\ poll.epoch # NoEpoch /\ poll.epoch <= feedEpoch /\ saved.epoch <= poll.epoch
           /\ epoch # NoEpoch => epoch = poll.epoch
           /\ Back = cursor /\ Back' = cursor' /\ cursor <= cursor' /\ (cursor' = cursor \/ cursor' = poll.last)
           /\ poll.last <= cursor'
           /\ Current' <=> poll.epoch = feedEpoch
           /\ poll.epoch = feedEpoch => Current
           /\ listing'.on => listing.on /\ listing'.ids = listing.ids
           /\ \A v \in Vault : /\ Alive(v)' = Alive(v) /\ ~vault[v].leaving
                               /\ \A r \in Res : Unsaved(v, r)' = Unsaved(v, r)
                               /\ v \in (home \cup Shown) /\ ShardOf[v] \in up => Fed(v)
                               /\ Fed(v)' => v \in home
                               /\ v \in home /\ v \in owned => v \in owned'
                               /\ v \in home /\ v \in Shown => v \in owned'
                               /\ moves = 0 => v \in owned /\ v \in owned'
                               /\ v \in home /\ listing'.on /\ v \notin listing'.ids \cup listing'.seen =>
                                    v \notin listing.ids \cup listing.seen /\ v \notin Shown
                               /\ v \notin owned /\ v \notin Shown => v \notin owned'
<1>1. TypeOK /\ MainInv /\ FeedInv
    BY DEF IInv, GlobalInv
<1>2. /\ owned' = (owned \ GoneOf(poll.changes)) \cup HereOf(poll.changes)
      /\ listing' = IF listing.on THEN [listing EXCEPT !.seen = listing.seen \cup HereOf(poll.changes)] ELSE listing
    BY <1>1, TakePageTypes
<1>3. /\ UNCHANGED <<feedEpoch, top, row, home, up, carried, saved, persisted, rewindTo, listed, save,
                     crashes, moves>>
      /\ poll.on /\ rewindTo = Nothing /\ ~poll'.on /\ poll'.changes = {} /\ Shown' = {}
      /\ epoch' = poll.epoch /\ Known \in {NoEpoch, poll.epoch}
      /\ cursor' = Larger(cursor, poll.last)
      /\ \A v \in Vault : ~vault[v].leaving
    BY DEF TakePage, backend, NoPage, Apart, Calm, Shown
<1>4. listed /\ poll.epoch # NoEpoch /\ poll.epoch <= feedEpoch
    BY <1>1, <1>3 DEF MainInv
<1>5. epoch # NoEpoch => epoch = poll.epoch
    BY <1>3 DEF Known
<1>6. saved.epoch <= poll.epoch
    <2>1. epoch # NoEpoch => saved.epoch <= epoch
        BY <1>1 DEF MainInv
    <2>2. epoch = NoEpoch => saved.epoch = NoEpoch \/ saved.epoch = poll.epoch
        BY <1>3 DEF Known
    <2> QED BY <1>1, <1>5, <2>1, <2>2, MainNumbers
<1>7. /\ cursor <= cursor' /\ (cursor' = cursor \/ cursor' = poll.last) /\ poll.last <= cursor'
      /\ cursor' < Nothing /\ Back = cursor /\ Back' = cursor'
    <2>1. /\ cursor \in Nat /\ poll.last \in Nat /\ cursor < Nothing /\ Nothing \in Nat
        BY <1>1, MainNumbers
    <2>2. TypeOK'
        BY <1>1, TakePageTypes
    <2>3. cursor' \in 0..MaxSeq /\ MaxSeq \in Nat
        BY <2>2, Constants DEF TypeOK, Seq0
    <2>4. cursor' < Nothing
        BY <2>3 DEF Nothing
    <2> QED BY <1>3, <2>1, <2>3, <2>4 DEF Back, Larger, Smaller
<1>8. (Current' <=> poll.epoch = feedEpoch) /\ (poll.epoch = feedEpoch => Current)
    BY <1>3, <1>4 DEF Current, Known
<1>9. ASSUME NEW v \in Vault
      PROVE  /\ v \in Shown => v \in GoneOf(poll.changes) \/ v \in HereOf(poll.changes)
             /\ v \in HereOf(poll.changes) => v \in Shown
             /\ v \in GoneOf(poll.changes) => ~Alive(v)
    BY <1>1 DEF Shown, GoneOf, HereOf, MainInv
<1>10. ASSUME NEW v \in Vault
       PROVE  /\ Alive(v)' = Alive(v)
              /\ \A r \in Res : Unsaved(v, r)' = Unsaved(v, r)
              /\ v \in (home \cup Shown) /\ ShardOf[v] \in up => Fed(v)
              /\ Fed(v)' => v \in home
    BY <1>3 DEF Alive, Unsaved, Fed
<1>11. ASSUME NEW v \in Vault
       PROVE  /\ v \in home => v \notin GoneOf(poll.changes)
              /\ v \in home /\ v \in owned => v \in owned'
              /\ v \in home /\ v \in Shown => v \in owned'
              /\ v \notin owned /\ v \notin Shown => v \notin owned'
    <2>1. v \in home => Alive(v)
        BY <1>1 DEF FeedInv
    <2> QED BY <1>2, <1>9, <2>1
<1>12. ASSUME NEW v \in Vault, moves = 0
       PROVE  v \in owned /\ v \in owned'
    <2>1. v \in owned /\ Alive(v)
        BY <1>1, <1>4, <1>12 DEF MainInv, FeedInv
    <2> QED BY <1>2, <1>9, <2>1
<1>13. /\ listing'.on => listing.on /\ listing'.ids = listing.ids
       /\ listing'.on => listing'.seen = listing.seen \cup HereOf(poll.changes)
    <2>1. listing \in ListState
        BY <1>1 DEF TypeOK, ListState
    <2> QED BY <1>2, <2>1 DEF ListState
<1>14. ASSUME NEW v \in Vault
       PROVE  v \in home /\ listing'.on /\ v \notin listing'.ids \cup listing'.seen =>
                   v \notin listing.ids \cup listing.seen /\ v \notin Shown
    BY <1>9, <1>11, <1>13
<1> QED BY <1>3, <1>4, <1>5, <1>6, <1>7, <1>8, <1>10, <1>11, <1>12, <1>13, <1>14

\* What a vault's shard knows of the last write of a resource stays right when it takes in the page.
LEMMA PageKept ==
    ASSUME Apart, IInv, TakePage, NEW v \in Vault, NEW r \in Res,
           ShardOf[v] \in up, Alive(v), poll.epoch = feedEpoch, Told(v), ~Excused(v, r), Kept(v, r)
    PROVE  Kept(v, r)'
<1>1. TypeOK /\ PageBound /\ VaultInv(v)
    BY DEF IInv, GlobalInv
<1>2. /\ poll.on /\ rewindTo = Nothing /\ Current /\ row'[v] = row[v] /\ home' = home
      /\ Back = cursor /\ Back' = cursor' /\ (cursor' = cursor \/ cursor' = poll.last)
      /\ epoch # NoEpoch => epoch = feedEpoch
      /\ Unsaved(v, r)' = Unsaved(v, r)
      /\ v \in (home \cup Shown) => Fed(v)
      /\ Fed(v)' => v \in home
    BY PageMain
<1>3. /\ row[v][r] \in Nat /\ vault[v].seen \in Nat /\ vault[v].pending[r] \in Nat
      /\ cursor \in Nat /\ poll.last \in Nat
    BY <1>1, Numbers, MainNumbers
<1>4. \A c \in ChangesOf(v, poll.changes) :
         /\ v \in Shown /\ c.seq \in Nat /\ c.seq <= poll.last /\ (c.r = r => c.seq <= row[v][r])
    <2>1. \A c \in ChangesOf(v, poll.changes) : c \in poll.changes /\ c.v = v
        BY DEF ChangesOf
    <2>2. \A c \in poll.changes : c.seq <= poll.last /\ (Alive(c.v) => c.seq <= row[c.v][c.r])
        BY <1>1, <1>2 DEF PageBound
    <2>3. \A c \in poll.changes : c.seq \in Nat
        BY <1>1, MainNumbers
    <2> QED BY <2>1, <2>2, <2>3 DEF Shown
<1>5. /\ vault'[v].seen >= vault[v].seen
      /\ \A c \in ChangesOf(v, poll.changes) : vault'[v].seen >= c.seq
      /\ vault'[v].seen = vault[v].seen \/ \E c \in ChangesOf(v, poll.changes) : vault'[v].seen = c.seq
      /\ vault'[v].pending[r] >= vault[v].pending[r]
      /\ \A c \in ChangesOf(v, poll.changes) : c.r = r => vault'[v].pending[r] >= c.seq
      /\ \/ vault'[v].pending[r] = vault[v].pending[r]
         \/ \E c \in ChangesOf(v, poll.changes) : c.r = r /\ vault'[v].pending[r] = c.seq
    BY DEF Told
<1>6. vault'[v].seen \in Nat /\ vault'[v].pending[r] \in Nat
    BY <1>3, <1>4, <1>5
<1>7. vault'[v].pending[r] <= row[v][r]
    <2>1. vault[v].pending[r] <= row[v][r]
        <3>1. CASE epoch = NoEpoch
            <4>1. vault[v].pending[r] = 0
                BY <1>1, <3>1, Blank DEF VaultInv, TakenIn
            <4> QED BY <1>3, <4>1
        <3>2. CASE epoch # NoEpoch
            BY <1>1, <1>2, <3>2 DEF VaultInv, VaultBound
        <3> QED BY <3>1, <3>2
    <2> QED BY <1>4, <1>5, <2>1
\* What the page covers of a vault's writes, it shows.
<1>8. ASSUME v \in home \cup Shown, cursor < row[v][r], row[v][r] <= poll.last
      PROVE  \E c \in ChangesOf(v, poll.changes) : c.r = r /\ c.seq = row[v][r]
    <2>1. InPage(v, r)
        BY <1>1, <1>2, <1>8 DEF VaultInv, PageInv
    <2>2. r # Gone
        BY GoneAssumption
    <2> QED BY <2>1, <2>2 DEF InPage, ChangesOf
<1>9. CASE row[v][r] <= vault'[v].seen
    <2>1. vault'[v].pending[r] >= row[v][r]
        <3>1. CASE row[v][r] <= vault[v].seen
            BY <1>3, <1>5, <3>1 DEF Kept
        <3>2. CASE row[v][r] > vault[v].seen
            <4>1. PICK c \in ChangesOf(v, poll.changes) : vault'[v].seen = c.seq
                BY <1>3, <1>5, <1>6, <1>9, <3>2
            <4>2. v \in Shown /\ row[v][r] <= poll.last
                BY <1>3, <1>4, <1>9, <4>1
            <4>3. row[v][r] > cursor
                BY <1>2, <3>2, <4>2 DEF Kept, ToCome
            <4>4. PICK d \in ChangesOf(v, poll.changes) : d.r = r /\ d.seq = row[v][r]
                BY <1>3, <1>8, <4>2, <4>3
            <4> QED BY <1>5, <4>4
        <3> QED BY <1>3, <3>1, <3>2
    <2>2. vault'[v].pending[r] = row[v][r]
        BY <1>3, <1>6, <1>7, <2>1
    <2>3. ~(row[v][r] > vault'[v].seen)
        BY <1>3, <1>6, <1>9
    <2> QED BY <1>2, <2>2, <2>3 DEF Kept
<1>10. CASE row[v][r] > vault'[v].seen
    <2>1. row[v][r] > vault[v].seen
        BY <1>3, <1>5, <1>6, <1>10
    <2>2. ASSUME v \in home
          PROVE  row[v][r] > cursor' /\ Unsaved(v, r)
        <3>1. row[v][r] > cursor /\ Unsaved(v, r)
            BY <1>2, <2>1, <2>2 DEF Kept, ToCome
        <3>2. ~(row[v][r] <= poll.last)
            <4> SUFFICES ASSUME row[v][r] <= poll.last
                         PROVE  FALSE
                OBVIOUS
            <4>1. PICK d \in ChangesOf(v, poll.changes) : d.r = r /\ d.seq = row[v][r]
                BY <1>3, <1>8, <2>2, <3>1
            <4> QED BY <1>3, <1>5, <1>6, <1>10, <4>1
        <3> QED BY <1>2, <1>3, <3>1, <3>2
    <2>3. ToCome(v, r)'
        BY <1>2, <2>2 DEF ToCome
    <2>4. ~(row[v][r] <= vault'[v].seen)
        BY <1>3, <1>6, <1>10
    <2> QED BY <1>2, <2>3, <2>4 DEF Kept
<1> QED BY <1>3, <1>6, <1>9, <1>10

LEMMA TakePageKeeps ==
    ASSUME Apart, IInv, TakePage
    PROVE  IInv'
<1>1. TypeOK /\ GlobalInv /\ RowInv /\ FeedInv /\ MainInv /\ ShardInv /\ MainBound /\ PageBound
    BY DEF IInv, GlobalInv
<1>2. /\ TypeOK'
      /\ \A s \in Shard : know'[s] = IF s \in up THEN poll.epoch ELSE know[s]
    BY <1>1, TakePageTypes
<1>3. \A s \in Shard : feedPos'[s] = IF s \in up THEN Larger(feedPos[s], poll.last) ELSE feedPos[s]
    <2>1. /\ Changes(up, Before1, Left1, poll.changes, poll.last)
          /\ Before1 \in [Vault -> VaultState] /\ poll.changes \subseteq Change /\ poll.last \in Seq0
        BY <1>1, TakePageTypes
    <2> QED BY <1>1, <2>1, ChangesFacts
<1>4. /\ UNCHANGED <<feedEpoch, top, row, home, up, carried, saved, persisted, rewindTo, listed, save,
                     crashes, moves>>
      /\ poll.on /\ listed /\ rewindTo = Nothing /\ ~poll'.on /\ poll'.changes = {} /\ Shown' = {}
      /\ epoch' = poll.epoch /\ poll.epoch # NoEpoch /\ poll.epoch <= feedEpoch /\ saved.epoch <= poll.epoch
      /\ epoch # NoEpoch => epoch = poll.epoch
      /\ Back = cursor /\ cursor <= cursor' /\ (cursor' = cursor \/ cursor' = poll.last)
      /\ Current' <=> poll.epoch = feedEpoch
      /\ poll.epoch = feedEpoch => Current
    BY PageMain
<1>5. \A v \in Vault : /\ Alive(v)' = Alive(v) /\ ~vault[v].leaving
                       /\ Fed(v)' => v \in home
                       /\ moves = 0 => v \in owned /\ v \in owned'
    BY PageMain
<1>6. RowInv' /\ FeedInv'
    BY <1>1, <1>4, <1>5 DEF RowInv, FeedInv, TypeOK
<1>7. MainInv' /\ ShardInv' /\ MainBound' /\ PageBound'
    <2>1. MainInv'
        <3>1. moves = 0 => owned' = Vault
            <4>1. owned' \subseteq Vault
                BY <1>2 DEF TypeOK
            <4> QED BY <1>5, <4>1
        <3>2. moves = 0 => (listing'.on => listing'.ids = Vault)
            BY <1>1, PageMain DEF MainInv
        <3> QED BY <1>1, <1>4, <3>1, <3>2 DEF MainInv
    <2>2. ShardInv' /\ PageBound'
        BY <1>1, <1>2, <1>3, <1>4 DEF ShardInv, PageBound
    <2>3. MainBound'
        <3>1. poll.epoch = feedEpoch =>
                 /\ cursor <= top /\ persisted <= top /\ (save.on => save.safe <= top) /\ poll.last <= top
            BY <1>1, <1>4, Positions DEF PageBound
        <3>2. poll.epoch = feedEpoch => \A s \in Shard : feedPos[s] <= top
            <4>1. epoch = NoEpoch => \A s \in Shard : feedPos[s] = 0
                BY <1>1 DEF ShardInv
            <4> QED BY <1>1, <1>4, <4>1, MainNumbers DEF MainBound
        <3>3. saved.epoch = feedEpoch => saved.cursor <= top
            BY <1>1 DEF MainBound
        <3>4. poll.epoch = feedEpoch => \A s \in Shard : feedPos'[s] <= top
            BY <1>3, <3>1, <3>2 DEF Larger
        <3> QED BY <1>4, <3>1, <3>3, <3>4 DEF MainBound
    <2> QED BY <2>1, <2>2, <2>3
<1>8. ASSUME NEW v \in Vault
      PROVE  VaultInv(v)'
    <2>1. VaultInv(v)
        BY DEF IInv
    <2>2. /\ Alive(v)' = Alive(v) /\ ~vault[v].leaving /\ \A r \in Res : Unsaved(v, r)' = Unsaved(v, r)
          /\ v \in (home \cup Shown) /\ ShardOf[v] \in up => Fed(v)
          /\ Fed(v)' => v \in home
          /\ v \in home /\ v \in owned => v \in owned'
          /\ v \in home /\ v \in Shown => v \in owned'
          /\ moves = 0 => v \in owned /\ v \in owned'
          /\ v \in home /\ listing'.on /\ v \notin listing'.ids \cup listing'.seen =>
               v \notin listing.ids \cup listing.seen /\ v \notin Shown
          /\ listing'.on => listing.on
          /\ v \notin owned /\ v \notin Shown => v \notin owned'
        BY PageMain
    <2>3. v \in home /\ v \notin owned => ~index[v].there \/ index[v].stale
        BY <1>4, <2>1 DEF VaultInv, ListInv
    <2>4. \/ PageDrops(v) /\ ~Alive(v)
          \/ /\ index'[v] = index[v] /\ live'[v] = live[v]
             /\ v \in owned => v \in owned' \/ ShardOf[v] \notin up
             /\ PagePasses(v) \/ PageGoesOn(v) \/ PageMeets(v) \/ PageTurns(v)
        BY PageCases
    <2>5. /\ index[v].built => index[v].there /\ index[v].epoch # NoEpoch
          /\ ~vault[v].owned => ~build[v].on /\ ~live[v].on
          /\ ~build[v].on => build[v].left = {}
          /\ ShardOf[v] \notin up \/ epoch = NoEpoch => vault[v] = NewVault
          /\ index[v].epoch <= poll.epoch /\ index[v].epoch <= feedEpoch
        BY <1>4, <2>1 DEF VaultInv, ReadsIndex, TakenIn
    <2>6. Good(v) => poll.epoch = feedEpoch /\ Current
        <3>1. Good(v) => index[v].epoch = feedEpoch
            BY DEF Good, Doomed
        <3>2. poll.epoch \in Nat /\ feedEpoch \in Nat
            BY <1>1, MainNumbers
        <3> QED BY <1>4, <2>5, <3>1, <3>2
    \* The list and the vaults seen meanwhile.
    <2>7. index'[v] = index[v] =>
             /\ v \in home /\ listed' /\ v \notin owned' => ~index'[v].there \/ index'[v].stale
             /\ v \in home /\ listing'.on /\ v \notin listing'.ids \cup listing'.seen
                   => v \notin owned' /\ (~index'[v].there \/ index'[v].stale)
        <3>1. v \in home /\ v \notin owned' => ~index[v].there \/ index[v].stale
            BY <2>2, <2>3
        <3>2. v \in home /\ listing'.on /\ v \notin listing'.ids \cup listing'.seen
                 => v \notin owned /\ (~index[v].there \/ index[v].stale) /\ v \notin owned'
            BY <2>1, <2>2 DEF VaultInv, ListInv
        <3> QED BY <3>1, <3>2
    \* What the page tells stays below the last writes.
    <2>8. ASSUME Told(v), poll.epoch = feedEpoch
          PROVE  /\ vault'[v].seen <= top /\ vault'[v].applied <= top
                 /\ Alive(v) => \A r \in Res : vault'[v].pending[r] <= row[v][r]
        <3>1. /\ vault[v].seen <= top /\ vault[v].applied <= top
              /\ Alive(v) => \A r \in Res : vault[v].pending[r] <= row[v][r]
            <4>1. CASE epoch = NoEpoch
                <5>1. /\ vault[v].seen = 0 /\ vault[v].applied = 0
                      /\ \A r \in Res : vault[v].pending[r] = 0
                    BY <2>5, <4>1, Blank
                <5>2. top \in Nat /\ \A r \in Res : row[v][r] \in Nat
                    BY <1>1, MainNumbers, Numbers
                <5> QED BY <5>1, <5>2
            <4>2. CASE epoch # NoEpoch
                BY <1>4, <2>1, <2>8, <4>2 DEF VaultInv, VaultBound
            <4> QED BY <4>1, <4>2
        <3>2. \A c \in ChangesOf(v, poll.changes) :
                 /\ c.seq <= top
                 /\ Alive(v) => \A r \in Res : c.r = r => c.seq <= row[v][r]
            <4>1. /\ poll.last <= top
                  /\ \A c \in poll.changes : c.seq <= poll.last /\ (Alive(c.v) => c.seq <= row[c.v][c.r])
                BY <1>1, <1>4, <2>8 DEF PageBound
            <4>2. \A c \in ChangesOf(v, poll.changes) : c \in poll.changes /\ c.v = v
                BY DEF ChangesOf
            <4>3. top \in Nat /\ poll.last \in Nat /\ \A c \in poll.changes : c.seq \in Nat
                BY <1>1, MainNumbers
            <4>4. \A c \in ChangesOf(v, poll.changes) : c.seq <= top
                BY <4>1, <4>2, <4>3
            <4>5. \A c \in ChangesOf(v, poll.changes) :
                     Alive(v) => \A r \in Res : c.r = r => c.seq <= row[v][r]
                BY <4>1, <4>2
            <4> QED BY <4>4, <4>5
        <3>3. /\ vault'[v].applied = vault[v].applied
              /\ vault'[v].seen = vault[v].seen \/ \E c \in ChangesOf(v, poll.changes) : vault'[v].seen = c.seq
            BY <2>8 DEF Told
        <3>4. \A r \in Res : \/ vault'[v].pending[r] = vault[v].pending[r]
                             \/ \E c \in ChangesOf(v, poll.changes) : c.r = r /\ vault'[v].pending[r] = c.seq
            BY <2>8 DEF Told
        <3>5. vault'[v].seen <= top /\ vault'[v].applied <= top
            BY <3>1, <3>2, <3>3
        <3>6. Alive(v) => \A r \in Res : vault'[v].pending[r] <= row[v][r]
            BY <3>1, <3>2, <3>4
        <3> QED BY <3>5, <3>6
    \* What is not in an index stays ahead of the saved position.
    <2>9. ASSUME index'[v] = index[v], vault'[v].leaving => ~Fed(v)'
          PROVE  DiskInv(v)'
        <3>1. DiskInv(v)
            BY <2>1 DEF VaultInv
        <3>2. Good(v)' = Good(v)
            BY <1>4, <2>9 DEF Good, Doomed
        <3>3. Fed(v)' => Fed(v)
            BY <2>2 DEF Fed
        <3> QED BY <1>4, <2>2, <2>9, <3>1, <3>2, <3>3 DEF DiskInv
    <2>10. PageInv(v)'
        BY <1>4 DEF PageInv
    <2>11. CASE PageDrops(v) /\ ~Alive(v)
        <3>1. vault'[v] = NewVault /\ index'[v] = NoIndex /\ live'[v] = NoUnit /\ build'[v] = NoBuild
            BY <2>11 DEF PageDrops
        <3>2. v \notin home
            BY <1>1, <2>11 DEF FeedInv
        <3>3. ~Good(v)' /\ ~build'[v].on
            BY <3>1, Blank DEF Good, Doomed
        <3>4. DiskInv(v)' /\ IndexInv(v)' /\ BuildInv(v)'
            BY <3>3, Unserved
        <3>5. OrphanInv(v)' /\ ReadsIndex(v)' /\ TakenIn(v)' /\ ListInv(v)'
            <4>1. OrphanInv(v)'
                BY <3>1, Blank DEF OrphanInv
            <4>2. ReadsIndex(v)'
                <5>1. NoEpoch <= feedEpoch /\ NoEpoch <= poll.epoch
                    BY <1>1, MainNumbers
                <5> QED BY <1>4, <3>1, <5>1, Blank DEF ReadsIndex
            <4>3. TakenIn(v)'
                BY <3>1, Blank DEF TakenIn
            <4>4. ListInv(v)'
                BY <1>4, <3>1, <3>2, Blank DEF ListInv
            <4> QED BY <4>1, <4>2, <4>3, <4>4
        <3>6. VaultBound(v)'
            <4>1. /\ vault'[v].seen = 0 /\ vault'[v].applied = 0 /\ ~build'[v].on
                  /\ \A r \in Res : vault'[v].pending[r] = 0
                  /\ index'[v].seq = 0
                BY <3>1, Blank
            <4>2. top \in Nat /\ \A r \in Res : row[v][r] \in Nat
                BY <1>1, MainNumbers, Numbers
            <4> QED BY <1>4, <4>1, <4>2 DEF VaultBound
        <3> QED BY <2>10, <3>4, <3>5, <3>6 DEF VaultInv
    <2>12. CASE PagePasses(v) /\ index'[v] = index[v] /\ live'[v] = live[v]
        <3>1. /\ vault[v] = NewVault /\ vault'[v] = NewVault /\ build'[v] = build[v]
              /\ ShardOf[v] \notin up \/ ~index[v].there \/ index[v].stale
              /\ ~vault'[v].leaving /\ ~vault'[v].owned /\ ~build[v].on /\ ~live[v].on /\ build[v].left = {}
            BY <2>5, <2>12, Blank DEF PagePasses
        <3>2. OrphanInv(v)' /\ ReadsIndex(v)'
            BY <1>4, <2>1, <2>5, <2>12, <3>1 DEF VaultInv, OrphanInv, ReadsIndex
        <3>3. TakenIn(v)'
            BY <2>12, <3>1, Blank DEF TakenIn
        <3>4. ListInv(v)'
            <4>1. ShardOf[v] \notin up => crashes # 0
                BY <1>1, MainNumbers, ShardAssumption DEF ShardInv
            <4> QED BY <1>4, <2>7, <2>12, <3>1, <4>1 DEF ListInv
        <3>5. VaultBound(v)'
            <4>1. /\ vault'[v].seen = 0 /\ vault'[v].applied = 0 /\ ~build'[v].on
                  /\ \A r \in Res : vault'[v].pending[r] = 0
                BY <3>1, Blank
            <4>2. top \in Nat /\ \A r \in Res : row[v][r] \in Nat
                BY <1>1, MainNumbers, Numbers
            <4>3. VaultBound(v)
                BY <2>1 DEF VaultInv
            <4> QED BY <1>4, <2>12, <4>1, <4>2, <4>3 DEF VaultBound
        <3>6. DiskInv(v)' /\ IndexInv(v)' /\ BuildInv(v)'
            <4>1. DiskInv(v)'
                BY <2>9, <2>12, <3>1
            <4> QED BY <3>1, <4>1 DEF IndexInv, BuildInv
        <3> QED BY <2>10, <3>2, <3>3, <3>4, <3>5, <3>6 DEF VaultInv
    <2>13. CASE PageGoesOn(v) /\ index'[v] = index[v] /\ live'[v] = live[v] /\ (v \in owned => v \in owned' \/ ShardOf[v] \notin up)
        <3>1. /\ epoch # NoEpoch /\ epoch' = epoch /\ ShardOf[v] \in up /\ build'[v] = build[v] /\ Told(v)
              /\ vault'[v].owned = vault[v].owned /\ ~vault[v].leaving /\ ~vault'[v].leaving
              /\ vault'[v].queued = vault[v].queued /\ vault'[v].checked = vault[v].checked
              /\ vault'[v].why = vault[v].why
            BY <1>4, <2>13 DEF PageGoesOn
        <3>2. vault'[v].applied = vault[v].applied
            BY <3>1 DEF Told
        <3>3. Good(v)' = Good(v)
            BY <1>4, <2>13 DEF Good, Doomed
        <3>4. OrphanInv(v)' /\ ReadsIndex(v)'
            <4>2. OrphanInv(v)
                BY <2>1 DEF VaultInv
            <4>3. OrphanInv(v)'
                BY <1>4, <2>13, <3>1, <4>2 DEF OrphanInv
            <4>4. ReadsIndex(v)'
                BY <1>4, <2>1, <2>13, <3>1 DEF VaultInv, ReadsIndex
            <4> QED BY <4>3, <4>4
        <3>5. TakenIn(v)'
            <4>1. vault'[v].owned => v \in owned'
                BY <2>1, <2>13, <3>1 DEF VaultInv, TakenIn
            <4> QED BY <1>4, <2>1, <2>13, <3>1, <4>1 DEF VaultInv, TakenIn
        <3>6. ListInv(v)'
            BY <1>4, <2>1, <2>7, <2>13, <3>1, <3>3 DEF VaultInv, ListInv
        <3>7. VaultBound(v)'
            <4>1. VaultBound(v)
                BY <2>1 DEF VaultInv
            <4> QED BY <1>4, <2>2, <2>8, <2>13, <3>1, <4>1 DEF VaultBound
        <3>8. DiskInv(v)'
            BY <2>9, <2>13, <3>1
        <3>9. IndexInv(v)'
            <4> SUFFICES ASSUME Alive(v), Good(v), vault[v].owned
                         PROVE  /\ vault'[v].checked => vault'[v].applied = index[v].seq
                                /\ \A r \in Res \ Had(v)' : row[v][r] > index[v].seq /\ Kept(v, r)'
                                /\ live[v].on => \A r \in Res : live[v].work[r] # 0 =>
                                      /\ live[v].work[r] <= top
                                      /\ r \notin live[v].got => r \notin index[v].fresh /\ row[v][r] > live[v].work[r]
                BY <1>4, <2>2, <2>13, <3>1, <3>3 DEF IndexInv
            <4>1. IndexInv(v)
                BY <2>1 DEF VaultInv
            <4>2. vault[v].checked => vault[v].applied = index[v].seq
                BY <4>1 DEF IndexInv
            <4>3. live[v].on => \A r \in Res : live[v].work[r] # 0 =>
                      /\ live[v].work[r] <= top
                      /\ r \notin live[v].got => r \notin index[v].fresh /\ row[v][r] > live[v].work[r]
                BY <4>1 DEF IndexInv
            <4>4. ASSUME NEW r \in Res \ Had(v)'
                  PROVE  row[v][r] > index[v].seq /\ Kept(v, r)'
                <5>1. r \notin Had(v) /\ r \notin index[v].fresh
                    BY <1>4, <2>13, <4>4 DEF Had
                <5>2. row[v][r] > index[v].seq /\ Kept(v, r)
                    BY <4>1, <5>1 DEF IndexInv
                <5>3. ~Excused(v, r)
                    BY <5>1 DEF Excused
                <5> QED BY <2>6, <3>1, <5>2, <5>3, PageKept
            <4> QED BY <3>1, <3>2, <4>2, <4>3, <4>4
        <3>10. BuildInv(v)'
            <4> SUFFICES ASSUME Alive(v), build[v].on, poll.epoch = feedEpoch,
                                NEW r \in Res \ (build[v].left \cup build[v].got \cup build[v].replay)
                         PROVE  row[v][r] > build[v].from /\ row[v][r] > vault[v].applied /\ Kept(v, r)'
                BY <1>4, <2>2, <3>1, <3>2 DEF BuildInv
            <4>1. row[v][r] > build[v].from /\ row[v][r] > vault[v].applied /\ Kept(v, r)
                BY <1>4, <2>1, <3>1 DEF VaultInv, BuildInv
            <4>2. ~Excused(v, r)
                BY DEF Excused
            <4> QED BY <3>1, <4>1, <4>2, PageKept
        <3> QED BY <2>10, <3>4, <3>5, <3>6, <3>7, <3>8, <3>9, <3>10 DEF VaultInv
    <2>14. CASE PageMeets(v) /\ index'[v] = index[v] /\ live'[v] = live[v]
        <3>1. /\ ShardOf[v] \in up /\ ~build'[v].on /\ build'[v].left = {} /\ Told(v)
              /\ vault'[v].owned /\ vault'[v].queued = index[v].there /\ vault'[v].checked = ~index[v].there
              /\ vault'[v].why = IF ~index[v].there THEN "missing" ELSE IF index[v].stale THEN "stale" ELSE ""
              /\ ~vault[v].owned /\ ~vault[v].leaving
              /\ v \in owned \cup Shown /\ v \in owned'
              /\ vault'[v].leaving => epoch = NoEpoch /\ v \notin owned /\ index[v].there /\ ~index[v].stale
            BY <2>14 DEF PageMeets
        <3>2. Good(v)' = Good(v)
            BY <1>4, <2>14 DEF Good, Doomed
        <3>3. vault'[v].leaving => v \notin home /\ moves # 0
            BY <2>2, <2>3, <3>1
        <3>4. ~live[v].on
            BY <2>5, <3>1
        <3>5. Good(v) => crashes # 0 /\ epoch = NoEpoch /\ index[v].there
            <4> SUFFICES ASSUME Good(v)
                         PROVE  crashes # 0 /\ epoch = NoEpoch /\ index[v].there
                OBVIOUS
            <4>1. index[v].there /\ ~index[v].stale
                BY GoodServes
            <4> QED BY <2>1, <3>1, <4>1 DEF VaultInv, ListInv
        <3>6. OrphanInv(v)' /\ ReadsIndex(v)'
            <4>1. OrphanInv(v)
                BY <2>1 DEF VaultInv
            <4>2. OrphanInv(v)'
                BY <1>4, <2>14, <3>3, <4>1 DEF OrphanInv
            <4>3. ReadsIndex(v)'
                <5>1. ~index[v].built => index[v].seq = 0
                    BY <2>1 DEF VaultInv, ReadsIndex
                <5> QED BY <1>4, <2>5, <2>14, <3>1, <3>4, <5>1 DEF ReadsIndex, InPlace, Beside
            <4> QED BY <4>2, <4>3
        <3>7. TakenIn(v)'
            BY <1>4, <2>14, <3>1, <3>3, <3>4 DEF TakenIn
        <3>8. ListInv(v)'
            BY <1>4, <2>7, <2>14, <3>1, <3>2, <3>5 DEF ListInv
        <3>9. VaultBound(v)'
            <4>1. VaultBound(v)
                BY <2>1 DEF VaultInv
            <4> QED BY <1>4, <2>2, <2>8, <2>14, <3>1, <4>1 DEF VaultBound
        <3>10. DiskInv(v)'
            BY <2>2, <2>9, <2>14, <3>3
        <3>11. IndexInv(v)'
            <4> SUFFICES ASSUME Alive(v), Good(v)
                         PROVE  /\ ~vault'[v].checked
                                /\ \A r \in Res \ Had(v)' : row[v][r] > index[v].seq /\ Kept(v, r)'
                BY <1>4, <2>2, <2>14, <3>2, <3>4 DEF IndexInv
            <4>1. crashes # 0 /\ epoch = NoEpoch /\ ~vault'[v].checked
                BY <3>1, <3>5
            <4>2. vault[v].seen = 0 /\ poll.epoch = feedEpoch /\ Current
                BY <2>5, <2>6, <4>1, Blank
            <4>3. Back = saved.cursor /\ persisted = saved.cursor
                BY <1>1, <1>4, <4>1 DEF MainInv
            <4>4. ASSUME NEW r \in Res \ Had(v)'
                  PROVE  row[v][r] > index[v].seq /\ Kept(v, r)'
                <5>1. r \in Res \ (index[v].fresh \cup carried[v])
                    BY <1>4, <2>14, <4>1, <4>4 DEF Had
                <5>2. DiskInv(v)
                    BY <2>1 DEF VaultInv
                <5>3. /\ row[v][r] > index[v].seq
                      /\ Fed(v) => /\ saved.epoch = feedEpoch => row[v][r] > saved.cursor
                                   /\ row[v][r] > persisted /\ (save.on => row[v][r] > save.safe)
                    BY <4>2, <5>1, <5>2 DEF DiskInv
                <5>4. ToCome(v, r)
                    BY <4>3, <5>3 DEF ToCome, Unsaved
                <5>5. ~(row[v][r] <= vault[v].seen)
                    BY <1>1, <4>2, <5>3, Numbers
                <5>6. Kept(v, r)
                    BY <5>4, <5>5 DEF Kept
                <5>7. ~Excused(v, r)
                    BY <5>1 DEF Excused
                <5> QED BY <3>1, <4>2, <5>3, <5>6, <5>7, PageKept
            <4> QED BY <4>1, <4>4
        <3>12. BuildInv(v)'
            BY <3>1 DEF BuildInv
        <3> QED BY <2>10, <3>6, <3>7, <3>8, <3>9, <3>10, <3>11, <3>12 DEF VaultInv
    <2>15. CASE PageTurns(v) /\ index'[v] = index[v] /\ live'[v] = live[v]
        <3>1. /\ ShardOf[v] \in up /\ ~build'[v].on /\ build'[v].left = {}
              /\ ~vault'[v].owned /\ vault'[v].leaving /\ ~vault'[v].queued
              /\ vault'[v].checked = vault[v].checked /\ vault'[v].why = vault[v].why
              /\ vault'[v].seen = 0 /\ vault'[v].applied = 0
              /\ \A r \in Res : vault'[v].pending[r] = 0
              /\ epoch = NoEpoch /\ v \notin owned /\ v \notin Shown /\ index[v].there /\ ~index[v].stale
            BY <2>5, <2>15, Blank DEF PageTurns, Turned
        <3>2. v \notin home /\ moves # 0 /\ vault[v] = NewVault /\ ~live[v].on
            BY <2>2, <2>3, <2>5, <3>1, Blank
        <3>3. OrphanInv(v)' /\ ReadsIndex(v)' /\ TakenIn(v)' /\ ListInv(v)'
            <4>1. OrphanInv(v)'
                BY <1>4, <3>2 DEF OrphanInv
            <4>2. ReadsIndex(v)'
                BY <1>4, <2>1, <2>5, <2>15, <3>1, <3>2 DEF VaultInv, ReadsIndex
            <4>3. TakenIn(v)'
                BY <1>4, <2>15, <3>1, <3>2, Blank DEF TakenIn
            <4>4. ListInv(v)'
                BY <1>4, <3>1, <3>2 DEF ListInv
            <4> QED BY <4>1, <4>2, <4>3, <4>4
        <3>4. VaultBound(v)'
            <4>1. VaultBound(v)
                BY <2>1 DEF VaultInv
            <4>2. top \in Nat /\ \A r \in Res : row[v][r] \in Nat
                BY <1>1, MainNumbers, Numbers
            <4> QED BY <1>4, <2>15, <3>1, <4>1, <4>2 DEF VaultBound
        <3>5. DiskInv(v)' /\ IndexInv(v)' /\ BuildInv(v)'
            <4>1. DiskInv(v)'
                BY <2>2, <2>9, <2>15, <3>2
            <4> QED BY <3>1, <4>1 DEF IndexInv, BuildInv
        <3> QED BY <2>10, <3>3, <3>4, <3>5 DEF VaultInv
    <2> QED BY <2>4, <2>11, <2>12, <2>13, <2>14, <2>15
<1> QED BY <1>2, <1>6, <1>7, <1>8 DEF IInv, GlobalInv
-----------------------------------------------------------------------------
(* All steps.                                                               *)

LEMMA TypesStep ==
    ASSUME TypeOK, RowInv, [Next]_vars
    PROVE  TypeOK' /\ RowInv'
<1>1. CASE UNCHANGED vars
    <2>1. UNCHANGED <<backend, storeVars, saved, main, crashes, moves>>
        BY <1>1 DEF vars
    <2>2. StoreType'
        BY <2>1, Functions, StoreTyped DEF storeVars
    <2>3. TypeOK'
        BY <2>1, <2>2 DEF TypeOK, backend, main
    <2>4. RowInv'
        BY <2>1 DEF RowInv, backend
    <2> QED BY <2>3, <2>4
<1>2. CASE BackendNext
    <2>1. ASSUME NEW v \in Vault, NEW r \in Res, Edit(v, r)
          PROVE  TypeOK' /\ RowInv'
        BY <2>1, EditTypes, EditRows
    <2>2. ASSUME NEW v \in Vault, Delete(v)
          PROVE  TypeOK' /\ RowInv'
        BY <2>2, DeleteTypes, DeleteRows
    <2>3. ASSUME NEW v \in Vault, Leave(v) \/ Return(v)
          PROVE  TypeOK' /\ RowInv'
        <3>1. row' = row /\ top' = top
            BY <2>3 DEF Leave, Return
        <3> QED BY <2>3, <3>1, LeaveTypes DEF RowInv
    <2>4. CASE Recreate
        <3>1. TypeOK' /\ \A v \in Vault : row'[v] = [r \in Res \cup {Gone} |-> 0]
            BY <2>4, RecreateTypes
        <3>2. \A v \in Vault : \A r \in Res \cup {Gone} : row'[v][r] = 0
            BY <3>1
        <3>3. top' = 0
            BY <2>4 DEF Recreate
        <3> QED BY <3>1, <3>2, <3>3 DEF RowInv
    <2> QED BY <1>2, <2>1, <2>2, <2>3, <2>4 DEF BackendNext
<1>3. CASE MainNext \/ Crash \/ \E s \in Shard : ShardDies(s) \/ ShardRestarts(s)
    <2>1. row' = row /\ top' = top
        BY <1>3 DEF MainNext, Crash, ListAsk, ListTake, Poll, PollFails, NewEpoch, TakePage, SaveBegin, SaveEnd,
                    ShardDies, ShardRestarts, backend
    <2>2. RowInv'
        BY <2>1 DEF RowInv
    <2>3. MainNext => TypeOK'
        BY ListTypes, ListTakeTypes, PollTypes, NewEpochTypes, TakePageTypes, SaveFacts DEF MainNext
    <2>4. Crash => TypeOK'
        BY CrashTypes
    <2>5. ASSUME NEW s \in Shard, ShardDies(s) \/ ShardRestarts(s)
          PROVE  TypeOK'
        BY <2>5, ShardDiesTypes, ShardRestartsTypes
    <2> QED BY <1>3, <2>2, <2>3, <2>4, <2>5
<1>4. CASE Work
    <2>1. Here /\ row' = row /\ top' = top
        BY <1>4 DEF Work, Here, backend
    <2>2. RowInv'
        BY <2>1 DEF RowInv
    <2>3. \A v \in Vault : Works(v) => TypeOK'
        BY DEF Works
    <2>4. ASSUME NEW v \in Vault
          PROVE  /\ Check(v) => TypeOK'
                 /\ LiveWrite(v) => TypeOK'
                 /\ LiveFails(v) => TypeOK'
                 /\ BuildStart(v) => TypeOK'
                 /\ BuildEnd(v) => TypeOK'
                 /\ BuildFails(v) => TypeOK'
                 /\ OrphanEnd(v) => TypeOK'
                 /\ Sweep(v) => TypeOK'
        <3>1. Check(v) => Works(v)
            BY <2>1, CheckFacts
        <3>2. LiveWrite(v) => Works(v)
            BY <2>1, LiveWriteFacts
        <3>3. LiveFails(v) => Works(v)
            BY <2>1, LiveFailsFacts
        <3>4. BuildStart(v) => Works(v)
            BY <2>1, BuildStartFacts
        <3>5. BuildEnd(v) => Works(v)
            BY <2>1, BuildEndFacts
        <3>6. BuildFails(v) => Works(v)
            BY <2>1, BuildFailsFacts
        <3>7. OrphanEnd(v) => Works(v)
            BY <2>1, OrphanEndFacts
        <3>8. Sweep(v) => Works(v)
            BY <2>1, SweepFacts
        <3> QED BY <2>3, <3>1, <3>2, <3>3, <3>4, <3>5, <3>6, <3>7, <3>8
    <2>5. ASSUME NEW v \in Vault, NEW r \in Res, BuildRead(v, r)
          PROVE  TypeOK'
        <3>1. Works(v)
            BY <2>1, <2>5, BuildReadFacts
        <3> QED BY <2>3, <3>1
    <2>6. ASSUME NEW v \in Vault, NEW due \in SUBSET Res, LiveTake(v, due) \/ LiveGone(v, due)
          PROVE  TypeOK'
        <3>1. CASE LiveTake(v, due)
            <4>1. Works(v)
                BY <2>1, <3>1, LiveTakeFacts
            <4> QED BY <2>3, <4>1
        <3>2. CASE LiveGone(v, due)
            <4>1. Works(v)
                BY <2>1, <3>2, LiveGoneFacts
            <4> QED BY <2>3, <4>1
        <3> QED BY <2>6, <3>1, <3>2
    <2>7. StoreNext
        BY <1>4 DEF Work
    <2>8. TypeOK'
        BY <2>4, <2>5, <2>6, <2>7 DEF StoreNext
    <2> QED BY <2>2, <2>8
<1> QED BY <1>1, <1>2, <1>3, <1>4 DEF Next, ShardNext

LEMMA TypesInit ==
    ASSUME Init
    PROVE  TypeOK /\ RowInv
<1>1. \A v \in Vault : row[v] = [r \in Res \cup {Gone} |-> 0]
    BY DEF Init
<1>2. \A v \in Vault : \A r \in Res \cup {Gone} : row[v][r] = 0
    BY <1>1
<1>3. RowInv
    BY <1>2 DEF Init, RowInv
<1>4. StoreType
    <2>1. /\ index = [v \in Vault |-> NoIndex] /\ up = Shard
          /\ know = [s \in Shard |-> NoEpoch] /\ feedPos = [s \in Shard |-> 0]
          /\ vault = [v \in Vault |-> NewVault] /\ live = [v \in Vault |-> NoUnit]
          /\ build = [v \in Vault |-> NoBuild] /\ carried = [v \in Vault |-> {}]
        BY DEF Init, StoreInit
    <2>2. index \in [Vault -> IndexState] /\ vault \in [Vault -> VaultState]
        BY <2>1, Literals
    <2>3. live \in [Vault -> UnitState] /\ build \in [Vault -> BuildState]
        BY <2>1, Literals
    <2>4. /\ up \in SUBSET Shard /\ know \in [Shard -> Epoch \cup {NoEpoch}]
          /\ feedPos \in [Shard -> Seq0] /\ carried \in [Vault -> SUBSET Res]
        BY <2>1, Constants
    <2> QED BY <2>2, <2>3, <2>4 DEF StoreType, IndexState, VaultState, UnitState, BuildState
<1>5. TypeOK
    <2>1. row \in [Vault -> [Res \cup {Gone} -> Seq0]]
        BY Constants DEF Init
    <2>2. /\ feedEpoch \in Epoch /\ top \in Seq0 /\ home \in SUBSET Vault
          /\ epoch \in Epoch \cup {NoEpoch} /\ cursor \in Seq0 /\ persisted \in Seq0
          /\ owned \in SUBSET Vault /\ listed \in BOOLEAN
        BY Constants DEF Init
    <2>3. saved \in [epoch : Epoch \cup {NoEpoch}, cursor : Seq0] /\ save \in [on : BOOLEAN, safe : Seq0]
        BY Constants DEF Init, NoSave
    <2>4. listing \in ListState /\ poll \in PageState
        BY Literals DEF Init
    <2>5. rewindTo \in 0..Nothing /\ crashes \in 0..MaxCrash /\ moves \in 0..MaxMove
        <3>1. 0 <= Nothing /\ Nothing <= Nothing /\ Nothing \in Nat
            BY Constants
        <3> QED BY <3>1, PageAssumption DEF Init
    <2> QED BY <1>4, <2>1, <2>2, <2>3, <2>4, <2>5 DEF TypeOK, ListState, PageState
<1> QED BY <1>3, <1>5

LEMMA IInit ==
    ASSUME Init
    PROVE  IInv
<1>1. TypeOK /\ RowInv
    BY TypesInit
<1>2. /\ feedEpoch = 1 /\ top = 0 /\ home = Vault /\ saved.epoch = NoEpoch /\ saved.cursor = 0
      /\ epoch = NoEpoch /\ cursor = 0 /\ persisted = 0 /\ rewindTo = Nothing
      /\ owned = {} /\ ~listed /\ ~listing.on /\ ~poll.on /\ poll.changes = {} /\ ~save.on
      /\ crashes = 0 /\ moves = 0 /\ up = Shard /\ NoEpoch = 0
      /\ \A s \in Shard : know[s] = NoEpoch /\ feedPos[s] = 0
    BY DEF Init, StoreInit, NoList, NoPage, NoSave, NoEpoch
<1>3. \A v \in Vault : /\ index[v] = NoIndex /\ vault[v] = NewVault /\ live[v] = NoUnit /\ build[v] = NoBuild
                       /\ Alive(v)
    <2>1. \A v \in Vault : row[v] = [r \in Res \cup {Gone} |-> 0]
        BY DEF Init
    <2>2. \A v \in Vault : row[v][Gone] = 0
        BY <2>1
    <2> QED BY <2>2 DEF Init, StoreInit, Alive
<1>4. FeedInv /\ MainInv /\ ShardInv /\ MainBound /\ PageBound
    BY <1>2, <1>3 DEF FeedInv, MainInv, ShardInv, MainBound, PageBound
<1>5. ASSUME NEW v \in Vault
      PROVE  VaultInv(v)
    <2>1. ~Good(v)
        BY <1>3, Blank DEF Good, Doomed
    <2>2. OrphanInv(v) /\ ReadsIndex(v)
        <3>1. NoEpoch <= feedEpoch
            BY <1>2
        <3> QED BY <1>2, <1>3, <3>1, Blank DEF OrphanInv, ReadsIndex
    <2>3. TakenIn(v) /\ ListInv(v)
        BY <1>2, <1>3, Blank DEF TakenIn, ListInv
    <2>4. VaultBound(v)
        <3>1. index[v].epoch = NoEpoch
            BY <1>3, Blank
        <3>2. epoch # feedEpoch /\ index[v].epoch # feedEpoch
            BY <1>2, <3>1
        <3> QED BY <3>2 DEF VaultBound
    <2>5. PageInv(v) /\ DiskInv(v) /\ IndexInv(v) /\ BuildInv(v)
        BY <1>2, <1>3, <2>1, Blank DEF PageInv, DiskInv, IndexInv, BuildInv
    <2> QED BY <2>2, <2>3, <2>4, <2>5 DEF VaultInv
<1> QED BY <1>1, <1>4, <1>5 DEF IInv, GlobalInv

LEMMA IStep ==
    ASSUME Apart, IInv, [Next]_vars
    PROVE  IInv'
<1>1. CASE UNCHANGED vars
    <2>1. TypeOK /\ RowInv /\ GlobalInv
        BY DEF IInv, GlobalInv
    <2>2. TypeOK'
        BY <2>1, TypesStep
    <2>3. Elsewhere
        BY <1>1 DEF vars, backend, storeVars, main, Elsewhere
    <2>4. GlobalInv'
        BY <2>1, <2>3, GlobalFrame
    <2>5. ASSUME NEW v \in Vault
          PROVE  VaultInv(v)'
        <3>1. Same(v)
            <4>1. UNCHANGED <<index, vault, live, build, carried, row, home, moves, top>> /\ Elsewhere
                BY <1>1, <2>3 DEF vars, backend, storeVars
            <4>2. top' >= top /\ moves' >= moves
                BY <2>1, <4>1, MainNumbers
            <4> QED BY <4>1, <4>2 DEF Elsewhere, Same
        <3>2. VaultInv(v)
            BY DEF IInv
        <3> QED BY <2>1, <2>2, <3>1, <3>2, VaultFrame
    <2> QED BY <2>2, <2>4, <2>5 DEF IInv
<1>2. CASE BackendNext
    <2>1. ASSUME NEW v \in Vault, NEW r \in Res, Edit(v, r)
          PROVE  IInv'
        BY <2>1, EditKeeps
    <2>2. ASSUME NEW v \in Vault, Delete(v) \/ Leave(v) \/ Return(v)
          PROVE  IInv'
        BY <2>2, DeleteKeeps, LeaveKeeps, ReturnKeeps
    <2>3. CASE Recreate
        BY <2>3, RecreateKeeps
    <2> QED BY <1>2, <2>1, <2>2, <2>3 DEF BackendNext
<1>3. CASE MainNext
    BY <1>3, ListAskKeeps, ListTakeKeeps, PollKeeps, PollFailsKeeps, NewEpochKeeps, TakePageKeeps,
       SaveBeginKeeps, SaveEndKeeps DEF MainNext
<1>4. CASE Crash
    BY <1>4, CrashKeeps
<1>5. ASSUME NEW s \in Shard, ShardDies(s) \/ ShardRestarts(s)
      PROVE  IInv'
    BY <1>5, ShardDiesKeeps, ShardRestartsKeeps
<1>6. CASE Work
    <2>1. Here
        BY <1>6 DEF Work, Here
    <2>2. PICK v \in Vault :
            \/ Check(v) \/ LiveWrite(v) \/ LiveFails(v) \/ BuildStart(v) \/ BuildEnd(v)
            \/ BuildFails(v) \/ OrphanEnd(v) \/ Sweep(v)
            \/ \E r \in Res : BuildRead(v, r)
            \/ \E due \in SUBSET Res : LiveTake(v, due) \/ LiveGone(v, due)
        BY <1>6 DEF Work, StoreNext
    <2>3. CASE Check(v) \/ LiveWrite(v) \/ LiveFails(v) \/ BuildStart(v)
        BY <2>1, <2>3, CheckKeeps, LiveWriteKeeps, LiveFailsKeeps, BuildStartKeeps
    <2>4. CASE BuildEnd(v) \/ BuildFails(v) \/ OrphanEnd(v) \/ Sweep(v)
        BY <2>1, <2>4, BuildEndKeeps, BuildFailsKeeps, OrphanEndKeeps, SweepKeeps
    <2>5. CASE \E r \in Res : BuildRead(v, r)
        BY <2>1, <2>5, BuildReadKeeps
    <2>6. CASE \E due \in SUBSET Res : LiveTake(v, due) \/ LiveGone(v, due)
        BY <2>1, <2>6, LiveTakeKeeps, LiveGoneKeeps
    <2> QED BY <2>2, <2>3, <2>4, <2>5, <2>6
<1> QED BY <1>1, <1>2, <1>3, <1>4, <1>5, <1>6 DEF Next, ShardNext
-----------------------------------------------------------------------------
(* The theorems.                                                            *)

\* Whatever overlaps, and however many shards and epochs: no two rows of the backend
\* share a sequence, which is what lets a shard take the sequence of a change for its
\* identity (pending, maxSeen).
THEOREM RowsAreDistinct == Spec => [](TypeOK /\ RowInv)
<1>1. Init => TypeOK /\ RowInv
    BY TypesInit
<1>2. (TypeOK /\ RowInv) /\ [Next]_vars => (TypeOK /\ RowInv)'
    BY TypesStep
<1> QED BY <1>1, <1>2, PTL DEF Spec

\* Whatever overlaps: every step of the peer and of the backend keeps positions, pending
\* changes, indexes and builds in their ranges.
THEOREM TypeCorrect == Spec => []TypeOK
BY RowsAreDistinct, PTL

\* What the main thread, the shards and the files have of every vault agrees, at
\* every step of the loop, of a unit of work and of a build, and through every crash.
THEOREM FeedInvariant == Apart => (Spec => []IInv)
<1> SUFFICES ASSUME Apart
             PROVE  Spec => []IInv
    OBVIOUS
<1>1. Init => IInv
    BY IInit
<1>2. IInv /\ [Next]_vars => IInv'
    BY IStep
<1> QED BY <1>1, <1>2, PTL DEF Spec

\* liveUnit drops a change up to the sequence written in the index: nothing up to
\* it is missing from an index that will not be built again, but what a build has
\* left pending.
THEOREM SequencesAreHonest == Apart => (Spec => []SequenceHonest)
<1> SUFFICES ASSUME Apart
             PROVE  Spec => []SequenceHonest
    OBVIOUS
<1>1. IInv => SequenceHonest
    <2> SUFFICES ASSUME IInv, NEW v \in Vault, row[v][Gone] = 0, ~Doomed(v), NEW r \in Missing(v, index[v].seq)
                 PROVE  r \in carried[v]
        BY DEF SequenceHonest
    <2>1. TypeOK /\ DiskInv(v) /\ Alive(v) /\ Good(v)
        BY DEF IInv, VaultInv, Alive, Good
    <2>2. r \in Res /\ row[v][r] <= index[v].seq /\ r \notin index[v].fresh
        BY DEF Missing
    <2>3. row[v][r] \in Nat /\ index[v].seq \in Nat
        BY <2>1, <2>2, Numbers
    <2>4. r \in Res \ (index[v].fresh \cup carried[v]) => row[v][r] > index[v].seq
        BY <2>1 DEF DiskInv
    <2> QED BY <2>2, <2>3, <2>4
<1> QED BY <1>1, FeedInvariant, PTL

\* persist saves no position beyond a change that is in no index on disk: wherever
\* the peer is killed, what it will not read again from the feed is in the indexes,
\* but what a build has left pending.
THEOREM SavedPositionIsSafe == Apart => (Spec => []SafeButCarried)
<1> SUFFICES ASSUME Apart
             PROVE  Spec => []SafeButCarried
    OBVIOUS
<1>1. IInv => SafeButCarried
    <2> SUFFICES ASSUME IInv, NEW v \in home, ~Doomed(v), NEW r \in Missing(v, ResumeFrom)
                 PROVE  r \in carried[v]
        BY DEF SafeButCarried
    <2>1. TypeOK /\ FeedInv
        BY DEF IInv, GlobalInv
    <2>2. v \in Vault /\ Alive(v) /\ Good(v) /\ Fed(v)
        BY <2>1 DEF TypeOK, FeedInv, Good, Fed
    <2>3. DiskInv(v)
        BY <2>2 DEF IInv, VaultInv
    <2>4. r \in Res /\ row[v][r] <= ResumeFrom /\ r \notin index[v].fresh
        BY DEF Missing
    <2>5. row[v][r] \in Nat /\ index[v].seq \in Nat /\ saved.cursor \in Nat
        BY <2>1, <2>2, <2>4, Numbers, MainNumbers
    <2>6. r \in Res \ (index[v].fresh \cup carried[v]) =>
             row[v][r] > index[v].seq /\ (saved.epoch = feedEpoch => row[v][r] > saved.cursor)
        BY <2>2, <2>3 DEF DiskInv
    <2>7. row[v][r] <= (IF saved.epoch = feedEpoch THEN saved.cursor ELSE 0)
        BY <2>4 DEF ResumeFrom
    <2> QED BY <2>4, <2>5, <2>6, <2>7
<1> QED BY <1>1, FeedInvariant, PTL

\* A peer that has read the whole feed and has no unit, build or orphan left to see
\* to serves indexes that hold the content of their vaults.
THEOREM RestIsIndexed == Apart => (Spec => []RestMeansIndexed)
<1> SUFFICES ASSUME Apart
             PROVE  Spec => []RestMeansIndexed
    OBVIOUS
<1>1. IInv => RestMeansIndexed
    <2> SUFFICES ASSUME IInv, Rest, NEW v \in home
                 PROVE  /\ index[v].built /\ ~index[v].stale
                        /\ Res \ index[v].fresh \subseteq (IF crashes = 0 THEN {} ELSE carried[v])
        BY DEF RestMeansIndexed
    <2>1. TypeOK /\ FeedInv /\ RowInv
        BY DEF IInv, GlobalInv
    <2>2. v \in Vault /\ Alive(v) /\ Fed(v)
        BY <2>1 DEF TypeOK, FeedInv, Fed
    <2>3. ReadsIndex(v) /\ TakenIn(v) /\ IndexInv(v)
        BY <2>2 DEF IInv, VaultInv
    <2>4. /\ epoch = feedEpoch /\ cursor >= top /\ rewindTo = Nothing
          /\ vault[v].owned /\ ~vault[v].queued /\ vault[v].why = "" /\ Waiting(vault[v].pending) = {}
        BY <2>2 DEF Rest
    <2>5. vault[v].checked
        BY <2>3, <2>4 DEF TakenIn
    <2>6. index[v].built /\ ~index[v].stale /\ index[v].epoch = feedEpoch
        BY <2>3, <2>4, <2>5 DEF ReadsIndex
    <2>7. Good(v)
        BY <2>6 DEF Good, Doomed
    <2>8. Back = cursor
        <3>1. cursor \in Nat /\ Nothing \in Nat /\ cursor < Nothing
            BY <2>1, MainNumbers
        <3>2. cursor <= Nothing
            BY <3>1
        <3> QED BY <2>4, <3>2 DEF Back, Smaller
    <2>9. \A r \in Res \ Had(v) : row[v][r] > index[v].seq /\ Kept(v, r)
        BY <2>2, <2>3, <2>4, <2>7 DEF IndexInv
    <2>10. ASSUME NEW r \in Res \ Had(v)
           PROVE  FALSE
        <3>1. /\ row[v][r] \in Nat /\ index[v].seq \in Nat /\ vault[v].seen \in Nat
              /\ cursor \in Nat /\ top \in Nat
            BY <2>1, <2>2, Numbers, MainNumbers
        <3>2. row[v][r] <= top
            BY <2>1, <2>2 DEF RowInv
        <3>3. row[v][r] # 0
            BY <2>9, <3>1
        <3>4. vault[v].pending[r] = 0
            BY <2>4 DEF Waiting
        <3>5. row[v][r] > vault[v].seen
            BY <2>9, <3>1, <3>3, <3>4 DEF Kept
        <3>6. row[v][r] > cursor
            BY <2>2, <2>8, <2>9, <3>5 DEF Kept, ToCome
        <3>7. top <= cursor
            BY <2>4, <3>1
        <3> QED BY <3>1, <3>2, <3>6, <3>7
    <2> QED BY <2>6, <2>10 DEF Had
<1> QED BY <1>1, FeedInvariant, PTL
=============================================================================
