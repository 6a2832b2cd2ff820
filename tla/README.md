# TLA+ models of Savoire

Savoire is a collaborative note application.  Users open *vaults* (a tree of
documents) in a web or desktop client; vaults live on a server, on peers
(EdgeSync) or in a folder.  Documents, the file tree of a vault and the shared
indexes are CRDTs (Yjs), so merging is never the problem.  What can go wrong is
*around* the merge: whether an update is stored, whether it reaches everyone,
whether compaction of a journal throws away something nobody else holds, whether
a reconnection joins again what the lost connection had joined, whether a lock
is held by the one who writes.  These modules are about that.

An update, and the state of a replica, is the set of edits it carries; merging is
union.  This is the only thing the models assume of Yjs.

## Inventory

Paths: `hubs` is `src/backend/Savoire.API/Api/Hubs`, `sync` is
`src/packages/infrastructure-sync/src`, `app` is `src/packages/application/src`.

| Component | State | Operations | Interacts with | Hard part | What makes it correct |
|---|---|---|---|---|---|
| Index channels (`VaultHub` JoinIndex, PushIndexUpdate, SnapshotIndex; `EfCrdtOpRepository.ReplaceAsync`; `VaultHubClient`; `YMapIndexChannel`) | journal of ops with ids, group, ids returned to each connection; Y.Doc, lost pushes | join, push, snapshot, reconnect, rejoin, flush | hub group broadcasts; session callbacks | join in two steps, compaction by several clients at once, pushes without an answer | nothing stored is lost; who is at rest is joined, saved, and up to date |
| Lost pushes and `flush()` (`VaultHubClient`, `SavoireServerVaultSession`) | count of lost pushes, pushes in flight | push, settle, send states, acknowledge | all channels of a vault; transfer of vaults | flushes at once, refusals in the middle, breaks | an unsaved edit is counted; a flush that succeeds kept its promise |
| Documents (`SyncHub`, `SignalRTransport`, `CollabOrchestrator`) | journal; Y.Doc, ops being signed, early ops | open, sign, push, join, compact, close | hub group, signature | asynchronous signature, first connection late or never, reconnection | an op shown is stored; others see it |
| Vault directory (`VaultHub` JoinVault, PushVaultOperation, SnapshotVault; `YMapVaultDirectory`) | journal; Y.Doc | join, push, compact, reconnect | as above | compaction by force while others push | the same |
| Document locks (`DocumentLockRegistry`, `VaultHub`, `EditorAreaWidget`) | holder of each document; each editor's view, requests | acquire, release, request, hand over | group broadcasts, disconnections | answers and news out of order, lost connections, restart of the server | who writes holds the lock; no lock is held for nobody |
| Indexer peer: feed and shards (`apps/indexer/src/feed.ts`, `shards.ts`, `state.ts`) | cursor, persisted position, epoch, owned vaults, worker threads | poll, dispatch, persist, rewind, list vaults | backend feed, shards | crash between applying and persisting, restart of a shard, change of epoch, list racing the feed | no change is ever skipped |
| Indexer peer: store (`store.ts`) | per vault: pending changes, serving and target index, build, state | apply, check, build, swap, orphan, evict | feed, file system, backend | changes during a build, ownership lost and regained | an index answers for what it claims |
| Backend change feed (`IndexerChangeWriter`, `EfIndexerChangeRepository`) | one row per resource, sequence | touch, page | every write of a vault | order of sequence against order of commit | a reader that has passed a sequence misses nothing before it |
| Snapshot rooms (`DocumentRoomHub`, `DocumentRoomClient`, `SnapshotDocuments`) | last snapshot, group; the client's map of rooms, the document's copy and the writes that wait for its room | open, write, close; join, push, leave | group, edit lock | last writer wins, join in three steps, openings that share a room | replicas converge on what is stored; no write is lost in silence |
| EdgeSync (`EdgeSyncHub`, `infrastructure-edgesync`) | rooms, claims; each peer's list of the others, its key, its escrow | join, claim, relay, leave; greet, grant, save | peers, escrow | a room emptied while it is joined, a claimant that dies, frames in no order | one genesis at a time; the key reaches everyone and can come back |
| Access control (`Application/Sharing`, `Vaults`, `Sync/Access`) | grants, links, members | grant, revoke, check | every hub call | check first, use later | a revoked member stops writing |
| Document pool (`GracePool`, `CrdtDocumentFetcher`) | entries, references, timers | acquire, release, evict | sessions | release and eviction against timers | a leased value is not disposed of |
| Local sessions (`filesystem/`, `LocalPeerVaultSession`) | visible files, journals of updates, projections noted, agreements in memory | type, flush, read, reconcile, project, compact | other windows and outside tools, through the disk | two windows and a tool writing one folder, each at its own time | nothing is deleted or doubled that nobody deleted or doubled; file and journal agree at rest |
| Transfer (`VaultTransfer`), indexer core, editor, plugins, web interface, desktop, accounts | - | - | - | sequential | - |

PROJECT.json lists every component with its sources, its status, and why a
component is not modelled; and every hazard at its line.

## Modules

| Module | Models | Extends |
|---|---|---|
| `UpdateStore` | abstract: users make updates, a store takes them in (`Seed`: in earlier sessions) and never lets one go, replicas learn only what is stored, or forget everything | - |
| `IndexChannel` | one index channel end to end: hub, journal, clients | - |
| `PushRecovery` | one session: lost pushes, flushes, refusals | - |
| `HubJournal` | the server's half shared by documents and directories (no Next) | - |
| `DocumentSync` | a document, its transports and orchestrators | `HubJournal` |
| `VaultDirectory` | the directory of a vault and its sessions | `HubJournal` |
| `IndexerStore` | the shards of the indexer peer: what their store does with messages, and its own work (no Next) | - |
| `IndexerFeed` | the backend's feed, the main thread of the indexer peer, crashes | `IndexerStore` |
| `DocumentLocks` | one document's lock: registry, hub, editors | - |
| `FolderText` | one text of a vault kept in a folder: file, journal, windows, an outside tool | - |
| `EdgeRooms` | the peers of an EdgeSync vault, the hub that introduces them, the claim and the key | - |
| `SnapshotRoom` | one document kept as whole snapshots: hub, rooms, openings | - |
| `Queues` | what the proofs say of queues of calls and messages | - |
| `IndexChannelProofs` | theorems about `IndexChannel`, and that it implements `UpdateStore` | `IndexChannel`, `Queues` |
| `HubJournalProofs` | what the server's half preserves, whatever its clients (lemmas) | `HubJournal`, `Queues` |
| `DocumentSyncProofs` | theorems about `DocumentSync`, and that it implements `UpdateStore` | `DocumentSync`, `HubJournalProofs` |
| `VaultDirectoryProofs` | theorems about `VaultDirectory` | `VaultDirectory`, `HubJournalProofs` |
| `DocumentLocksProofs`, `EdgeRoomsProofs` | theorems about the module each is named after | that module, `Queues` |
| `PushRecoveryProofs`, `IndexerFeedProofs` | theorems about the module each is named after | that module |
| `MC...` | the model values and symmetry TLC needs | the module |

### How state and actions correspond to the code

*Connections.*  A connection is `<<client, number>>`: the server may still be
working on a connection its client has lost.  `up[k]` are the calls sent and not
started, `down[k]` the messages sent and not received, `work[k]` the call the
hub is in the middle of.  A hub method that awaits between two effects is two
actions: `JoinRead` (the query) and `JoinAnswer` (group entry and answer),
`PushAppend` (the command) and `PushCast` (the broadcast), `ReleaseLock` and
`Freed`.  The gap between them is where the interesting interleavings are.

*External: SignalR.*  Taken from how the code uses it and from its defaults: the
calls of one connection run one at a time, in order; messages down one connection
keep their order; groups and `Context.Items` belong to a connection and die with
it; `invoke` rejects when the connection breaks, though the server may have run
the call; automatic reconnection makes a new connection.  `OnDisconnectedAsync`
is assumed not to run while a call of its connection is running.

*IndexChannel.*  `ops`/`nextId` are the rows of the journal, `covered` is
`Context.Items["idx-joined"]`, `doc` the channel's Y.Doc, `lossy` says that
`lostPushes` is not zero.  `Receive` is a whole handler: merging, compaction of a
long journal (encode, `SnapshotIndex`), and, at the end of `rejoinIndexes`, the
flush that `onReconnected` triggers.  `slipped` is a history variable:
broadcasts a connection missed because its join had read and not yet entered.

*PushRecovery.*  `line` are the calls not yet answered, in order; `track()` is
`Edit` with `EditAnswered`; `flush()` is `Ask`/`Begin`, `Settle`, then
`FlushAnswered` once per channel; `Turn` is the event loop: a flush with nothing
left to wait for goes on (a microtask) before the next event.

*HubJournal, DocumentSync, VaultDirectory.*  `Snapshot` is
`CompactAsync(force: true)`.  `read`, `said` and `cut` are history: what a join
has read, what a connection has pushed, what compaction has deleted.  In
`DocumentSync`, `signing` are ops whose signature is awaited, `early` is the
orchestrator's buffer, and `broken` (history) tells a transport that has lost its
connection.  In `VaultDirectory`, `phase` follows `open()`, the reconnection
handler and `onclose`.

*DocumentLocks.*  `holder` is the registry's entry for the document; `view` is the
editor's `lock`, and the lock effect of `EditorAreaWidget` is `Open`/`Close`
with its callbacks in `Receive`.

*IndexerStore, IndexerFeed.*  `row` is the table `indexer_changes`, `feedEpoch` the
database's epoch, `home` what `IndexerRouting` gives this instance.  `cursor`,
`persisted`, `rewindTo`, `owned`, `listed`, `epoch` are the fields of `Feed`,
`saved` is `indexer-state.json`; `poll`, `listing` and `save` are the three
requests of the main thread that may be under way.  Of a vault, `vault[v]` holds
the fields of `Vault` (`why` is `rebuild`, `seen` `maxSeen`, `applied`
`appliedSeq`), `index[v]` is the file and its `.stale` mark, `live[v]` and
`build[v]` are `liveUnit` and `build` between two of their awaits.  What an index
holds is reduced to `fresh`, the resources whose current content is in it: an
edit takes its resource out of every copy, a read puts it back.  `carried` is a
history variable: changes a build has left pending.  Messages to a shard are
handled when posted, which the order of a shard's messages justifies (a shard
reads nothing else of the main thread).  `orphan()` is two steps, `Own` and
`OrphanEnd`, with `leaving` in between; `deleteVault()` is one.

`Overlap` names six overlaps that do lose a change or leave an index wrong, each
left out of `indexer_feed` and found when put back (see below): `page` (a page
asked for before a shard fell is given to its successor), `save` (the position
is worked out between a shard's restart and the next turn of the feed), `epoch`
(another epoch comes during a save or a build), `early` (a shard is started again
before the first page); `move`, a vault that leaves and another epoch in one
history; and `orphan`, a vault that becomes an orphan under a unit at work, or comes
back before it has become one.

*FolderText.*  `file` is the visible file, `journal` the directory of updates
(`UpdateLog`), `projected` is `projected.json`.  Of a window, `doc` is the replica's
Y.Doc, `seen` the names its log has read or written, `pending` what `UpdateLog` has not
written yet, `base` the last agreement of file and state, `staleFile` a text known
for an old projection, `mine` is `replica.projected`; `mine` and `projected` are lists cut
to their last `Kept` texts (`PROJECTIONS_KEPT`).  `due` is the timer of
`scheduleProjection`, `asked` the projection in the session's queue, `newFile` and
`newLog` what the watch has reported.  `job` is the operation of that queue under way,
between two of its awaits: `enqueue` makes them run one at a time, so the order of a
session's operations is free but they never overlap in one session.  `dying` are the
files a compaction has replaced and not erased yet: the compaction that ends a session
(`CompactWrite`, phase `ending`), or the one a long log makes in mid-session
(`FlushCompacts`, from `CompactAfter` files on), whose update and state are written in
one step, which leaves what a crash between the two would.  A projection is five steps:
measured (`StartProject`, `Measure`), its update written (`Flush`), `projected.json` read
(`NoteRead`) and written (`NoteWrite`), the file written (`WriteFile`).  A write of the
journal may fail (`FlushFails`, counted in `fails`): its updates wait for the next write,
the operation that waited for it is given up.  A text is a set of tokens with
their occurrences, a Yjs state the items inserted and deleted; `applyDeterministic`
(a Yjs client whose number depends on the content) gives the same items for the same
state and content, which is what `Led` says.  `made`, `shown` and `cut` are history:
tokens typed or inserted, states the file has agreed with, tokens the outside tool
has deleted.  A window is closed only when it has finished loading (the code lets
it be closed before; then nothing has been typed).  The folder is found as a tool
left it (`NoRun`), or as an earlier run did whose windows were killed
(`EarlierRun`): the last of them wrote a projection over an outside save that the other
had merged, so that the file is older than the journal, which is what lets a
projection find news in the file and merge it first (`Measure`).  `Overlap` names seven overlaps,
left out of `folder_text` and found when put back: `late` (the tool saves between the
measure of a projection and its write, or a window projects, or closes with a projection
to make, before it has read what the tool saved), `unshown` (a window reads the file before it
shows what the journal holds), `drop` (a document closed while a projection waits in the
queue and no timer runs), `compact` (a compaction encodes the state while what a pull has
read in the journal is not applied yet), `vanish` (a journal file listed, then erased by
another's compaction), `twice` (the file is written, by the tool or by another window's
projection, while a window that has found no state is about to take it for a new note; or
the tool writes it again before a window has read what it wrote last), `note` (two windows
note a projection in `projected.json` at the same time).

*EdgeRooms.*  `room`, `members`, `entered` are `EdgeSyncRooms`, `owner` is the claim;
`work[c]` is a hub method between two of its steps: `JoinRead` (the room is found or
made) and `JoinEnter` (the peer is added, the answer sent), `Disconnect` and `Left`.
Handlers of different connections run at the same time, and the hub takes no
lock; `crossed` (history) remembers which did.  Of a peer, `present` is the
transport's list, `key` what its session holds, `ticks` the retries of its greeting
left, `saving` are escrow saves on their way, `saved` is `escrowedThisSession`.  A save
ends well (`SaveDone`), or not (`SaveFails`: no user key, or a PUT refused), and `unsaved`
(history) remembers that; nothing tries it again.  Who holds
the key answers a greeting with it (external: the protocol of two sessions; that the
greeted greets back, which
`EdgesyncVaultSession.ts:89` denies, is what `EdgesyncVaultSession.test.ts:351` shows).  Frames
that can change nothing are left out.  `late` is history: the key came after the last
retry.  A connection that gives up for good is a `Close`.

*SnapshotRoom.*  `stored` is the room's journal, `group` the SignalR group.  An *opening*
is one `openDocument`, a *handle* the `DocumentRoomHandle` it asked for or found in the
client's map (`rooms`); `initial` is its `initialSnapshot`.  `JoinRead`, `JoinEnter` and
`JoinAnswer` are the three steps of `JoinRoom`; `PushStore` and `PushCast` those of
`PushSnapshot`.  `waiting` are writes made before the room has come.  History:
`settled` (writes stored, whose caller was told of the failure, or made while the
connection was lost), `blind` (somebody overwrote a write he had not seen), `missed`
(casts that slipped by a join), `late` (stored before a join or another write and cast
after), `held` (handles joined on the connection that still holds).

## Runs

`c2` never breaks or closes in most runs (`Stable`): one unreliable client and
one witness are enough to lose an update, to miss one, or to compact the other's;
two clients are also the least that can compact against each other.

| Run | Bounds | Shows |
|---|---|---|
| `index_channel` | 2 clients, 2 updates, 2 connections, compaction of any non-empty journal, retries may run out (480,952 states) | journal never loses an update although clients compact it at the same time; implements `UpdateStore` |
| `index_live` | the same with 1 update, retries succeed (18,222) | at rest: joined, saved, up to date but for `slipped`; edits are saved and shown in the end |
| `push_recovery` | 2 channels, 2 edits, the reconnection's flush and two callers' (336,900) | no unsaved edit is forgotten; flush keeps its promise unless a loss is counted after two flushes have sent at the same time |
| `document_sync` | 2 clients, 2 edits, 2 connections, compaction of 2 ops or more (1,477,843) | an editor whose connection has held has stored what it shows, misses only `slipped` or what a compaction deleted; compaction spares what its author has seen; with what it deletes counted as stored, the document implements `UpdateStore` |
| `vault_directory` | 2 sessions, 2 ops of earlier sessions and 2 edits, 2 connections, compaction of 2 ops or more, retries may run out (1,368,388) | compaction spares what its author has seen; at rest a session misses only `slipped` or what a compaction deleted, and what it shows is stored or a loss is counted |
| `document_locks` | 2 editors opened up to twice, 2 connections for one, but not both in one history; server restarts (1,345,798) | an editor at rest that writes holds the lock unless its connection has broken; no lock forgotten; the lock of a lost connection is freed in the end |
| `folder_text` | 2 windows opened once, 2 events (a token typed, inserted or deleted, a window killed), one outside save; or one event after an earlier run; a failed write is an event too; projections kept: 2; a log compacts at 5 files (3,165,980) | nothing deleted but by the outside tool, nothing doubled, compaction keeps the journal, at rest windows, journal and file agree (the file unless a write failed) |
| `edge_rooms` | 2 peers with an account each, 3 connections, one broken or closed, 1 retry, saves that may fail (2,107,268) | who is there is known to all but for crossing calls; one genesis per claim; no dead claim; the key reaches all, and is in escrow unless a save failed |
| `snapshot_room` | 2 clients, 2 writes, 2 openings for one of them, one connection broken (1,445,148) | at rest all show what is stored, unless a write crossed another or a join; no write lost in silence; documents get loaded; the group is who has the document open |
| `indexer_feed` | 1 vault of 2 resources, 1 shard, 2 changes, pages of 2, one crash, one vault moved or deleted, or a second epoch (2,614,453) | neither the saved position nor an index's sequence passes a change the index lacks, but for what a build left pending; at rest the index is the vault's content |

For the indexer, two resources are what a sequence needs to pass one change while
another waits, and two changes are the least that can be handled out of order;
vaults share nothing but the position, which is the least of theirs.

For `folder_text`, two events and a save are what a merge of an outside edit with a
word typed needs, in either order, and one killed window what an unprojected or
uncompacted journal needs.  Two projections kept are what two windows need, each of which
writes one (with `Kept = 1`, `NothingUnasked` is violated; the code keeps 8); five files
are a length some of these histories reach in mid-session and others do not.  For
`edge_rooms`, the third connection is the one made
again; three peers without a loss pass too (6.08 million states).  For
`snapshot_room`, a second opening is what sharing or replacing a handle needs.

One update or edit more than the number of clients adds no new relation between
them, since edits only differ by who made them and whom they have reached; two
connections are what a stale connection and its successor need.  Each property is
known to fail under a plausible mutation of the code it is about (PROJECT.json,
`mutants`), which shows that the bounds let the case happen.

Three properties are conjunctions of named parts, each of which is stated and
commented on its own: `QuietMeansSettled` (`QuietMeansJoined`, `QuietMeansSaved`,
`QuietMissesOnlySlipped`), `KeyComes` (`NoDeadClaim`, `KeyReaches`) and `NothingHangs`
(`WritesStored`, `RestMeansLoaded`).

`CHECK_DEADLOCK FALSE`: with the edits and connections bounded, every system
here comes to a legitimate rest.

### Disagreements between code and documentation

Runs expected to find a violation:

* `document_reconnect`: a document reconnected automatically is never joined
  again: ops made meanwhile are never sent, nor are the others' received.
* `folder_unshown`: words typed and journalled before the file shows them, on a text
  whose file was seeded or edited from outside, are read as deleted by the next
  window that opens: `applyDeterministic` notes the text agreed upon in
  `documents.json` only, not among the projections.

Met while modelling, each reproducible by changing one constant or property:

* a channel opened while a reconnection is rejoining is joined twice on one
  connection; the second join widens the ids the hub remembers (`VaultHub.cs:110`)
  before the first one's snapshot arrives, which then replaces ops it does not
  contain, though `SnapshotIndexCommand.cs:10` says otherwise
  (`IndexChannel.cfg` with `OpenDuringRejoin = TRUE`: `JournalKeeps`).  The theorems
  assume it away;
* an editor that reconnects still believes it holds the lock its old connection
  lost (`EditorAreaWidget.tsx:176`; `SteadyWritersHold` without its exception for
  `broken`);
* `lowWater` (`store.ts:403`) leaves out the vaults that are being built again, since
  a build reads everything; but a change to what the build has already read stays
  pending, the position is saved beyond it, against `feed.ts:12`, and once the build has
  ended a crash loses the change (`SafeButCarried` without `carried`);
* two flushes at once subtract the same losses: a push refused meanwhile is
  acknowledged unsent and the next `flush()` resolves (`PushRecovery`, invariant
  `FlushKeepsPromise`);
* the snapshot of a document or of a directory deletes the op another client has
  just pushed (`DocumentSync`, property `JournalKeeps`).  Later the op may come back,
  with the snapshot of a client that had been sent it; a client that has joined in
  between is told of it by nobody (a snapshot is not broadcast), hence `Told` and
  `cut` in `SteadyMissesOnlySlipped` and `RestMissesOnlySlipped`;
* `connect()` after retries have run out joins the vault only, so index channels
  are deaf and lost pushes wait (`IndexLive.cfg` with `RetriesRunOut = TRUE`);
* a client at rest may lack a broadcast for good (drop `slipped` from
  `QuietMissesOnlySlipped`);
* the news of a release may arrive after its successor's acquisition, and the new
  holder is told that nobody has the lock;
* a page in flight when a shard is started again reaches the new shard: its index's
  sequence passes changes the old one had not applied, and they are dropped as
  "already applied" when the feed is read again (`IndexerFeed.cfg` with
  `Overlap = {"page"}`, `MaxMove = 0`);
* a save between a shard's restart and the next turn of the feed passes what is
  to be read again (`Overlap = {"save"}`);
* an epoch that changes while an orphan waits to be built again, or during a build,
  leaves an index with a sequence of the old epoch (`Overlap = {"move"}`,
  `{"epoch"}`), and a shard started again before the first page builds without an
  epoch (`{"early"}`);
* a vault that comes back while `orphan()` waits for the unit at work is marked after
  it has been taken in again: not owned before, it gets no new reason to be built,
  and ends up unchecked, with no index or a stale one (`Overlap = {"orphan"}`);
* after the restart of one shard, `onShardRestart` sends an empty full list to the
  others, whose vaults all become orphans until the next list and are built again
  (with two shards and a vault in each, an index is marked with `moves = 0`).  If another
  epoch comes before one of them is built again, the build for "stale" starts from the
  sequence of the old epoch, which the index then keeps though it lacks changes of the
  new one up to it (`SequenceHonest`, with one vault of one resource, a second shard
  without a vault, 3 changes, 2 epochs, one crash, `MaxMove = 0`);
* the seven overlaps of `FolderText`: `late`, `drop`, `vanish` and `twice` violate
  `RestAgrees`, `unshown` and `note` `NothingUnasked`, `compact` `JournalKeeps`.  For
  `note`: two windows that have read the same `projected.json`
  (`FileSystemVaultSession.ts:997`) write it back one after the other, the first one's
  note is lost, its projection comes last to the file, and the other window reads it as
  an outside edit, which deletes what its user has typed and inserts a second time what
  the first one's has.  And with
  `MaxEvents = 3` an outside edit made on top of two windows' crossing projections
  deletes typed words, and such projections leave an old text in the file;
* a write of the journal that fails gives up the projection or the reading of the file
  that waited for it: the file stays as it was until the next keystroke or outside save,
  though the update is written later; and a document closed on it ends without its
  last words (`RestAgrees` without `fails`);
* a save to the escrow that fails, or finds no user key, is never tried again in its
  session: `escrowedThisSession` has been set before (`EdgesyncVaultSession.ts:286`,
  `:295`; `VaultKeyEscrow.ts:59`, `:66`), so the account of a holder may have nothing in
  escrow (`EscrowFollows` without `unsaved`);
* two `Join`s that cross leave one peer unaware of the other, and a `Join` that
  crosses the last departure enters a room the registry has forgotten
  (`PresenceAgrees` without `crossed`); a key granted after the last retry is never
  put in escrow, nor passed on (`EscrowFollows`, `KeyReaches` without `late`);
* the claim is released when its connection ends, even though others with the key
  remain (`EdgeSyncHub.cs:116`), so a second founder is possible before the room
  empties, which `EdgeSyncHub.cs:67` denies (`OneGenesis` without `released`);
* a snapshot document closed before its join has ended and opened again shares the
  handle that the first one's end then closes: it is deaf and its writes are
  dropped, or, if the connection breaks, never loads (`Overlap = {"reopen"}` in
  `SnapshotRoom.cfg`, against `DocumentRoomClient.ts:94`);
* a snapshot cast while a client joins is missed, or arrives late and undoes a newer
  one (`SeenWritesAgree` without `missed`, `late`); a write on a lost connection is
  dropped in silence, and a reconnected client joins no room again (`settled`,
  `held`).

## Fairness

`IndexChannel!FairSpec`: weak fairness of each connection's dispatcher (the
server keeps working on calls it has accepted), of delivery to a client whose
connection is up, and of reconnecting and rejoining.  The code's
`withAutomaticReconnect` gives up after its retries, so the last holds only where
`RetriesRunOut` is FALSE; the run says so in its configuration.  Nothing is
assumed about edits, breaks or closing.  `DocumentLocks!FairSpec`: the same for
the dispatchers, which include `OnDisconnectedAsync`: SignalR's keep-alive
notices every lost connection; it is the specification of `document_locks`.

## Proofs

What the runs show on small instances is proved here for any clients, connections,
edits, channels, retries and thresholds, from the assumptions on constants that the
modules state (`ASSUME`) and, for index channels and the indexer, from a few more.  Each theorem is
the consequence of an inductive invariant, proved with one lemma per action (or
per kind of action) and `PTL`; TLC has checked each invariant on the module's run
before.

Two assumptions appear in the statements about index channels.  `~OpenDuringRejoin`: no
channel is opened during a reconnection; TLC shows that it is needed (see above).
`~RetriesRunOut`, for a client at rest: else `connect()` joins no channel again, and
a client is at rest outside the group.

One appears in the statements about what the indexer has indexed.  `Apart` leaves out the
six overlaps, each of which TLC shows to lose a change (see above), and asks for one shard
or one epoch: with two of each, an index can get a sequence of the epoch before (see
above too).  Vaults, resources, changes, pages, crashes, restarts and moves are any
number.  `RowsAreDistinct` and `TypeCorrect` assume nothing.

| Module | Theorems | Of which the runs' properties |
|---|---|---|
| `IndexChannelProofs` | `TypeCorrect`, `OneJoinPerConnection`, `CompactionLosesNothing`, `NothingInvented`, `ChannelImplementsStore`, `LossesAreMadeUpFor`, `RestIsSettled` | `TypeOK`, `JournalKeeps`, `ImplementsStore`, `QuietMeansSettled` |
| `DocumentSyncProofs` | `DocumentInvariant`, `TypeCorrect`, `CompactionKeeps`, `SteadyIsSaved`, `SteadyMissesLittle`, `DocumentImplementsStore` | `TypeOK`, `CompactionKeepsKnown`, `SteadySaved`, `SteadyMissesOnlySlipped`, `ImplementsStore` |
| `VaultDirectoryProofs` | `DirectoryInvariant`, `TypeCorrect`, `CompactionKeeps`, `RestIsSavedOrCounted`, `RestMissesLittle` | `TypeOK`, `CompactionKeepsKnown`, `RestMeansSavedOrCounted`, `RestMissesOnlySlipped` |
| `DocumentLocksProofs` | `LocksInvariant`, `TypeCorrect`, `NoLockForgotten`, `WritersHold`, `OneSteadyWriter` | `TypeOK`, `NoForgottenLock`, `SteadyWritersHold` |
| `PushRecoveryProofs` | `RecoveryInvariant`, `TypeCorrect`, `NoEditForgotten`, `FlushIsHonest` | `TypeOK`, `SavedOrCounted`, `FlushKeepsPromiseAlone` |
| `EdgeRoomsProofs` | `EdgeInvariant`, `TypeCorrect`, `KeysAreClaimed`, `KeyReachesAll`, `KeyIsInEscrow`, `PresenceIsRight` | `TypeOK`, `OneGenesis`, `KeyComes`, `EscrowFollows`, `PresenceAgrees` |
| `IndexerFeedProofs` | `RowsAreDistinct`, `TypeCorrect`, `FeedInvariant`, `SequencesAreHonest`, `SavedPositionIsSafe`, `RestIsIndexed` | `TypeOK`, `SequenceHonest`, `SafeButCarried`, `RestMeansIndexed` |

*Index channels.*  `JournalKeeps` is about one step, but that step is safe only because
the snapshot contains the ops it replaces, so `IInv` follows those ops from end to
end: `IdsInv` (ids are below `nextId` and name one op for ever), `JoinInv` (a
connection carries at most one join: its call, its handler, its answer and the
snapshot it leads to exclude each other), `CoverInv` (the answer on its way down,
and then the snapshot on its way up, carry every op of the journal that `covered`
remembers for the connection), and `FreshInv` (no trace of a join on a connection
not yet used, or whose channel is not open).  `CarriedInv` adds that whatever
travels was made by somebody and, towards the clients, is in the journal: with
`JournalKeeps` this makes every step one of `UpdateStore` or a stutter.  `RestInv` says
where the rest of what a client shows, or lacks, is: being pushed, or lost, counted and
to be flushed by the rejoin under way; being told, read by its join, or slipped.

*Journals joined and compacted by force.*  `HubJournalProofs` has the server's half,
once for both clients.  `HubInv` says of each connection: one join (`JoinInv`), what the
answer and the snapshots carry of what the connection has read and said (`KnownInv`, hence
`CompactionKeepsKnown`), what travels is or was stored (`StoredInv`), nothing travels
before the client opens it (`UnusedInv`).  `Hears` says where a client stands between its
join and the group; it is the other half of `ClientInv`, with what the client has said
and still shows.  A lemma says that a step of one connection lets the others hear what
they heard.  That a document implements `UpdateStore` maps `stored` to the journal with
what compaction has cut; `MadeInv` traces what travels to a maker.

*Locks.*  The answer to an acquire and the news of a release cross, so an editor may
show the lock as its own while the registry names another.  `Honest` says that it is
then `Due` to be told: a message, the call in progress, or a later acquire of its own will
put it right.  `Released` and `Dated` say that a closed editor has asked to give back what
it will take, and that no answer is for an opening to come.

*Lost pushes.*  `lostPushes` is one number for all channels: it says that something is
owed, not what.  `FlushInv` says that a flush that is sending leaves out nothing
(`Covers`), or only what was counted after it read the number and so survives its
subtraction; `PairInv` that of two flushes that are sending one leaves out nothing,
until a loss comes beside them (`crossed = "yes"`).

*EdgeSync.*  What a peer believes of another is right only once it has heard all
that is under way: `WillSee` is that belief, `SeeInv` says it is right of every connection
it has not crossed, and `ReadInv` the same of an answer not yet sent.  `AloneInv` is why
crossing is the only exception: a connection nobody has crossed is in the registered
room, which nobody is about to forget.  `ReachInv` gives, for a peer that misses
the key another holds, what will bring it: a retry left, a frame on its way, a
greeting to come.  `GenesisInv` counts keys by the traces they leave, and a trace
without a claim by a release.  `EscrowInv` follows a key
to the escrow: a retry left, a save on its way, saved, or a save that has failed.  Quiet
states have nothing under way, so the invariants become the properties.

*Indexer.*  The three properties say that a change is not lost between the feed, three
positions (the cursor, the position saved, the one being worked out), the pages and
lists under way, the shard's memory and the index; each step moves one of these only.
`IInv` follows one change, the current row of one resource, which is possible because a
sequence belongs to one row (`RowInv`).  A change its index lacks is `Kept`: pending, if
its shard has seen its sequence, and else `ToCome`, beyond the cursor and every position
saved or about to be.  `PageInv` carries that over the step that moves the cursor: what a
page passes it shows.  `DiskInv` is what remains when the peer is killed, `IndexInv`
what a shard knows besides, a unit at work included, `BuildInv` the same of the index a
build is making, which takes the place of the first.  What a vault is to its shard
(`TakenIn`, `ReadsIndex`) must be true of the file, for a vault that is taken in without
being looked at would never be built; `ListInv` is why one that a list has left out is
not taken in again unnoticed: its index is gone, or marked.  `MainBound`, `VaultBound`
and `PageBound` keep a position of an old epoch from being taken for one of the new.

Model-checked only:

* liveness (`EditsGetSaved`, `UpdatesGetShown`, `LostLockFreed`): fairness and `ENABLED`
  are out of the prover's reach;
* `FolderText` and `SnapshotRoom`: no theorem yet.  Their invariants are about rest, and
  need, like `EdgeRooms`, one that says at every step what will still come; those have
  not been worked out.

## Not modelled

Signatures, encryption and access checks on calls (a refused call changes
nothing, and is modelled where the client reacts to it, in `PushRecovery`);
awareness and presence; what an edit says; failed joins of a connection that
holds; message size limits; a vault that leaves the indexer peer and comes back
between two readings of its list; documents the index skips because it cannot
read them; the tree of a folder (renames, moves, deletions), its attachments and index
channels; the keys of an EdgeSync vault's documents and channels, the renewal of
its key, WebRTC negotiation; a load of a text given up on a failed write, and failures of
the other writes to the disk.  Components listed as not modelled in PROJECT.json
have their reasons there.

## Plan

1. Proofs: `SnapshotRoom` (`MembersMatch`, `NothingHangs`, `SeenWritesAgree`),
   `FolderText` (`JournalKeeps`, `NothingUnasked`).
2. `IndexerStore`: rebuilds for changed property types, eviction, the steps of
   `deleteVault()`; failed joins in `IndexChannel`.
3. `VaultAccess` (grants and membership against groups already entered), `GracePool`.

New runs replace, where needed, the ones whose question they subsume.
