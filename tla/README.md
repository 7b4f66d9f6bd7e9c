# syncx in TLA+

syncx keeps shared folders identical on several devices of a local network,
peer to peer, without a server. This directory holds TLA+ modules that model its
synchronisation, the TLC configurations that check them on small instances, and
theorems about them that TLAPS checks for every value of the constants.

The reference is the TypeScript implementation, `src/src/*.ts`. Paths below are
relative to the repository's `src/`: `peer.ts` is `src/peer.ts` there. The Rust
port (`rust/crates`) and the MoonBit port (`moonbit`) implement the same protocol
and are not modelled separately.

* [The system](#the-system): components, state, operations, hazards
* [The modules](#the-modules) and how they correspond to the code
* [The runs](#the-runs): what each shows, bounds, fairness
* [The proofs](#the-proofs)
* [Where code and documentation part](#where-code-and-documentation-part)
* [What is not modelled](#what-is-not-modelled)
* [The plan](#the-plan)

## The system

A device runs one daemon, a single Node process: everything below shares one
event loop, and two pieces of code interleave only where one of them awaits. The
concurrency that matters is therefore between devices, between the daemon and
the users' programs that write the same files, and between awaits.

### Version vectors and planning (`version.ts`, `index.ts`, `plan.ts`)

*State*: an index entry per path: version vector (a counter per device), deleted
flag, block list, size, modification time. *Operations*: compare, increment,
merge; `compareFileState`; `buildPlan` (full index) and `buildDeltaPlan` (only the
paths a delta mentions) choose send, receive, delete, conflict or nothing for each
path. *Used by* the peer pipeline and the scanner. *Hard*: only versions are
compared, so one version with two contents is invisible for ever ("drift",
ADR-0022); planning a delta over the union of paths makes two peers echo each
other. *Correct when* versions identify contents, merges dominate both sides, and
the two ends of an exchange plan in step.

### Peer pipeline (`peer.ts`, `messages.ts`, `relay.ts`, `broadcast.ts`)

*State*: per connection and path, the receive under way (`pending`: a plain one or
a conflict); per folder, the receive ledger that grants one connection at a time
the claim to a version; requests with their timers. *Operations*: `onPeerIndex`
(plan, open or supersede receives, apply deletions, resolve conflicts under the
folder's policy, drop receives a full index no longer names, relay, answer),
`requestBlock` with retries, `handleBlockRequest`, `onBlockResponse`,
`completeIfReady` (land), `abortPending`/`dropIfUnservable`. *Interacts* with the
executor (landing), with the sessions (transport) and, through relay, with the
folder's other connections. *Hard*: a receive is planned against one local version
and lands against another; announcements overtake receives; both ends resolve one
conflict at the same time; changes come back through rings; a peer may no longer
have what it announced. *Correct when* nothing is destroyed, no entry is replaced
by one that knows less, a version is fetched once, the exchange dies out, and all
devices end up with the same folder.

### Executor, conflict copies, trash (`executor.ts`, `conflicts.ts`, `trash.ts`)

*State*: the files, the conflict copies beside them, versions and trash under
`~/.syncx`. *Operations*: `applySend` (hash and index a local file),
`applyDelete`, `applyConflict`, `applyConflictKeepLocal`, `finalizeReceive`,
`snapshotVersion`, `moveToTrash`, `preserveLocalAsConflict`. *Hard*: several file
operations and an index write that can fail between any two. *Correct when* what a
sync step removes from a path is kept somewhere and the index describes the disk.

### Resumable receive (`executor.ts` `beginReceive`, `partial-store.ts`)

*State*: `<target>.syncx-tmp` with blocks at their final offsets,
`<target>.syncx-partial` (entry fingerprint and bitmap), an open descriptor.
*Operations*: begin (resume by re-reading every claimed block), append (with a
flush and a manifest every `PARTIAL_COMMIT_SLOTS` blocks), finalize (compare the
whole, archive the old file, rename, drop the manifest, save the entry), abort,
discard. *Hard*: crashes of process or machine between any two steps, torn
manifests, failing renames, two connections receiving into the same tmp. *Correct
when* only whole contents land, the bitmap tells the truth, and a crash costs at
most one commit group.

### Scanner (`scanner.ts`, `session-manager.ts` `scanOnce`)

*State*: the walk (directories to list, files seen) while it yields. *Operations*:
`scanFolderAsync` (unchanged by size and time; else compared by hash; a new time on
the same content is saved), `computeTombstones`, then the diff is applied and
broadcast. *Hard*: users and landings work on the same files during the walk.
*Correct when* a skipped file has not changed, only missing files become
tombstones, and every change is indexed in the end.

### What triggers scans (`fs-watcher.ts`, `session-manager.ts` `runScan`, `cli.ts`)

*State*: a watcher and a rebuild timer per folder, failures in a row, the window
of dirty folders, degraded or not; the scan under way and the requests queued
behind it. *Operations*: `syncFolders`, `markDirty`, `flushDirty`,
`handleWatchError`, `scheduleRebuild`, `degrade`; `runScan` merges requests; the
fallback timer; pause and resume. *Hard*: watchers die silently, folders are
unmounted and return, requests arrive during rounds. *Correct when* no request is
forgotten, every change is scanned in the end, and a platform that cannot watch is
given up.

### Sessions (`session-manager.ts`, `broadcast.ts`, `net/client.ts`, `net/server.ts`, `handshake.ts`, `net/offer-retry.ts`)

*State*: `activeSessions` in the order they started; per device one bookmarked
session for control messages (`peerSessions`), a known address
(`outboundPeerUrls`), a reconnect timer; per session and folder a `SyncPeer` and a
transport, of which the folder registers one peer per device (`folder.peers`).
*Operations*: accept, dial, close, heartbeat, `scheduleReconnect`,
`forgetAndCloseSessions`, attach and detach folders, broadcast (one transport per
device); offers with retries. *Hard*: both sides dial at once, so that sessions
overlap and close in any order; a dead session looks alive until the heartbeat; a
timer is overwritten in its map and fires all the same. *Correct when* a live
session is always bookmarked, a known peer is met again after every loss, the
folder's channels are those of the live sessions, and changes announced arrive.

### Wire protocol (`net/wire.ts`, `identity.ts`)

*State*: the outbox, chunks of long index messages still to send and those being
put together, send window. *Hard*: chunks that newer frames overtake or that a
disconnection cuts, back-pressure. *Correct when* an index arrives whole or not at
all, and what overtakes it does no harm.

### Initial exchange (`index-fingerprint.ts`, `peer.ts`, `session-manager.ts`)

*State*: per attached folder whether the exchange is settled, its fallback timer;
per device the last full index sent and when. *Operations*: on attach a fingerprint
is sent; the peer acknowledges an equal one and requests the full index otherwise; a
fallback timer sends it when nobody answers, unless the gate knows it has just been
sent. *Hard*: the two sides attach at different times and drop what comes before;
the timer races late answers; an incoming fingerprint settles the own exchange.
*Correct when* skipping the full index never leaves a difference behind.

### Disk guard (`peer.ts`, `session-manager.ts`)

*State*: whether the folder lacks room; per `SyncPeer` the one index that was held
back. *Operations*: `onPeerIndex` puts receives off and keeps the index; the next
scan, or the next index that fits, finds room and replays what the registered peer
keeps. *Hard*: one kept index per peer, several sessions. *Correct when* what was
held back is received once there is room.

### Self-update (`selfupdate.ts`, `cli.ts`, `daemon.ts`)

*State*: the installed package, its backup and the copy of the new one as
directories; the daemon's process; the result file. *Operations*: the daemon
dispatches a detached updater and exits; the updater waits, copies, swaps two
directories by renames, starts the new daemon, watches it for a moment, and rolls
back. *Hard*: a crash or a failing call between any two steps. *Correct when* a
whole package is never lost, the result file tells the truth, and a daemon runs
afterwards.

### Pausing, schedule, power guard (`schedule.ts`, `holidays.ts`, `powerguard.ts`, `session-manager.ts`)

*State*: user pauses, schedule windows, power state, and their combination.
*Hard*: transitions that overlap; a resume must scan what was missed.

### Git integration (`git-monitor.ts`)

Watches repositories, detects commits, queues notifications across restarts
(baselines are persisted). *Hard*: a commit while the daemon is down or the queue
full.

### Around them

Index store and block store (`indexstore.ts`, `blockstore.ts`); configuration,
ignore rules, folder identity, invitations (`config.ts`, `ignore.ts`,
`folder-identity.ts`, `share.ts`, `invite.ts`, `offers.ts`); drift audit
(`drift.ts`); rollback and history; end-to-end encryption (`e2e.ts`); the swap of
the backend binary (`backend-swap.ts`); HTTP API and
status hub (`api/`, `status.ts`, `status-hub.ts`); discovery (`net/discovery.ts`,
`devices.ts`); web interface. `PROJECT.json` lists each with its status, and the
hazards at their lines.

## The modules

| Module | Models | State | Actions |
|---|---|---|---|
| `VersionVector` | `version.ts`, `plan.ts`, `compareFileState` | – | operators only |
| `FolderSync` | one folder on several devices | `file` (disk, index entry, copies, archive), `pend`, `claim`, `chan`, `up` | `Write`, `Unlink`, `scanOnce`, `Connect`, `Disconnect`, `onPeerIndex`, `handleBlockRequest`, `onBlockResponse`, `retryBlock`, `dropIfUnservable`, `expireClaim` |
| `FolderScan` | the walk of one scan | `disk`, `index`, `kept`, the walk's variables | `readdir`, `Visit`, `EndStat`, `computeTombstones`, `applyTombstone`, `hashFileViews`, `applySend`, …; landings; users |
| `ScanTrigger` | watchers, dirty window, scan queue | `hub`, `runner`, `there`, `paused`, `stale` | `markDirty`, `flushDirty`, `handleWatchError`, `rebuildTimer`, `Unmount`, `Remount`, `Break`, `Pause`, `Resume`, `scanTimer`, `ScanFolder`, `EndRound`, … |
| `ReceiveStore` | the durable receive of one file | `target`, `tmp`, `data`, `durable`, `manifest`, `handle`, `landing` | `beginReceive`, `append`, `finalize`, `rename`, `renameFails`, `saveEntry`, `abort`, `Crash`, `scan` |
| `Replication` | what is promised of one path that one device edits | `copy`, `afloat` | `Publish`, `Adopt`, `Forget` |
| `FolderSyncReplication` | the refinement mapping of `FolderSync` to it | – | – |
| `IndexExchange` | the initial exchange of two devices, chunked indexes | `known`, `paused`, `up`, `channel`, `wire`, `bulk`, `assembly`, `sent` | `Connect`, `Disconnect`, `Attach`, `Pause`, `Resume`, `Edit`, `SendChunk`, `onIndexFingerprint`, `onIndexAck`, `onIndexRequest`, `Fallback`, `onPeerIndex`, `acceptIndexChunk`, `Drop`, `Land`, `GiveUp` |
| `PeerSessions` | the sessions with one peer and a folder's channels on them | `socket`, `channel`, `bookmark`, `registered`, `url`, `retry`, `paused`, `edits`, `mail`, `heard` | `Meet`, `Dial`, `DialSucceeds`, `DialFails`, `Vanish`, `heartbeat`, `Cut`, `forgetAndCloseSessions`, `onClose`, `Pause`, `Resume`, `Exchange`, `Edit`, `Arrive` |
| `DiskGuard` | the disk guard over those sessions | `theirs`, `got`, `space`, `diskBlocked`, `diskBlockedRetry` | `Announce`, `scanOnce`, `Fill`, `Free`, and the actions of `PeerSessions` with what they do to the guard |
| `SelfUpdate` | the updater | `dir`, `daemon`, `leaving`, `pc`, `old`, `child`, `result` | `runSelfUpdate`, `shutdown`, `Wait`, `Copy`, `Remove`, `Rename`, `Spawn`, `Watch`, `Restart`, `Report`, `Fail`, `Crash`, `StartByHand` |
| `MC…` | values of constants for TLC | | |
| `…Proofs` | theorems about the module | | |

How they fit: `FolderSync` EXTENDS `VersionVector` and takes a whole scan, a whole
landing and a whole exchange of indexes as one step each. Four modules look inside
those steps: `FolderScan` at the scan, `ReceiveStore` at the receive and the
landing, `ScanTrigger` at what makes scans happen at all (which `FolderSync` takes
as weak fairness of `scanOnce`), `IndexExchange` at what a new session sends.
`PeerSessions` takes the exchange as one step and looks at where sessions come from;
`DiskGuard` EXTENDS it and composes it with the guard, whose kept indexes live and
die with the sessions. `FolderSyncReplication` EXTENDS `FolderSync` and maps each
path to an instance of `Replication`. `SelfUpdate` stands by itself.

**FolderSync.** `onPeerIndex(d, e)` is the whole handler: the plan, for each path
the outcome (`Outcome` dispatches to `Send`, `Delete`, `Conflict`, `Open`), the
receives a full index drops (`DropStale`), the requests, the entries sent back and
the relay to the siblings, in the order of the code. `Conflict` follows
`peer.ts:1339-1452`: receive-only devices and relayed conflicts without a genuine
local edit are plain receives; equal contents merge; then the policy decides.
Contents are numbers that stand for hashes; `Mtime` gives each the modification time
that newest-wins compares, and two contents may have the same one, which
`peer.ts:1400-1409` leaves to keep-both. Content 0 is the empty file, which needs no
block. A tombstone lists no block, as in the code. `Disconnect` loses every message on
the link.

`retryBlock` and `dropIfUnservable` are the block timer (`peer.ts:740-760`) without its
clock: whatever the peer holds or is still receiving, a receive about which nothing is in
flight may ask again or give up. What is left of the time is one assumption: on a link
that is up, a request or an answer does not stay under way until all retries are spent.
`expireClaim` is `RECEIVE_CLAIM_TTL_MS` (`peer.ts:682`): on a device in `Slow` a claim may
go at any time while its receive goes on, so that a second connection is granted the same
version (`peer.ts:1469-1471`). Only a device with several connections can tell, so `Slow`
is empty on a pair. `expired` and `givenUp` remember where either has happened; no action
reads them.

**FolderScan.** The walk lists a directory, visits a file, awaits its stat and
goes on; users and landings act between any two of these. The entry read before
the stat is what is compared and, if only the time changed, written back after it,
as in the code. A scan that applies its diff keeps landings out but not users, so
hashing a file and taking its time are two steps.

**ScanTrigger.** `hub` is `FolderWatchHub`; its operators are the class's methods
on that record. `runner` is the closure of `runScan`: `queuedDirty = All` is the
`undefined` that means "every folder" and also "nothing queued". `owed` is history:
which scans have been asked for and not been made. Attempts to make a watch fail for a
folder that is not in `Watchable` or not there (`createOne`). A watch that was made fails
by `Unmount`, with its folder, or by `Break`, while its folder stays: for the folders in
`Flaky`, the platforms of `fs-watcher.ts:95-98`.

**ReceiveStore.** Files are inodes, so a descriptor survives a rename. `data` is
what readers see, `durable` what a machine crash leaves; a crash keeps the old or
the new content of every unflushed block and may tear the manifest. `finalize` is
the code's three steps with crashes in between.

**Replication.** The author stamps its changes; any other replica may only move on
to a copy that is still afloat (in an index, a receive under way or a message) and
newer than its own. The mapping takes the author's counter in the version vector for
the stamp and "deleted, content" for the value. That a landing takes the entry of the
receive, that a scan on the other device announces nothing of its own, and that a
dropped receive loses nothing but time is what the refinement shows. `OneAuthor`
says where it holds: one device edits, and `Upstream` gives every other device the one
from which it gets the folder, so that the links form a pair, a chain, a star or a tree.
On a ring it fails, as a receive planned over one link may land over what came by
another.

**IndexExchange.** An index is a set of updates, each a new version of a path that
one device edits, so that merging is union and a fingerprint is the set itself.
Handlers settle, answer and plan as in the code; `owed` are the receives opened and
not landed, and a full index drops those it does not list (`peer.ts:1472`). An index
in `Large` leaves in two chunks that wait for room while other frames overtake them
(`bulkActive`). A frame for a folder that is not attached is dropped. `CalmTransfers`
keeps edits out of the time a chunked index is on its way; what happens otherwise is
under [divergences](#where-code-and-documentation-part).

**PeerSessions, DiskGuard.** A session's number is the order it started in, which is
the order of `activeSessions` and of `folder.transports`. A socket that is "lost" is
dead and still OPEN; one that is "closing" has yet to deliver its close event. `retry`
counts the timers that the map forgot (`strays`) beside the one it holds.
`astray` and `stranded` are histories of what the code knowingly or unknowingly
loses; the liveness properties except exactly these.

**SelfUpdate.** A directory is a whole package, a torn one or absent; removing and
copying take two steps. The tables `After` and `OnFailure` are the order of the
updater's `try` block and its `catch`. `Faults` says at which steps a call may fail, the
spawn and the writing of the result among them. A result that cannot be written in the
`catch` either is like a crash at that point.

Definitions whose comment begins "Mutant of" are plausible bugs of the definition
below them. They are never used by the specification: each shows that a property
can fail (`PROJECT.json`, `mutants`).

## The runs

Passing runs:

| Run | Instance | Shows |
|---|---|---|
| `pair` | 2 devices, 1 path; d1 writes and deletes (contents to 4) and may start with a file; 2 connections | versions identify contents, no entry goes back, convergence, every path implements `Replication` |
| `two_writers` | 2 devices, 2 paths, both write (contents to 4, of which two have one time); d1 newest-wins, d2 keep-both; 1 connection | no content destroyed by conflicts on either side, index stays honest, no endless echo |
| `mirror` | d2 receive-only, both write and delete (contents to 4); 1 session | the mirror follows whatever is edited on it |
| `ring` | 3 devices, 3 links that come one by one, d1 writes, claims expire at d3 | a change reached over two links is fetched once unless its claim expired, the relay dies out, all converge unless a receive is given up |
| `scan_walk` | 2 paths in 2 directories, 3 user or landing events | unchanged times hide no change, only missing files are deleted, versions never go back, only edits count, nothing destroyed, the index catches up |
| `scan_trigger` | 3 folders, one of them unwatchable and one whose watch breaks again and again, 2 changes, pauses or unmounts | folder requests are not forgotten, changes are scanned, a watch that cannot be made is given up, one that breaks is not |
| `store_one` | 1 connection, 3 blocks, 3 contents that share blocks, groups of 2, 2 announcements, 2 faults | whole contents land, bitmap truth, versions kept, the last content lands |
| `exchange` | 2 devices with an update each, an index of both in two chunks, 2 sessions, 1 pause | whatever one side lacks is on its way while both are attached, both end up with the same index and fall silent |
| `sessions` | 3 sessions that may overlap, 1 pause, 1 local edit, 2 updates of the peer (one a deletion), 1 full disk | session tables consistent, the peer is met again, edits and what was held back arrive |
| `self_update` | 3 updates, one of them bad, 2 failing calls, 2 crashes, 2 starts by hand | a whole package is kept, the result is true, a daemon comes back |

**Why the bounds are enough.** The clock starts at 1, so `MaxContent = 4` is three
edits, which allow one before a link, one while a receive is under way, and one that
supersedes it. In `two_writers` three edits over two devices and two paths give a conflict
on one path while the other is in flight, or a conflict and an edit on top of it; contents
2 and 3 have one modification time and content 4 a later one, so that newest-wins meets
a tie, a win and a loss against a peer that keeps both. Its one connection is what
five minutes allow: with a reconnection on top three edits take too long. `MaxConnects = 2` in `pair` gives one disconnection with
messages and receives in flight and a full exchange on top of partial state; in the
ring it is one connection per link. Claims expire at d3 only, which receives everything
over two links. `mirror` has one session and no edits before it, because the second
session pushes what the mirror's user did (`mirror_pushes`). Two paths are what distinguishes a delta from
the union of paths, and a directory listed already from one still to list. Three
blocks with groups of two give a committed group, an uncommitted block and the
short last group. Three failures are `MAX_CONSECUTIVE_CREATION_FAILURES` itself, not
a bound. In `exchange`, two sessions allow an exchange to be cut at any point and
begun again with different indexes, an update on each side is the least that makes
both directions differ, and two chunks are the least that can be cut. Three
sessions allow two that overlap, both to die, and a third; the last session stays,
as without it nothing could arrive. In `self_update` the bad package, a good one
before and one after it, and two crashes give an update on top of what a crash of the
previous one left. Bounds are guards of the users' and the network's actions only; no bound
stops the program. `CHECK_DEADLOCK FALSE` appears where users may stop and
everything has been handled.

Each bound that excludes a behaviour known to fail is named under
[divergences](#where-code-and-documentation-part): the runs are not evidence
beyond their instance.

**Fairness.** All of it is weak but for two conditions.
`FolderSync`: each device's event loop handles its sockets, its scan timer fires
(`cli.ts`, `armScanTimer`), and a lost link is dialled again (`net/client.ts`). Block
timers are counted (`MAX_BLOCK_RETRIES_TOTAL`), so a receive that again and again gets no
answer is given up although each repetition puts that off: strong fairness of
`dropIfUnservable`. Nothing makes a repetition happen, and no claim has to expire. Users
and disconnections are not fair. `FolderScan`: the daemon
scans again and again. `ScanTrigger`: rounds end, the window closes, delivered
events are handled, timers fire; `Remount` is fair (folders come back), watches need not
break, pauses need not end, so `ChangesScanned` speaks of folders that are there and not paused.
`ReceiveStore`: the receive goes on after each of finitely many faults; a crashed
daemon is started again. `IndexExchange`: event loops handle sockets and timers, a
lost session is dialled again; users and pauses are not fair. `DiskGuard`: timers,
heartbeat, close events and scans go on, and of the dials that are tried again and
again some succeed (strong fairness; dials fail for as long as the peer is
away). `SelfUpdate`: an updater that is not killed goes on, a daemon that has
answered exits; nobody has to start a daemon by hand.

Two runs expect a violation, `scan_landed` and `mirror_pushes`: each states what a comment
says and the code does not do (see below).

## The proofs

Everything is proved for every value of the constants that satisfies the named
`ASSUME`s of the module: any number of devices, paths, folders, blocks,
connections, any policies, any bounds.

**`FolderSyncProofs`.** About the operators alone: `IncrementIsNewer`, `MergeIsLeast`
and `PlansMatch`, for version vectors over any set of devices. About every behaviour:

* `TypeCorrect` (`TypeOK`) and `NothingDestroyed` (`SyncNeverDestroys`). `TypeOK` is
  not inductive: landing a conflict merges with the version of the local entry, which
  `MaybeEntry` would allow to be missing. `Inv` adds `ConflictsIndexed`, that a conflict
  is only ever received for a path with an entry; it is preserved because no step removes
  an entry. The type half includes that a link that is down carries no message and no
  receive. `NothingDestroyed` then goes action by action: each file effect
  (`applyDelete`, `finalizeReceive`, `applyConflict`) keeps the content it removes.
* `OneAuthorReplicates` (`ImplementsReplication`): under `OneAuthor`, for any tree of
  devices, any number of paths, edits and reconnections and any policy, each path is a
  register that only the author changes. From the same invariant follow
  `OneAuthorIdentifies` (`VersionIdentifiesContent`), `OneAuthorNeverBack`
  (`IndexNeverGoesBack`), `OneAuthorStaysHonest` (`IndexStaysHonest`) and `OneAuthorBuries`
  (`TombstoneLeavesNoFile`, which no run repeats).
* `UndeletedStaysHonest` (`IndexStaysHonest`): with any number of authors, links and
  policies, as long as nobody deletes, which is the instance `two_writers` checks. The
  invariant is that no index, receive, message or retry holds a tombstone. With deletions
  the property fails, for the reason given under
  [divergences](#where-code-and-documentation-part) (`peer.ts:1441`).
* `ClaimsAreServed`: the half of `SingleFlight` that holds without any assumption. A
  claim in the ledger always belongs to a receive under way of that very version, so that
  a connection is refused only while another one is receiving what it offers. It goes
  outcome by outcome (`Accounted`): each way an index message can end says who holds the
  claim afterwards.
* `OneEditSingleFlight` (`SingleFlight`): under `OneEdit`, one user who writes one file of
  a new folder once, which is the instance `ring` checks. Claims may expire anywhere: the
  theorem says that where none has, the version is received over one connection only. With
  two versions under way the other half fails, see the divergences. The invariant
  (`FlightInv`) is that all there is of the path is one file with one entry (`OneFile`) and
  that who receives it lacks it and, unless its claim has expired, holds the claim
  (`FlightClaimed`).
* `OneAuthorSingleFlight` (`SingleFlight`): with one author a device receives from its
  upstream alone, so that both halves hold, for any tree, edits, deletions and expiries.
* `OneAuthorAtRest`: the safety half of `Converges`, with one author that pushes. A device
  linked to the author has the author's entry and the author's file whenever they are
  connected and nothing of the path is under way between them (`AtRest`: no message from
  the author, no receive, nothing to scan). No stalled or refused receive, late answer,
  lost connection or overtaken index leaves such a device behind for good. The invariant
  (`FollowInv`) says of each such device that the author's channel names its entries in
  the order of the changes, none of them older than the receive under way, with a full
  index in front only (`InOrder`), and that the author's entry is at the device, being
  received, in the channel, or about to be replaced by the next scan (`Coming`). A step
  adds to the channel, takes the first message or begins a new session (`Adds`, `Takes`,
  `Begins`). A receive may be given up whenever nothing about it is in flight, so what is
  needed besides is that this leaves nothing behind (`AskedInv`): a receive from the author
  has been asked for, or the answer is on its way, or the author's disk has changed since
  and its next scan announces something newer (`Asked`). TLC checked these on a pair, a
  star and a chain of three devices. That the
  system does come to rest is the liveness half, which stays with TLC.

Three of these rest on one lemma, `Sourced`: entries are made by scans and merges only.
Whatever a step starts to receive was known somewhere, and whatever it announces was
known or is the announcer's own entry. An invariant about all entries anywhere then
only has to be shown of the entries a step puts into an index.

The invariant behind the theorems about one author, `AuthorInv`, speaks of every
entry anywhere, in an index, a receive or a message. Each bears changes of the author
only and none is ahead of the author's own (`AuthorFirst`); a stamp or a content names
one entry (`Identified`). Devices without a user hold what their index says, so that their
scans announce nothing (`CopiesHonest`), and an edit of the author that is not scanned
yet is nowhere else (`EditFresh`). A device receives only from upstream, and only what is
newer than its entry (`ReceivesNewer`). Upstream is ahead of the device, of all the
device says, of each tombstone sent to it and of each content served to it
(`UpstreamLeads`): this is where the links have to form a tree. Together they make
conflicts impossible, as any two versions are comparable, and each landing an advance.
The proof composes each handler from its parts as the code does: the plan of one path,
what it does to all paths, the receives dropped, the answers and the relay. TLC checked
the invariant on the pair and on a chain of three devices.

**`FolderScanProofs`.** All five safety properties of `scan_walk`: `UnchangedIsSame`
(`UnchangedMeansSame`), `IndexedStay` (`IndexedFilesStay`), `IndexKeepsUp`
(`IndexNeverGoesBack`), `EditsAlone` (`OnlyEditsCount`) and `NothingDestroyed`
(`ScanNeverDestroys`), for any paths, directories, clocks and interleavings of the walk
with users and landings. None is inductive: what a step writes was read one or several
yields before. `ScanInv` therefore speaks of the copies the walk carries: of the entry and
the time between a stat and its end, of the entries found changed, of the tombstones
computed and of the file hashed but not yet indexed, each either still what the disk or
the index says, or its path among those that `landed` or `torn` exempt. Times of writes
only grow, which is what makes equal times mean equal files.

**`ReceiveStoreProofs`.** With any number of connections: `TypeCorrect` and
`VersionsKept`. Assuming `OneConnection`: `OneReceiverBitmap` and
`OneReceiverWhole`. Neither property is inductive. The inductive invariant
`StoreInv` says that the landed file is whole, durable and another inode than the
tmp (`Separate`, `TargetSafe`); that a tmp which is what a manifest with every block
claims has been flushed (`ManifestFlushed`); that what is being landed has been
flushed (`LandingOK`); and of a handle that it writes to the tmp, that it has flushed
once its bitmap is full, and two facts about resuming that are easy to miss: beside
a full manifest of the same content its bitmap lacks only blocks that are wrong
(`ResumesAll`), and beside one of another content it began with an empty file
(`Overwrites`). Without these two, a tmp that a receive is overwriting could come to
match an old full manifest without having been flushed, and a machine crash after
the landing would tear the user's file. The assumption is needed, as the
divergences below show.

**`ScanTriggerProofs`.** `TypeCorrect`, `RequestsKept` (`DirtyNotForgotten`),
`ErrorsDoNotAddUp` (`ErrorsNeverAddUp`) and `QuietWhenDegraded` (`DegradedIsQuiet`, which
no run repeats). That the failures of a folder stay within
the limit is not inductive by itself: `HubOK` adds that a hub not yet degraded is
below the limit for every folder, and is shown to be kept by each method of the hub
in turn (`DegradeOK` … `SyncedOK`), so that the actions, which chain several of
them, need only cite these lemmas. `Covered` says where a scan that is owed will come
from: the round under way or the folders queued.

**`IndexExchangeProofs`.** `TypeCorrect`, and `ExchangeForgetsNothing`
(`NothingForgotten`) under the assumption `Large = {}`, that indexes fit into one
frame: with chunks a property of the assembly would have to be added, and TLC checks
those. The strengthening `IInv` says of every frame that it lists only what its sender
has (`Truthful`), that later fingerprints and full indexes of one sender list no less
than earlier ones (`Grown`), and of what is owed that the peer has it and that every
full index on its way lists it (`OwedInv`): without this a full index could drop a
receive that nothing brings again, which is exactly what chunks make possible.

**`DiskGuardProofs`.** `GuardTypeCorrect` and `SessionsStayConsistent`
(`SessionsConsistent`), for any number of overlapping sessions. The invariant adds
that a session that has not started or is closed has no channel and no mail
(`IdleDetached`). Every action of `DiskGuard` is one of `PeerSessions` or leaves its
variables alone (`GuardedIsSession`), so the invariant is proved there once and
carried over.

**`SelfUpdateProofs`.** `PackageIsKept` (`PackageKept`) and `ReportsAreTrue`
(`ReportsTruth`), assuming that updates do not overlap and that no call fails once an
update is confirmed, neither the removal of the backup nor the report; both are needed
(see below). `Inv` says at which step which of the
three directories holds a whole package, for the one updater at work; between the two
renames it is the backup that does. `ReportInv` adds which package is where, that an
updater past its wait works while no daemon is leaving, and that the daemon it has seen
alive is still the one that runs when it removes the backup and reports.

**`ReplicationProofs`.** `CopiesAgree` (two replicas with one stamp hold one value,
the author's is the newest) and `NeverBack`: what `FolderSync` with a single author
inherits by `OneAuthorReplicates`.

**Only model-checked.** Every liveness property: fairness and `ENABLED` are out of the
prover's reach (of `Converges`, `OneAuthorAtRest` proves what there is to prove without
them). Every safety property of a passing run has a theorem; where the property
needs an assumption to hold at all, the theorem names it (`OneAuthor`, nothing deleted,
`OneEdit`, `OneConnection`, updates that do not overlap) and the divergences
show what happens without it. One theorem assumes more than its run: `NothingForgotten`
is proved for indexes that fit into one frame and model-checked for chunked ones too.
Induction over data structures is also out of reach, so no module uses `RECURSIVE`.

## Where code and documentation part

Each was found by TLC as a counterexample. The first two are runs of their own; for the
others the instance is named that shows it (a property that no run lists is defined in
its module all the same).

* `scan_landed`: a file that lands, during a walk, in a directory already listed is
  in the index and not among the paths seen; the scan takes it for deleted, moves it
  to the trash and announces a tombstone (`scanner.ts:361`; the comment at
  `scanner.ts:262-265` claims the race is harmless).
* `mirror_pushes`: a receive-only device pushes nothing of its own (`peer.ts:1458`), yet
  the index it sends when a session starts is not filtered (`peer.ts:519`). What its user
  edited while the link was down, or scanned before the link is lost and dialled again,
  is in it, and the other side takes it.
* The limit of failures in a row is there for the platforms whose errors come through the
  error event (`fs-watcher.ts:95-98`: "那里的错误走 error 事件"). On these a watch is
  made first and fails then, and `createOne` (305) as well as `closeOne` (402) set the
  count back to 0 at each round: no more than one failure is ever counted, the platform is
  never given up, and the folder is watched, lost and watched again for ever.
  `ErrorsNeverAddUp` states this of the code (`scan_trigger` with `Watchable = {f1, f2,
  f3}`: a lasso of `Break` and `rebuildTimer`). Each loss asks for a full scan. So,
  with every folder watchable and one of them flaky, `ChangesScanned` fails as well, by
  the next entry but one: the full requests are replaced by narrow ones again and again.
* An edit on one device meets a deletion on another as a conflict (`peer.ts:1441`).
  The tombstone has no block, so its "receive" completes at once and an **empty file**
  is put at the path of a deleted entry. `CONTEXT.md:40` says a tombstone prevents
  resurrection. (`FolderSync`, two devices, `Writer = {d1, d2}`, `Deleter = {d2}`,
  `Existing = {d1}`, `MaxContent = 3`: `TombstoneLeavesNoFile`.)
* A full scan requested during a round is replaced by a later narrow request of the
  same round (`session-manager.ts:1604`; the comment above it says requests degrade to
  a full scan). (`scan_trigger` with two folders: `NoneForgotten`.)
* Two connections receive two contents of a file into the same tmp; one lands it while
  the other's descriptor goes on writing into what is now the user's file
  (`executor.ts:450`; `partial-store.ts:17-18`: "宁可重传,不可错接"). (`store_one`
  with `Connection = {h1, h2}`, four inodes, `MaxFaults = 0`: `LandedIsWhole`.)
* While a chunked full index is being sent, other frames overtake it
  (`net/wire.ts:424`). The full index is then older than a delta that arrived before
  it, and `peer.ts:1472-1480` drops the receive the delta opened; or an index that fits
  into one frame makes `acceptIndexChunk` discard the half-assembled one
  (`net/wire.ts:632`), whose later chunks never complete. Nothing repairs either until
  the next session, although `session-manager.ts:2980` has every way of the exchange
  equivalent to sending the full index. (`exchange` with `CalmTransfers = FALSE`,
  `Update = {u2, u3, u4}`, `MaxConnects = 1`, `MaxPauses = 0`: `Converges`.)
* A change is announced on the first session with a peer only (`broadcast.ts:26`). If
  that one is dead and not yet found dead while another is in use, nothing repeats the
  announcement (`sessions` with `EditsArrive` without `astray`).
* After the newer of two sessions closes, the older one that lives on is not in
  `folder.peers` any more (`session-manager.ts:4136-4141`), so replay, priorities and
  on-demand downloads miss it; and the one index a peer keeps for a full disk is lost
  when another takes its place or a deletion clears it (`peer.ts:1241-1244`).
  (`sessions` with `HeldBackArrives` without `stranded`.)
* When removing the backup, or writing the result, fails after the new daemon was seen
  alive, the updater's `catch`, written for a daemon that does not live, removes the good package and puts
  what is left of the backup in its place (`selfupdate.ts:460-468`; the repository's
  `README.md:663-665`: first verified, then swapped, and what is swapped can be undone).
  (`self_update` with `Faults <- AnyCall`: `PackageKept`, `ReportsTruth`.)
* `MAX_BLOCK_RETRIES_TOTAL` gives a receive up, and the comment (`peer.ts:717-719`)
  argues that this is safe: "放弃是安全的,自愈路径有三". In a ring none of the three need
  come: a device asked for a block it has announced by relay and is still receiving itself
  does not answer, and an offer that the ledger refused is not planned again when the
  holder of the claim gives up. All links stay up, nothing is announced any more and the
  device keeps the old content until it is restarted or something changes. (`ring` with
  `Converges`; `ConvergesUnlessGivenUp` is what remains.)
* Nothing keeps two updates apart, which share the backup and staging directories, nor
  a start by hand from an update at work (`self_update` with `Meddling = TRUE`: all
  three properties).
* When the copy or the first rename fails, or the old process is late, the old package
  is untouched but no daemon is started (`selfupdate.ts:465`; `backend-swap.ts` restarts
  in the same case). (`self_update` with `ComesBack` without `faults = 0`.)

Met as counterexamples while the instances were chosen. The passing runs stay
outside them; each can be had by the change in brackets.

* Two devices that both edit under keep-both each take the other's content and the
  merged version: one version, two contents (`two_writers` with
  `VersionIdentifiesContent`, also with `Policy <- KeepBoth`). Likewise under local-wins
  on both sides.
* After a newest-wins landing the loser's own counter is back at its old value and its
  next edit reuses a version, so that two newest-wins devices need not converge
  (`two_writers` with newest-wins on both and `Converges`).
* A landing replaces the entry rather than merging with it, so a local edit indexed
  during the receive is forgotten in the version (`pair` with two writers:
  `IndexNeverGoesBack`).
* In the ring, an older version may take the claim over from a newer one that is
  then received twice (`ring` with two contents: `SingleFlight`), and a landing
  over one link undoes a deletion received over another (`ring` with `Deleter =
  {d1}`, `Existing = {d1}`: `IndexNeverGoesBack`).
* What lands from a full exchange is not relayed, and a relay goes out before the
  content has landed (`ring` with the two links of d2 alone:
  `ConvergesUnlessGivenUp`).

## What is not modelled

In the modelled components: ignore rules, on-demand and paused paths, end-to-end
encrypted peers, nested roots, pruning of versions, content-defined blocks, receives
over two connections to one and the same device (`FolderSync` has one per pair, as
`broadcast.ts` sends a delta to each device once; `ReceiveStore` has several), back-off
delays, event filters, writes within the 2 s that `isUnchanged` tolerates (the code accepts that
miss), peers too old for fingerprints or chunks, two chunked indexes sent at once, the
time within which the gate suppresses a repeated index (the model's gate remembers for
ever, which is the worse case), and of the update the validation of packages and
node-pty. Below the frames of `net/wire.ts`, TCP is taken as reliable and ordered
while a link is up. Hashes and fingerprints are taken to identify contents.

Without a module: framing and encryption, schedule and power, git, the swap of the
backend binary, offers and invitations, rollback and history, API and status,
discovery. The C files of the repository (the vendored SQLite and mDNS libraries and
the stubs beside them under `moonbit/`) are third-party code or bindings of the
MoonBit port and carry none of the program's own synchronisation, which the modules
translate from its TypeScript implementation.

## The plan

Done: the core (`FolderSync`, `FolderScan`, `ScanTrigger`, `ReceiveStore`), the
abstract promise and the refinement (`Replication`), the initial exchange with chunks
(`IndexExchange`), sessions and disk guard (`PeerSessions`, `DiskGuard`), the updater
(`SelfUpdate`). Left, most important first:

1. Failing trash moves and refused deletions in `FolderSync`'s scan
   (`session-manager.ts:1796`).
2. `SendWindow`: back-pressure of the wire, and two chunked indexes at once.
3. `WatchHandles`: the watcher objects themselves, for the handle that
   `handleWatchError` loses.
4. `PauseTicker` (user, schedule, power), `GitNotify`, `BackendSwap`.

Theorems to prove next: `NothingForgotten` with chunks under `CalmTransfers`;
`VersionIdentifiesContent` for two concurrent edits; `RequestsKept` for full scans
once their replacement is out of the way.
