----------------------------- MODULE FolderSync -----------------------------
(***************************************************************************)
(* One shared folder on several devices: the local scan, the index         *)
(* exchange, the block requests and the landing of files, per path         *)
(* (src/peer.ts, src/executor.ts, src/session-manager.ts, src/relay.ts).   *)
(*                                                                         *)
(* A file's content is one number, so a receive is one block request; the  *)
(* many-block receive and its durable half are module ReceiveStore.        *)
(* Content 0 is the empty file, which needs no block at all. The newest-   *)
(* wins policy compares the modification times of contents, which may tie. *)
(* The folder has no ignored, paused or on-demand path, no end-to-end      *)
(* encrypted peer and enough disk space.                                   *)
(***************************************************************************)
EXTENDS VersionVector, FiniteSets, Sequences, SequencesExt

CONSTANTS
    Path,           \* paths of the shared folder
    NoFile,         \* no file at the path on disk
    NoPending,      \* no receive under way for the path on a connection
    NoClaim,        \* the receive ledger has no claim for the path
    Link,           \* pairs {d, e} of devices that may be connected
    Writer,         \* devices whose user writes files
    Deleter,        \* devices whose user deletes files
    EarlyEdits,     \* TRUE: users also edit while a link is down
    Policy,         \* conflictPolicy of each device
    Mtime,          \* modification time of each content
    ReceiveOnly,    \* devices that pull and never push
    Existing,       \* devices that may start with a copy of content 1
    Slow,           \* devices where a receive may outlast its claim
    MaxContent,     \* bound: the last content a user writes
    MaxConnects     \* bound: connections established

ASSUME EntryAssumption == NoEntry \notin [version : Version, deleted : BOOLEAN, content : Nat]
ASSUME PendingAssumption ==
    NoPending \notin [kind  : {"receive", "conflict"},
                      entry : [version : Version, deleted : BOOLEAN, content : Nat]]
ASSUME ClaimAssumption == NoClaim \notin [holder : Device, key : BOOLEAN \X Nat]
ASSUME FileAssumption == NoFile \notin Nat
ASSUME PolicyAssumption == Policy \in [Device -> {"keep-both", "newest-wins", "local-wins"}]
ASSUME LinkAssumption == Link \subseteq {{d, e} : d, e \in Device}
ASSUME BoundAssumption == MaxContent \in Nat \ {0} /\ MaxConnects \in Nat
ASSUME MtimeAssumption == Mtime \in [0..MaxContent -> Nat]
ASSUME PathAssumption == IsFiniteSet(Path)

VARIABLES
    file,       \* file[d][p]: disk, index entry, conflict copies, archive
    pend,       \* pend[d][e][p]: the receive of p at d over the connection to e
    claim,      \* claim[d][p]: receiveLedger of the folder on d
    chan,       \* chan[d][e]: messages sent by d, not yet handled by e
    up,         \* established links
    clock,      \* last content written by any user
    connects,   \* connections established so far
    expired,    \* history: <<d, p>> where a claim has expired
    givenUp     \* history: <<d, p>> where a receive has been given up

history == <<expired, givenUp>>
vars == <<file, pend, claim, chan, up, clock, connects, expired, givenUp>>

Content == 0..MaxContent
Empty == 0
Entry == [version : Version, deleted : BOOLEAN, content : Content]
MaybeEntry == Entry \cup {NoEntry}

Neighbour(d) == {e \in Device : {d, e} \in up /\ e # d}
LocalIndex(d) == [p \in Path |-> file[d][p].index]
NoEntries == [p \in Path |-> NoEntry]

(* The block list of an entry; a tombstone lists no block. *)
Blocks(entry) == IF entry.deleted THEN Empty ELSE entry.content

(* Wire messages (src/messages.ts). *)
IndexMessage(entries, full, relayed) ==
    [type |-> "index", entries |-> entries, full |-> full, relayed |-> relayed]
BlockRequest(p, c) == [type |-> "block-request", path |-> p, hash |-> c]
BlockResponse(p, c, data) ==
    [type |-> "block-response", path |-> p, hash |-> c, data |-> data]

----------------------------------------------------------------------------
(* Effects on the disk and the index of one path.                          *)

OnDisk(f) == {f.disk} \ {NoFile}

(* snapshotVersion: what the landing overwrites goes to the version store. *)
snapshotVersion(f) == [f EXCEPT !.archive = @ \cup OnDisk(f), !.disk = NoFile]

(* moveToTrash then the tombstone: applyDelete. *)
applyDelete(f, tombstone) ==
    [f EXCEPT !.archive = @ \cup OnDisk(f), !.disk = NoFile, !.index = tombstone]

(* A file nobody has indexed yet is put aside before a landing. *)
preserveLocalAsConflict(f) ==
    IF f.index # NoEntry THEN f
    ELSE [f EXCEPT !.copies = @ \cup OnDisk(f), !.disk = NoFile]

finalizeReceive(f, entry) ==
    [snapshotVersion(preserveLocalAsConflict(f)) EXCEPT
        !.disk = Blocks(entry), !.index = entry]

(* Mutant of applyConflict: the losing file gets no conflict copy. *)
applyConflictOverwrites(f, remote) ==
    [f EXCEPT !.disk  = Blocks(remote),
              !.index = [remote EXCEPT !.version = mergeVersions(f.index.version, @)]]

(* Mutant of applyConflict: the index takes the merge, the file is not replaced. *)
applyConflictKeepsFile(f, remote) ==
    [f EXCEPT !.copies = @ \cup OnDisk(f),
              !.index = [remote EXCEPT !.version = mergeVersions(f.index.version, @)]]

applyConflict(f, remote) ==
    LET merged == mergeVersions(f.index.version, remote.version)
    IN  IF f.index.deleted /\ remote.deleted
        THEN [f EXCEPT !.index = [remote EXCEPT !.version = merged, !.content = Empty]]
        ELSE [f EXCEPT !.copies = @ \cup OnDisk(f),
                       !.disk   = Blocks(remote),
                       !.index  = [remote EXCEPT !.version = merged]]

applyConflictKeepLocal(f, remote) ==
    [f EXCEPT !.index.version = mergeVersions(@, remote.version)]

Land(f, item) ==
    IF item.kind = "conflict" THEN applyConflict(f, item.entry)
                              ELSE finalizeReceive(f, item.entry)

----------------------------------------------------------------------------
(* What one index message makes of one path at device d: the new file      *)
(* state, receive and claim, whether a block is requested, and the entry   *)
(* to send back to e and to relay to the siblings.                         *)

(* Mutant of Idle: entries that change nothing here are relayed all the same. *)
IdleRelays(d, e, p) ==
    [file |-> file[d][p], pend |-> pend[d][e][p], claim |-> claim[d][p],
     live |-> FALSE, request |-> FALSE, send |-> NoEntry,
     landed |-> Head(chan[e][d]).entries[p]]

Idle(d, e, p) ==
    [file |-> file[d][p], pend |-> pend[d][e][p], claim |-> claim[d][p],
     live |-> FALSE, request |-> FALSE, send |-> NoEntry, landed |-> NoEntry]

(* versionKey: what the ledger compares. *)
versionKey(entry) == <<entry.deleted, Blocks(entry)>>

(* Mutant of Claimable: no single flight. *)
ClaimableAlways(d, e, p, entry) == TRUE

(* tryClaim refuses a version another connection is already receiving, as  *)
(* long as that connection's claim has not expired (expireClaim).          *)
Claimable(d, e, p, entry) ==
    \/ claim[d][p] = NoClaim
    \/ claim[d][p].holder = e
    \/ claim[d][p].key # versionKey(entry)

Released(held, e) == IF held # NoClaim /\ held.holder = e THEN NoClaim ELSE held

(* requestMissingBlocks: no block to fetch, or found in the local file.     *)
Ready(d, p, entry) ==
    LET f == file[d][p]
    IN  \/ Blocks(entry) = Empty
        \/ /\ f.index # NoEntry /\ ~f.index.deleted
           /\ f.index.content = entry.content /\ f.disk = entry.content

(* openPending, requestMissingBlocks and completeIfReady.                  *)
Open(d, e, p, kind, entry) ==
    LET item == [kind |-> kind, entry |-> entry]
    IN  IF Ready(d, p, entry)
        THEN [Idle(d, e, p) EXCEPT
                !.file = Land(@, item), !.pend = NoPending, !.claim = NoClaim,
                !.live = TRUE, !.landed = entry]
        ELSE [Idle(d, e, p) EXCEPT
                !.pend = item, !.claim = [holder |-> e, key |-> versionKey(entry)],
                !.live = TRUE, !.request = TRUE, !.landed = entry]

Send(d, e, p) ==
    [Idle(d, e, p) EXCEPT !.send = IF d \in ReceiveOnly THEN NoEntry ELSE file[d][p].index]

(* Mutant of Delete: of two tombstones the peer's is taken, however old. *)
DeleteUncompared(d, e, p, remote) ==
    IF remote = NoEntry \/ ~remote.deleted THEN Send(d, e, p)
    ELSE [Idle(d, e, p) EXCEPT
            !.file   = applyDelete(@, remote),
            !.pend   = NoPending,
            !.claim  = Released(@, e),
            !.landed = remote]

(* A newer local tombstone is sent unless the peer deleted the path too; a *)
(* newer remote one is applied and ends the receive under way.             *)
Delete(d, e, p, remote) ==
    IF compareFileState(file[d][p].index, remote) = "local-newer"
    THEN IF remote # NoEntry /\ remote.deleted THEN Idle(d, e, p) ELSE Send(d, e, p)
    ELSE [Idle(d, e, p) EXCEPT
            !.file   = applyDelete(@, remote),
            !.pend   = NoPending,
            !.claim  = Released(@, e),
            !.landed = remote]

KeepLocal(d, e, p, remote) ==
    [Idle(d, e, p) EXCEPT !.file = applyConflictKeepLocal(@, remote), !.claim = NoClaim]

KeepLocalAndSend(d, e, p, remote) ==
    LET kept == KeepLocal(d, e, p, remote)
    IN  [kept EXCEPT !.send = kept.file.index]

(* The local counter tells an edit made here from a copy synced before. *)
GenuineLocalEdit(d, local) == local.version[d] > 0

(* Who wins under the folder's policy; "none", also on a tie, keeps both.  *)
PolicyWinner(d, local, remote) ==
    IF local.deleted \/ remote.deleted THEN "none"
    ELSE CASE Policy[d] = "keep-both"   -> "none"
           [] Policy[d] = "local-wins"  -> "local"
           [] Policy[d] = "newest-wins" ->
                IF Mtime[remote.content] > Mtime[local.content] THEN "remote"
                ELSE IF Mtime[local.content] > Mtime[remote.content] THEN "local" ELSE "none"

(* Mutant of Conflict: a conflicting entry is passed over. *)
ConflictIgnored(d, e, p, remote, relayed) == Idle(d, e, p)

Conflict(d, e, p, remote, relayed) ==
    LET local == file[d][p].index
        same == ~local.deleted /\ ~remote.deleted /\ local.content = remote.content
        winner == PolicyWinner(d, local, remote)
    IN  IF d \in ReceiveOnly \/ (relayed /\ ~GenuineLocalEdit(d, local))
        THEN Open(d, e, p, "receive", remote)
        ELSE IF same THEN KeepLocal(d, e, p, remote)
        ELSE CASE winner = "remote" -> Open(d, e, p, "receive", remote)
               [] winner = "local"  -> KeepLocalAndSend(d, e, p, remote)
               [] winner = "none"   -> Open(d, e, p, "conflict", remote)

(* A full index drops every receive it did not open again. *)
DropStale(outcome, e, full) ==
    IF full /\ ~outcome.live /\ outcome.pend # NoPending
    THEN [outcome EXCEPT !.pend = NoPending, !.claim = Released(@, e)]
    ELSE outcome

Outcome(d, e, p, action, remote, full, relayed) ==
    DropStale(
        CASE action = "none"    -> Idle(d, e, p)
          [] action = "send"    -> Send(d, e, p)
          [] action = "delete"  -> Delete(d, e, p, remote)
          [] action = "receive" -> IF Claimable(d, e, p, remote)
                                   THEN Open(d, e, p, "receive", remote)
                                   ELSE Idle(d, e, p)
          [] action = "conflict" -> IF Claimable(d, e, p, remote)
                                    THEN Conflict(d, e, p, remote, relayed)
                                    ELSE Idle(d, e, p),
        e, full)

----------------------------------------------------------------------------
Init ==
    /\ file \in [Device -> [Path -> [disk    : {NoFile, 1}, index  : {NoEntry},
                                     copies  : {{}},        archive : {{}}]]]
    /\ \A d \in Device \ Existing, p \in Path : file[d][p].disk = NoFile
    /\ pend = [d \in Device |-> [e \in Device |-> [p \in Path |-> NoPending]]]
    /\ claim = [d \in Device |-> [p \in Path |-> NoClaim]]
    /\ chan = [d \in Device |-> [e \in Device |-> <<>>]]
    /\ up = {}
    /\ clock = 1
    /\ connects = 0
    /\ expired = {} /\ givenUp = {}

(* Users write and delete at any moment; the next scan finds out.          *)
Write(d, p) ==
    /\ d \in Writer /\ clock < MaxContent /\ (EarlyEdits \/ up = Link)
    /\ clock' = clock + 1
    /\ file' = [file EXCEPT ![d][p].disk = clock + 1]
    /\ UNCHANGED <<pend, claim, chan, up, connects, history>>

Unlink(d, p) ==
    /\ d \in Deleter /\ clock < MaxContent /\ (EarlyEdits \/ up = Link)
    /\ file[d][p].disk # NoFile
    /\ clock' = clock + 1
    /\ file' = [file EXCEPT ![d][p].disk = NoFile]
    /\ UNCHANGED <<pend, claim, chan, up, connects, history>>

(* A scan: applySend for new and changed files, a tombstone for every      *)
(* indexed file that is gone, then one delta to each connected peer.       *)
Changed(f) == /\ f.disk # NoFile
              /\ f.index = NoEntry \/ f.index.deleted \/ f.index.content # f.disk
Gone(f) == f.disk = NoFile /\ f.index # NoEntry /\ ~f.index.deleted

(* Mutant of Scanned: a tombstone does not count as a change. *)
ScannedTombstoneUncounted(d, f) ==
    IF Gone(f) THEN [f.index EXCEPT !.deleted = TRUE, !.content = Empty]
    ELSE [version |-> incrementVersion(IF f.index = NoEntry THEN createVersionVector
                                       ELSE f.index.version, d),
          deleted |-> FALSE, content |-> f.disk]

Scanned(d, f) ==
    LET previous == IF f.index = NoEntry THEN createVersionVector ELSE f.index.version
        next == incrementVersion(previous, d)
    IN  CASE Changed(f) -> [version |-> next, deleted |-> FALSE, content |-> f.disk]
          [] Gone(f)    -> [version |-> next, deleted |-> TRUE, content |-> Empty]

(* What a scan of d records of each path, NoEntry where nothing changed. *)
Records(d) ==
    [p \in Path |-> IF Changed(file[d][p]) \/ Gone(file[d][p])
                    THEN Scanned(d, file[d][p]) ELSE NoEntry]

(* Mutant of Sends: the tombstones are recorded and not sent. *)
SendsWithoutTombstones(d) ==
    [p \in Path |-> IF Gone(file[d][p]) THEN NoEntry ELSE Records(d)[p]]

Sends(d) == Records(d)

(* A receive-only device announces nothing. *)
Listeners(d) == IF d \in ReceiveOnly THEN {} ELSE Neighbour(d)

scanOnce(d) ==
    /\ Records(d) # NoEntries
    /\ file' = [file EXCEPT ![d] = [p \in Path |->
                    IF Records(d)[p] # NoEntry THEN [@[p] EXCEPT !.index = Records(d)[p]]
                                               ELSE @[p]]]
    /\ chan' = [chan EXCEPT ![d] = [e \in Device |->
                    IF e \in Listeners(d)
                    THEN Append(@[e], IndexMessage(Sends(d), FALSE, FALSE)) ELSE @[e]]]
    /\ UNCHANGED <<pend, claim, up, clock, connects, history>>

(* A session: both sides announce their whole index. *)
Connect(d, e) ==
    /\ d # e /\ {d, e} \in Link \ up /\ connects < MaxConnects
    /\ up' = up \cup {{d, e}}
    /\ connects' = connects + 1
    /\ chan' = [chan EXCEPT ![d][e] = <<IndexMessage(LocalIndex(d), TRUE, FALSE)>>,
                            ![e][d] = <<IndexMessage(LocalIndex(e), TRUE, FALSE)>>]
    /\ UNCHANGED <<file, pend, claim, clock, history>>

(* Mutant of Disconnect: the receives of the connection are not given up. *)
DisconnectKeepsReceives(d, e) ==
    /\ d # e /\ {d, e} \in up
    /\ connects + Cardinality(Link \ up) < MaxConnects
    /\ up' = up \ {{d, e}}
    /\ chan' = [chan EXCEPT ![d][e] = <<>>, ![e][d] = <<>>]
    /\ UNCHANGED <<file, pend, claim, clock, connects, history>>

(* The session ends: messages are lost, receives and claims are given up.  *)
(* The bound on connections leaves every broken link one to come back.     *)
Disconnect(d, e) ==
    /\ d # e /\ {d, e} \in up
    /\ connects + Cardinality(Link \ up) < MaxConnects
    /\ up' = up \ {{d, e}}
    /\ chan' = [chan EXCEPT ![d][e] = <<>>, ![e][d] = <<>>]
    /\ pend' = [pend EXCEPT ![d][e] = [p \in Path |-> NoPending],
                            ![e][d] = [p \in Path |-> NoPending]]
    /\ claim' = [claim EXCEPT ![d] = [p \in Path |-> Released(@[p], e)],
                              ![e] = [p \in Path |-> Released(@[p], d)]]
    /\ UNCHANGED <<file, clock, connects, history>>

(* The first message from e at d. *)
Received(d, e, type) == chan[e][d] # <<>> /\ Head(chan[e][d]).type = type

(* Take that message; append reply to d's channel to e and, to every other *)
(* connected device, the messages of relay.                                *)
Deliver(d, e, reply, relay) ==
    chan' = [chan EXCEPT
        ![e][d] = Tail(@),
        ![d] = [x \in Device |-> IF x = e THEN @[x] \o reply
                                 ELSE IF x \in Neighbour(d) THEN @[x] \o relay ELSE @[x]]]

(* The outcome of one index message for every path.                        *)
PlannedOutcome(d, e, m) ==
    LET plan == IF m.full THEN buildPlan(LocalIndex(d), m.entries)
                          ELSE buildDeltaPlan(LocalIndex(d), m.entries)
    IN  [p \in Path |-> Outcome(d, e, p, IF p \in DOMAIN plan THEN plan[p] ELSE "none",
                                m.entries[p], m.full, m.relayed)]

onPeerIndex(d, e) ==
    /\ Received(d, e, "index")
    /\ LET m == Head(chan[e][d])
       IN  \E outcome \in {PlannedOutcome(d, e, m)} :
           LET wanted == SetToSeq({p \in Path : outcome[p].request})
               requests == [i \in DOMAIN wanted |->
                   BlockRequest(wanted[i], m.entries[wanted[i]].content)]
               sends == [p \in Path |-> outcome[p].send]
               landed == [p \in Path |-> outcome[p].landed]
           IN  /\ file' = [file EXCEPT ![d] = [p \in Path |-> outcome[p].file]]
               /\ pend' = [pend EXCEPT ![d][e] = [p \in Path |-> outcome[p].pend]]
               /\ claim' = [claim EXCEPT ![d] = [p \in Path |-> outcome[p].claim]]
               /\ Deliver(d, e,
                    requests \o (IF sends = NoEntries THEN <<>>
                                 ELSE <<IndexMessage(sends, FALSE, FALSE)>>),
                    IF m.full \/ d \in ReceiveOnly \/ landed = NoEntries THEN <<>>
                    ELSE <<IndexMessage(landed, FALSE, TRUE)>>)
    /\ UNCHANGED <<up, clock, connects, history>>

(* The block is read from the disk as it is now; a missing file is no answer. *)
handleBlockRequest(d, e) ==
    /\ Received(d, e, "block-request")
    /\ LET m == Head(chan[e][d])
           data == file[d][m.path].disk
       IN  Deliver(d, e, IF data = NoFile THEN <<>>
                         ELSE <<BlockResponse(m.path, m.hash, data)>>, <<>>)
    /\ UNCHANGED <<file, pend, claim, up, clock, connects, history>>

(* The response must be for the version being received and verify.        *)
onBlockResponse(d, e) ==
    /\ Received(d, e, "block-response")
    /\ LET m == Head(chan[e][d])
           item == pend[d][e][m.path]
           accepted == item # NoPending /\ m.hash = item.entry.content /\ m.data = m.hash
       IN  /\ file' = IF accepted THEN [file EXCEPT ![d][m.path] = Land(@, item)] ELSE file
           /\ pend' = IF accepted THEN [pend EXCEPT ![d][e][m.path] = NoPending] ELSE pend
           /\ claim' = IF accepted THEN [claim EXCEPT ![d][m.path] = Released(@, e)] ELSE claim
    /\ Deliver(d, e, <<>>, <<>>)
    /\ UNCHANGED <<up, clock, connects, history>>

(* Block timeouts. No request and no answer is under way: the last request *)
(* found the file gone or changed at e. The timer repeats it, and after    *)
(* MAX_BLOCK_RETRIES_TOTAL the receive is given up, whatever e has by now. *)
Unanswered(d, e, p) ==
    /\ pend[d][e][p] # NoPending
    /\ \A i \in DOMAIN chan[d][e] : chan[d][e][i].type # "block-request"
    /\ \A i \in DOMAIN chan[e][d] : chan[e][d][i].type # "block-response"

retryBlock(d, e, p) ==
    /\ Unanswered(d, e, p)
    /\ chan' = [chan EXCEPT ![d][e] =
                    Append(@, BlockRequest(p, pend[d][e][p].entry.content))]
    /\ UNCHANGED <<file, pend, claim, up, clock, connects, history>>

dropIfUnservable(d, e, p) ==
    /\ Unanswered(d, e, p)
    /\ pend' = [pend EXCEPT ![d][e][p] = NoPending]
    /\ claim' = [claim EXCEPT ![d][p] = Released(@, e)]
    /\ givenUp' = givenUp \cup {<<d, p>>}
    /\ UNCHANGED <<file, chan, up, clock, connects, expired>>

(* RECEIVE_CLAIM_TTL_MS: the receive goes on and its claim counts no more. *)
expireClaim(d, p) ==
    /\ d \in Slow /\ claim[d][p] # NoClaim
    /\ claim' = [claim EXCEPT ![d][p] = NoClaim]
    /\ expired' = expired \cup {<<d, p>>}
    /\ UNCHANGED <<file, pend, chan, up, clock, connects, givenUp>>

Handle(d, e) == onPeerIndex(d, e) \/ handleBlockRequest(d, e) \/ onBlockResponse(d, e)

Next ==
    \/ \E d \in Device, p \in Path : Write(d, p) \/ Unlink(d, p)
    \/ \E d \in Device : scanOnce(d)
    \/ \E d, e \in Device : Connect(d, e) \/ Disconnect(d, e) \/ Handle(d, e)
    \/ \E d, e \in Device, p \in Path : retryBlock(d, e, p) \/ dropIfUnservable(d, e, p)
    \/ \E d \in Device, p \in Path : expireClaim(d, p)

(* Each device's event loop runs its scan timer and its sockets; a lost    *)
(* connection is dialled again. Retries are counted: a receive that again  *)
(* and again gets no answer is given up in the end, although each repeated *)
(* request puts that off (strong fairness). Users may stop at any time.    *)
Fairness ==
    /\ WF_vars(\E d, e \in Device : Connect(d, e))
    /\ \A d \in Device :
        /\ WF_vars(scanOnce(d))
        /\ WF_vars(\E e \in Device : Handle(d, e))
        /\ SF_vars(\E e \in Device, p \in Path : dropIfUnservable(d, e, p))

Spec == Init /\ [][Next]_vars /\ Fairness
----------------------------------------------------------------------------
(* Properties.                                                             *)

FileState == [disk : Content \cup {NoFile}, index : MaybeEntry,
              copies : SUBSET Content, archive : SUBSET Content]
Item == [kind : {"receive", "conflict"}, entry : Entry]
Pending == Item \cup {NoPending}
Claim == [holder : Device, key : BOOLEAN \X Content] \cup {NoClaim}
Message ==
    [type : {"index"}, entries : [Path -> MaybeEntry], full : BOOLEAN, relayed : BOOLEAN]
        \cup [type : {"block-request"}, path : Path, hash : Content]
        \cup [type : {"block-response"}, path : Path, hash : Content, data : Content]

(* Types of the variables; only connections that are up carry anything.    *)
TypeOK ==
    /\ file \in [Device -> [Path -> FileState]]
    /\ pend \in [Device -> [Device -> [Path -> Pending]]]
    /\ claim \in [Device -> [Path -> Claim]]
    /\ chan \in [Device -> [Device -> Seq(Message)]]
    /\ up \subseteq Link
    /\ clock \in 1..MaxContent /\ connects \in 0..MaxConnects
    /\ expired \subseteq Device \X Path /\ givenUp \subseteq Device \X Path
    /\ \A d, e \in Device : e \notin Neighbour(d) =>
          chan[d][e] = <<>> /\ \A p \in Path : pend[d][e][p] = NoPending

(* A conflict copy is only ever being received for a path the device knows. *)
ConflictsIndexed ==
    \A d, e \in Device, p \in Path :
        LET item == pend[d][e][p]
        IN  item # NoPending /\ item.kind = "conflict" => file[d][p].index # NoEntry

(* Only users write and delete; they advance the clock when they do.       *)
UserStep == clock' # clock

(* README "never silently lose data": whatever a sync step removes from a  *)
(* path stays on that device as a conflict copy, a version or in the trash *)
(* (snapshotVersion, moveToTrash, preserveLocalAsConflict, applyConflict). *)
DestroysNothing ==
    \A d \in Device, p \in Path :
        \/ UserStep
        \/ file'[d][p].disk = file[d][p].disk
        \/ OnDisk(file[d][p]) \subseteq file'[d][p].copies \cup file'[d][p].archive

SyncNeverDestroys == [][DestroysNothing]_vars

(* What the index says of a path is what the disk holds.                   *)
Honest(f) ==
    \/ f.index = NoEntry
    \/ f.index.deleted /\ f.disk = NoFile
    \/ ~f.index.deleted /\ f.disk = f.index.content

(* A step of the program never makes an index that told the truth about    *)
(* the disk stop telling it: the local half of drift (ADR-0022).           *)
IndexStaysHonest ==
    [][\A d \in Device, p \in Path :
        UserStep \/ (Honest(file[d][p]) => Honest(file'[d][p]))]_vars

(* Versions of one path on two devices are equal only if the contents are: *)
(* compareFileState looks at nothing but the version (the other half of    *)
(* drift).                                                                 *)
VersionIdentifiesContent ==
    \A d, e \in Device, p \in Path :
        LET a == file[d][p].index
            b == file[e][p].index
        IN  a # NoEntry /\ b # NoEntry /\ a.version = b.version
                => a.deleted = b.deleted /\ a.content = b.content

(* No device's entry of a path is ever replaced by one that knows less of  *)
(* the changes made anywhere: planPath only ever chooses newer entries and *)
(* conflicts merge, but landings come later and in any order.              *)
IndexNeverGoesBack ==
    [][\A d \in Device, p \in Path :
        file[d][p].index # NoEntry =>
            /\ file'[d][p].index # NoEntry
            /\ Dominates(file'[d][p].index.version, file[d][p].index.version)]_vars

(* A tombstone that is applied leaves no file behind (CONTEXT.md: it       *)
(* "prevents a deleted file from resurrecting").                           *)
TombstoneLeavesNoFile ==
    [][\A d \in Device, p \in Path :
        LET applied == /\ ~UserStep /\ file'[d][p].index # file[d][p].index
                       /\ file'[d][p].index # NoEntry /\ file'[d][p].index.deleted
        IN  applied => file'[d][p].disk = NoFile]_vars

(* The program, not the user, only ever puts on a disk what a device that  *)
(* is not receive-only held: local edits of a receive-only device are not  *)
(* pushed to its peers.                                                    *)
MirrorNeverPushes ==
    [][\A d \in Device \ ReceiveOnly, p \in Path :
        LET c == file'[d][p].disk
        IN  c \in Content \ {Empty} /\ c # file[d][p].disk /\ ~UserStep
                => \E e \in Device \ ReceiveOnly :
                      c \in OnDisk(file[e][p]) \cup file[e][p].copies \cup file[e][p].archive]_vars

(* Whatever is edited on a receive-only device, it ends up with an entry   *)
(* that knows every change its peers know of.                              *)
MirrorFollows ==
    <>[](\A d \in ReceiveOnly, e \in Device \ ReceiveOnly, p \in Path :
            LET mirror == file[d][p].index
                source == file[e][p].index
            IN  source # NoEntry =>
                    mirror # NoEntry /\ Dominates(mirror.version, source.version))

(* The claim of a path is held for a receive under way of that version:    *)
(* otherwise every other connection would be refused for nobody's sake.    *)
ClaimServed ==
    \A d \in Device, p \in Path :
        claim[d][p] # NoClaim =>
            LET item == pend[d][claim[d][p].holder][p]
            IN  item # NoPending /\ versionKey(item.entry) = claim[d][p].key

(* Single flight: two connections of a device never receive the same       *)
(* version of a path at once (the incident the receive ledger records),    *)
(* unless a claim expired under a receive (peer.ts:1469), and the ledger   *)
(* refuses a connection only while another one receives.                   *)
SingleFlight ==
    /\ ClaimServed
    /\ \A d, e, x \in Device, p \in Path :
          LET one == pend[d][e][p]
              two == pend[d][x][p]
          IN  e # x /\ one # NoPending /\ two # NoPending /\ <<d, p>> \notin expired
                  => one.entry.content # two.entry.content

(* All devices hold the same entry of every path and the file it describes. *)
Agreed ==
    \A d, e \in Device, p \in Path :
        Honest(file[d][p]) /\ file[d][p].index = file[e][p].index

(* Once users stop and connections stay, the folder becomes the same       *)
(* everywhere and stays so.                                                *)
Converges == <>[]Agreed

(* So it does on a ring as long as no receive is given up: what a device   *)
(* relays before it has it (peer.ts:1457) and what the ledger refuses      *)
(* because another connection receives it still arrive.                    *)
ConvergesUnlessGivenUp == <>[](Agreed \/ givenUp # {})

(* The exchange of indexes dies out: no echo between two devices (the      *)
(* incidents of 2026-09-16 and 2026-10-12 that plan.ts and peer.ts record).*)
EventuallyQuiet == <>[](\A d, e \in Device : chan[d][e] = <<>>)

=============================================================================
