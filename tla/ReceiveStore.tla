---------------------------- MODULE ReceiveStore ----------------------------
(***************************************************************************)
(* The durable half of receiving one file (src/executor.ts beginReceive,   *)
(* src/partial-store.ts): blocks go to <target>.syncx-tmp at their final   *)
(* offsets, a manifest beside it says which ones are there, and a rename   *)
(* lands the file. Connections write independently, the process or the     *)
(* machine may crash between any two steps, and scans go on.               *)
(*                                                                         *)
(* An entry is its block list, so equal entries have equal fingerprints.   *)
(* Files are inodes: a path may come to name another one while a receive   *)
(* still holds a file descriptor. Renames are durable and in order. Fixed  *)
(* and content-defined blocks, the empty file, deletions and the eviction  *)
(* of old versions are left out.                                           *)
(***************************************************************************)
EXTENDS Integers, FiniteSets

CONSTANTS
    Slot,           \* block positions of the file
    Value,          \* block contents
    Hole,           \* a position nothing was written to
    Entries,        \* contents the peers announce
    Connection,     \* connections over which the file may be received
    Inode,          \* files of the disk
    NoFile, NoManifest, NoHandle, NoLanding,
    Tombstone,      \* the index says the file was deleted
    CommitSlots,    \* PARTIAL_COMMIT_SLOTS
    MaxAnnounced,   \* bound: announcements of another content
    MaxFaults       \* bound: crashes, failing renames, lost connections

ASSUME EntriesAssumption == Entries \subseteq [Slot -> Value]
ASSUME HoleAssumption == Hole \notin Value
ASSUME SlotAssumption == IsFiniteSet(Slot) /\ Slot # {}
ASSUME CommitAssumption == CommitSlots \in Nat \ {0}
ASSUME NamesAssumption ==
    /\ NoFile \notin Inode
    /\ NoManifest \notin [entry : Entries, bitmap : SUBSET Slot]
    /\ NoLanding \notin [entry : Entries, step : {"kept", "renamed"}]
    /\ NoHandle \notin [entry : Entries, bitmap : SUBSET Slot,
                        fd : Inode \cup {NoFile}, dirty : Nat]

VARIABLES
    target,     \* inode at the path of the file, or NoFile
    tmp,        \* inode at <target>.syncx-tmp, or NoFile
    data,       \* data[n][i]: block i of inode n as a reader sees it
    durable,    \* durable[n][i]: the same as a crash of the machine leaves it
    manifest,   \* <target>.syncx-partial
    handle,     \* ReceiveHandle of each connection
    landing,    \* the file being landed, between two steps of finalizeReceive
    kept,       \* contents in the version store
    index,      \* content the index entry describes, or Tombstone
    latest,     \* content the peers announce
    announced, faults

files == <<target, tmp, data, durable, manifest>>
vars == <<files, handle, landing, kept, index, latest, announced, faults>>

Block == Value \cup {Hole}
Bytes == [Slot -> Block]
Holes == [i \in Slot |-> Hole]

Init ==
    /\ target \in Inode /\ tmp = NoFile
    /\ \E e \in Entries :
        /\ data = [n \in Inode |-> IF n = target THEN e ELSE Holes]
        /\ index = e /\ latest = e
    /\ durable = data
    /\ manifest = NoManifest
    /\ handle = [h \in Connection |-> NoHandle]
    /\ landing = NoLanding
    /\ kept = {}
    /\ announced = 0 /\ faults = 0

----------------------------------------------------------------------------
(* A peer announces another content.                                       *)
Announce(e) ==
    /\ announced < MaxAnnounced /\ landing = NoLanding /\ e # latest
    /\ latest' = e /\ announced' = announced + 1
    /\ UNCHANGED <<files, handle, landing, kept, index, faults>>

(* Mutant of Verified: the manifest is believed. *)
VerifiedUnread(e) ==
    IF manifest = NoManifest \/ tmp = NoFile THEN {}
    ELSE {i \in manifest.bitmap : manifest.entry = e}

(* Resuming: the manifest must be for this content and each block it claims *)
(* is read back.                                                           *)
Verified(e) ==
    IF manifest = NoManifest \/ tmp = NoFile THEN {}
    ELSE {i \in manifest.bitmap : manifest.entry = e /\ data[tmp][i] = e[i]}

(* A receive of the latest content, in place of one that it supersedes;    *)
(* the ledger admits one receive of a content.                             *)
beginReceive(h) ==
    /\ landing = NoLanding /\ index # latest
    /\ \A g \in Connection : handle[g] # NoHandle => handle[g].entry # latest
    /\ handle' = [handle EXCEPT ![h] =
         [entry |-> latest, bitmap |-> Verified(latest), fd |-> NoFile, dirty |-> 0]]
    /\ UNCHANGED <<files, landing, kept, index, latest, announced, faults>>

(* ensureFd: inode n is opened, the existing tmp or a new file. With blocks *)
(* to keep the tmp is opened as it is, otherwise it is truncated.          *)
Opens(h, n) ==
    LET r == handle[h]
    IN  IF r.fd # NoFile THEN n = r.fd
        ELSE IF tmp # NoFile THEN n = tmp
        ELSE /\ r.bitmap = {} /\ n # target
             /\ \A g \in Connection : handle[g] # NoHandle => handle[g].fd # n

Opened(h, n) == IF handle[h].fd = NoFile /\ handle[h].bitmap = {} THEN Holes ELSE data[n]

(* Mutant of Due: one block too late. *)
DueLate(r) == r.dirty > CommitSlots \/ r.bitmap = Slot

(* Mutant of Due: the last blocks of the file wait for a full group too. *)
DueByGroup(r) == r.dirty >= CommitSlots

(* A group of blocks is complete, or the file is.                          *)
Due(r) == r.dirty >= CommitSlots \/ r.bitmap = Slot

(* A block that was verified against its hash is written at its offset;    *)
(* when due, the file is flushed and the manifest written after it.        *)
append(h, i) ==
    /\ landing = NoLanding /\ handle[h] # NoHandle /\ i \notin handle[h].bitmap
    /\ \E n \in Inode :
        /\ Opens(h, n)
        /\ LET r == [handle[h] EXCEPT !.bitmap = @ \cup {i}, !.fd = n, !.dirty = @ + 1]
               bytes == [Opened(h, n) EXCEPT ![i] = r.entry[i]]
           IN  /\ data' = [data EXCEPT ![n] = bytes]
               /\ tmp' = IF handle[h].fd = NoFile THEN n ELSE tmp
               /\ IF Due(r)
                  THEN /\ durable' = [durable EXCEPT ![n] = bytes]
                       /\ manifest' = [entry |-> r.entry, bitmap |-> r.bitmap]
                       /\ handle' = [handle EXCEPT ![h] = [r EXCEPT !.dirty = 0]]
                  ELSE /\ handle' = [handle EXCEPT ![h] = r]
                       /\ UNCHANGED <<durable, manifest>>
    /\ UNCHANGED <<target, landing, kept, index, latest, announced, faults>>

(* Mutant of Complete: one block short counts as complete. *)
CompleteButOne(h) == handle[h] # NoHandle /\ Cardinality(handle[h].bitmap) + 1 >= Cardinality(Slot)

Complete(h) == handle[h] # NoHandle /\ handle[h].bitmap = Slot

(* Mutant of Archived: the file is simply replaced. *)
ArchivedNothing == kept

(* snapshotVersion renames the file into the version store; where it cannot *)
(* it copies, and the file stays until the next step replaces it.          *)
Archived == IF target = NoFile THEN kept ELSE kept \cup {data[target]}

(* finalize: the blocks at the tmp path are compared once more with the    *)
(* entry; then the file to be replaced moves to the version store.         *)
finalize(h) ==
    /\ landing = NoLanding /\ Complete(h)
    /\ handle' = [handle EXCEPT ![h] = NoHandle]
    /\ IF tmp # NoFile /\ data[tmp] = handle[h].entry
       THEN /\ landing' = [entry |-> handle[h].entry, step |-> "kept"]
            /\ kept' = Archived
            /\ target' \in {NoFile, target}
            /\ UNCHANGED <<tmp, manifest>>
       ELSE /\ tmp' = NoFile /\ manifest' = NoManifest
            /\ UNCHANGED <<landing, kept, target>>
    /\ UNCHANGED <<data, durable, index, latest, announced, faults>>

rename ==
    /\ landing # NoLanding /\ landing.step = "kept"
    /\ target' = tmp /\ tmp' = NoFile
    /\ landing' = [landing EXCEPT !.step = "renamed"]
    /\ UNCHANGED <<data, durable, manifest, handle, kept, index, latest, announced, faults>>

(* The rename may fail (the file is held open elsewhere).                  *)
renameFails ==
    /\ landing # NoLanding /\ landing.step = "kept" /\ faults < MaxFaults
    /\ landing' = NoLanding /\ faults' = faults + 1
    /\ UNCHANGED <<files, handle, kept, index, latest, announced>>

(* removePartial, then the entry is saved.                                 *)
saveEntry ==
    /\ landing # NoLanding /\ landing.step = "renamed"
    /\ manifest' = NoManifest /\ tmp' = NoFile
    /\ index' = landing.entry /\ landing' = NoLanding
    /\ UNCHANGED <<target, data, durable, handle, kept, latest, announced, faults>>

(* abort(true): the connection ends; what was written is committed.        *)
abort(h) ==
    /\ landing = NoLanding /\ handle[h] # NoHandle /\ faults < MaxFaults
    /\ handle' = [handle EXCEPT ![h] = NoHandle] /\ faults' = faults + 1
    /\ LET r == handle[h]
       IN  IF r.fd # NoFile /\ r.dirty > 0
           THEN /\ durable' = [durable EXCEPT ![r.fd] = data[r.fd]]
                /\ manifest' = [entry |-> r.entry, bitmap |-> r.bitmap]
           ELSE UNCHANGED <<durable, manifest>>
    /\ UNCHANGED <<target, tmp, data, landing, kept, index, latest, announced>>

(* The process or the machine stops: of every block not flushed the old or *)
(* the new content survives, and a manifest just written may be torn.      *)
Crash ==
    /\ faults < MaxFaults /\ faults' = faults + 1
    /\ \E lost \in SUBSET {b \in Inode \X Slot : data[b[1]][b[2]] # durable[b[1]][b[2]]} :
         data' = [n \in Inode |-> [i \in Slot |->
                    IF <<n, i>> \in lost THEN durable[n][i] ELSE data[n][i]]]
    /\ durable' = data'
    /\ manifest' \in {manifest, NoManifest}
    /\ handle' = [h \in Connection |-> NoHandle]
    /\ landing' = NoLanding
    /\ UNCHANGED <<target, tmp, kept, index, latest, announced>>

(* A scan: a missing file becomes a tombstone, a changed one a local edit. *)
scan ==
    /\ landing = NoLanding
    /\ IF target = NoFile THEN index # Tombstone /\ index' = Tombstone
       ELSE index # data[target] /\ index' = data[target]
    /\ UNCHANGED <<files, handle, landing, kept, latest, announced, faults>>

Step ==
    \/ rename \/ saveEntry \/ scan
    \/ \E h \in Connection : beginReceive(h) \/ finalize(h) \/ \E i \in Slot : append(h, i)

Next ==
    \/ Step \/ renameFails \/ Crash
    \/ \E e \in Entries : Announce(e)
    \/ \E h \in Connection : abort(h)

(* Peers serve the blocks they announced, the event loop runs on and a     *)
(* crashed daemon is started again.                                        *)
Spec == Init /\ [][Next]_vars /\ WF_vars(Step)

----------------------------------------------------------------------------
Handle == [entry : Entries, bitmap : SUBSET Slot, fd : Inode \cup {NoFile},
           dirty : 0..CommitSlots - 1]
Manifest == [entry : Entries, bitmap : SUBSET Slot]
Landing == [entry : Entries, step : {"kept", "renamed"}]

(* Types of the variables; fewer than CommitSlots blocks are unflushed, so *)
(* that a crash costs no more of a receive than that.                      *)
TypeOK ==
    /\ target \in Inode \cup {NoFile} /\ tmp \in Inode \cup {NoFile}
    /\ data \in [Inode -> Bytes] /\ durable \in [Inode -> Bytes]
    /\ manifest \in Manifest \cup {NoManifest}
    /\ handle \in [Connection -> Handle \cup {NoHandle}]
    /\ landing \in Landing \cup {NoLanding}
    /\ kept \subseteq Bytes
    /\ index \in Bytes \cup {Tombstone}
    /\ latest \in Entries

(* The file at the path is at all times, after crashes too, one that was   *)
(* announced as a whole: never a mixture, never one with a hole ("the      *)
(* content of the tmp must be the bytes of the final file", partial-store). *)
LandedIsWhole == target # NoFile => data[target] \in Entries

(* A block the bitmap has is in the tmp and right ("once the bitmap says   *)
(* the block is on disk it must really be", append): nobody asks for it     *)
(* again.                                                                  *)
BitmapTruth ==
    \A h \in Connection : handle[h] # NoHandle =>
        \A i \in handle[h].bitmap : tmp # NoFile /\ data[tmp][i] = handle[h].entry[i]

(* What leaves the path of the file is kept as a version, whatever fails.  *)
VersionKept ==
    [][target # NoFile /\ target' # target => data[target] \in kept']_vars

(* The last content announced is landed in the end, whatever crashes.      *)
CatchesUp ==
    <>[](index = latest /\ target # NoFile /\ data[target] = latest)

=============================================================================
