----------------------------- MODULE FolderScan -----------------------------
(***************************************************************************)
(* One scan of a folder (scanFolderAsync, then scanOnce's application of   *)
(* the diff) while users work on the files and the peers' changes land.    *)
(* FolderSync takes the whole scan as one step; here it is the walk it is: *)
(* directories are listed one at a time, each file is looked at on its own *)
(* and the event loop runs in between, so that landings get in.            *)
(*                                                                         *)
(* Contents and modification times are values of one clock. All contents   *)
(* have the same size and two writes are further apart than the 2 s within *)
(* which isUnchanged takes modification times to be equal.                 *)
(***************************************************************************)
EXTENDS Integers, FiniteSets

CONSTANTS
    Path,               \* paths of the folder
    Dir,                \* its directories
    DirOf,              \* the directory of each path
    NoFile,             \* no file at the path
    NoEntry,            \* the index does not know the path
    NoStat,             \* no stat under way
    MaxClock            \* bound: writes, deletions and landings

ASSUME DirAssumption == DirOf \in [Path -> Dir]
ASSUME ClockAssumption == MaxClock \in Nat

VARIABLES
    disk,       \* disk[p]: content and modification time, or NoFile
    index,      \* index[p]: the index entry, counters of this device and of the peers
    kept,       \* kept[p]: contents in the trash, the version store and conflict copies
    clock,      \* writes, deletions and landings so far
    phase,      \* idle, walk, apply
    unread,     \* directories the walk has still to list
    listed,     \* paths listed and not yet looked at
    stat,       \* the file whose stat is awaited and the entry read before it
    seen,       \* paths listed as files so far
    changed,    \* paths to index again
    tombstones, \* tombstones computed at the end of the walk
    hashed,     \* the file being indexed again: its path and the content hashed
    landed,     \* history: paths that a landing changed since the walk began
    torn        \* history: paths written between being hashed and having their time taken

scanVars == <<phase, unread, listed, stat, seen, changed, tombstones, hashed>>
history == <<landed, torn>>
vars == <<disk, index, kept, clock, scanVars, history>>

Live(entry) == entry # NoEntry /\ ~entry.deleted
OnDisk(p) == IF disk[p] = NoFile THEN {} ELSE {disk[p].content}

Init ==
    /\ disk = [p \in Path |-> NoFile]
    /\ index = [p \in Path |-> NoEntry]
    /\ kept = [p \in Path |-> {}]
    /\ clock = 0
    /\ phase = "idle"
    /\ unread = {} /\ listed = {} /\ seen = {} /\ changed = {}
    /\ stat = NoStat /\ hashed = NoStat
    /\ tombstones = [p \in {} |-> NoEntry]
    /\ landed = {} /\ torn = {}

----------------------------------------------------------------------------
(* Users: other processes, at any moment.                                  *)

Tick == clock < MaxClock /\ clock' = clock + 1
Hashing(p) == hashed # NoStat /\ hashed.path = p

Write(p) ==
    /\ Tick
    /\ disk' = [disk EXCEPT ![p] = [content |-> clock', mtime |-> clock']]
    /\ torn' = IF Hashing(p) THEN torn \cup {p} ELSE torn
    /\ UNCHANGED <<index, kept, scanVars, landed>>

Touch(p) ==
    /\ Tick /\ disk[p] # NoFile
    /\ disk' = [disk EXCEPT ![p].mtime = clock']
    /\ UNCHANGED <<index, kept, scanVars, history>>

Unlink(p) ==
    /\ Tick /\ disk[p] # NoFile
    /\ disk' = [disk EXCEPT ![p] = NoFile]
    /\ UNCHANGED <<index, kept, scanVars, history>>

----------------------------------------------------------------------------
(* Landings of what peers announced: a newer entry of the path, never while *)
(* a scan applies its diff.                                                *)

Lands(p) ==
    /\ Tick /\ phase \in {"idle", "walk"}
    /\ landed' = IF phase = "walk" THEN landed \cup {p} ELSE landed
Local(p) == IF index[p] = NoEntry THEN 0 ELSE index[p].local
Remote(p) == IF index[p] = NoEntry THEN 0 ELSE index[p].remote

(* finalizeReceive: a new content, or the one the file already has         *)
(* (requestMissingBlocks found every block in it).                         *)
finalizeReceive(p) ==
    /\ Lands(p)
    /\ \E content \in {clock'} \cup (IF Live(index[p]) THEN OnDisk(p) ELSE {}) :
        /\ disk' = [disk EXCEPT ![p] = [content |-> content, mtime |-> clock']]
        /\ index' = [index EXCEPT ![p] =
             [local |-> Local(p), remote |-> Remote(p) + 1, deleted |-> FALSE,
              content |-> content, mtime |-> clock']]
    /\ kept' = [kept EXCEPT ![p] = @ \cup OnDisk(p)]
    /\ UNCHANGED <<scanVars, torn>>

applyDelete(p) ==
    /\ Lands(p) /\ Live(index[p])
    /\ disk' = [disk EXCEPT ![p] = NoFile]
    /\ kept' = [kept EXCEPT ![p] = @ \cup OnDisk(p)]
    /\ index' = [index EXCEPT ![p].remote = @ + 1, ![p].deleted = TRUE]
    /\ UNCHANGED <<scanVars, torn>>

(* applyConflictKeepLocal: both sides have the content, only versions merge. *)
applyConflictKeepLocal(p) ==
    /\ Lands(p) /\ Live(index[p])
    /\ index' = [index EXCEPT ![p].remote = @ + 1]
    /\ UNCHANGED <<disk, kept, scanVars, torn>>

----------------------------------------------------------------------------
(* The walk.                                                               *)

StartWalk ==
    /\ phase = "idle"
    /\ phase' = "walk" /\ unread' = Dir
    /\ UNCHANGED <<disk, index, kept, clock, listed, stat, seen, changed, tombstones, hashed, history>>

readdir(dir) ==
    /\ phase = "walk" /\ listed = {} /\ stat = NoStat /\ dir \in unread
    /\ unread' = unread \ {dir}
    /\ listed' = {p \in Path : DirOf[p] = dir /\ disk[p] # NoFile}
    /\ UNCHANGED <<disk, index, kept, clock, phase, stat, seen, changed, tombstones, hashed, history>>

(* A file without a live entry is new; any other waits for its stat.       *)
Visit(p) ==
    /\ phase = "walk" /\ stat = NoStat /\ p \in listed
    /\ listed' = listed \ {p} /\ seen' = seen \cup {p}
    /\ IF Live(index[p])
       THEN stat' = [path |-> p, prev |-> index[p]] /\ UNCHANGED changed
       ELSE changed' = changed \cup {p} /\ UNCHANGED stat
    /\ UNCHANGED <<disk, index, kept, clock, phase, unread, tombstones, hashed, history>>

(* Mutant of EndStat: the time is written back without comparing contents. *)
EndStatUncompared ==
    /\ stat # NoStat
    /\ index' = IF disk[stat.path] = NoFile THEN index
                ELSE [index EXCEPT ![stat.path] = [stat.prev EXCEPT !.mtime = disk[stat.path].mtime]]
    /\ stat' = NoStat
    /\ UNCHANGED <<disk, kept, clock, phase, unread, listed, seen, changed, tombstones, hashed, history>>

(* Mutant of EndStat: a new time counts as a new content. *)
EndStatUnhashed ==
    /\ stat # NoStat
    /\ LET p == stat.path
       IN  changed' = IF disk[p] = NoFile \/ disk[p].mtime = stat.prev.mtime THEN changed
                      ELSE changed \cup {p}
    /\ stat' = NoStat
    /\ UNCHANGED <<disk, index, kept, clock, phase, unread, listed, seen, tombstones, hashed, history>>

(* isUnchanged, then contentChanged; only the time differs: the entry read *)
(* before the stat is saved with the new time.                             *)
EndStat ==
    /\ stat # NoStat
    /\ LET p == stat.path
           prev == stat.prev
           unchanged == disk[p] = NoFile \/ disk[p].mtime = prev.mtime
           touched == ~unchanged /\ disk[p].content = prev.content
       IN  /\ changed' = IF unchanged \/ touched THEN changed ELSE changed \cup {p}
           /\ index' = IF touched THEN [index EXCEPT ![p] = [prev EXCEPT !.mtime = disk[p].mtime]]
                                  ELSE index
    /\ stat' = NoStat
    /\ UNCHANGED <<disk, kept, clock, phase, unread, listed, seen, tombstones, hashed, history>>

(* Mutant of Missing: the paths seen are not left out. *)
MissingAll == {p \in Path : Live(index[p])}

(* Mutant of Missing: every path is taken to lie in a nested root. *)
MissingSuppressed == {}

Missing == {p \in Path : Live(index[p]) /\ p \notin seen}

computeTombstones ==
    /\ phase = "walk" /\ unread = {} /\ listed = {} /\ stat = NoStat
    /\ tombstones' = [p \in Missing |->
                        [index[p] EXCEPT !.local = @ + 1, !.deleted = TRUE]]
    /\ phase' = "apply"
    /\ seen' = {}
    /\ UNCHANGED <<disk, index, kept, clock, unread, listed, stat, changed, hashed, history>>

----------------------------------------------------------------------------
(* scanOnce applies the diff: tombstones, then changed files.              *)

Undelete(p) == [q \in DOMAIN tombstones \ {p} |-> tombstones[q]]

(* Mutant of Trashed: the file is unlinked. *)
TrashedUnkept(p) == kept[p]

(* moveToTrash keeps whatever file is at the path by now.                  *)
Trashed(p) == kept[p] \cup OnDisk(p)

applyTombstone(p) ==
    /\ phase = "apply" /\ p \in DOMAIN tombstones
    /\ kept' = [kept EXCEPT ![p] = Trashed(p)]
    /\ disk' = [disk EXCEPT ![p] = NoFile]
    /\ index' = [index EXCEPT ![p] = tombstones[p]]
    /\ tombstones' = Undelete(p)
    /\ UNCHANGED <<clock, phase, unread, listed, stat, seen, changed, hashed, history>>

(* applySend: the file is read and hashed, then its time is taken.         *)
hashFileViews(p) ==
    /\ phase = "apply" /\ DOMAIN tombstones = {} /\ hashed = NoStat /\ p \in changed
    /\ changed' = changed \ {p} /\ torn' = torn \ {p}
    /\ hashed' = IF disk[p] = NoFile THEN NoStat
                 ELSE [path |-> p, content |-> disk[p].content]
    /\ UNCHANGED <<disk, index, kept, clock, phase, unread, listed, stat, seen, tombstones, landed>>

(* Mutant of applySend: the version does not build on the entry's. *)
applySendAfresh ==
    /\ hashed # NoStat
    /\ LET p == hashed.path
       IN  index' = IF disk[p] = NoFile THEN index
                    ELSE [index EXCEPT ![p] =
                            [local |-> 1, remote |-> 0, deleted |-> FALSE,
                             content |-> hashed.content, mtime |-> disk[p].mtime]]
    /\ hashed' = NoStat
    /\ UNCHANGED <<disk, kept, clock, phase, unread, listed, stat, seen, changed, tombstones, history>>

applySend ==
    /\ hashed # NoStat
    /\ LET p == hashed.path
       IN  index' = IF disk[p] = NoFile THEN index
                    ELSE [index EXCEPT ![p] =
                            [local |-> Local(p) + 1, remote |-> Remote(p), deleted |-> FALSE,
                             content |-> hashed.content, mtime |-> disk[p].mtime]]
    /\ hashed' = NoStat
    /\ UNCHANGED <<disk, kept, clock, phase, unread, listed, stat, seen, changed, tombstones, history>>

EndScan ==
    /\ phase = "apply" /\ DOMAIN tombstones = {} /\ changed = {} /\ hashed = NoStat
    /\ phase' = "idle" /\ landed' = {}
    /\ UNCHANGED <<disk, index, kept, clock, unread, listed, stat, seen, changed, tombstones, hashed, torn>>

User == \E p \in Path : Write(p) \/ Touch(p) \/ Unlink(p)
Landing == \E p \in Path : finalizeReceive(p) \/ applyDelete(p) \/ applyConflictKeepLocal(p)
Scan ==
    \/ StartWalk \/ EndStat \/ computeTombstones \/ applySend \/ EndScan
    \/ \E dir \in Dir : readdir(dir)
    \/ \E p \in Path : Visit(p) \/ applyTombstone(p) \/ hashFileViews(p)

Next == User \/ Landing \/ Scan

(* The daemon scans again and again; users and peers may stop.             *)
Spec == Init /\ [][Next]_vars /\ WF_vars(Scan)

----------------------------------------------------------------------------
(* An entry isUnchanged accepts by its time speaks for the bytes on disk   *)
(* ("whether the entry's block hashes still stand for the bytes",          *)
(* scanner.ts), but for a file written while it was indexed: a scan that   *)
(* skips the file skips nothing, and the drift audit that uses the same    *)
(* test raises no false alarm.                                             *)
UnchangedMeansSame ==
    \A p \in Path \ torn :
        Live(index[p]) /\ disk[p] # NoFile /\ disk[p].mtime = index[p].mtime
            => disk[p].content = index[p].content

(* A scan deletes only what is missing: it never takes away a file that    *)
(* holds what the live entry of its path says, unless the path changed     *)
(* under the walk.                                                         *)
IndexedFilesStay ==
    [][\A p \in Path \ landed :
        Scan /\ Live(index[p]) /\ OnDisk(p) = {index[p].content} => disk'[p] = disk[p]]_vars

(* The same of every path, as the comment on scanFolderAsync has it ("the   *)
(* index may be moved on by the inbound synchronisation while the scan      *)
(* yields ... and the semantics stay consistent").                         *)
LandedFilesStay ==
    [][\A p \in Path :
        Scan /\ Live(index[p]) /\ OnDisk(p) = {index[p].content} => disk'[p] = disk[p]]_vars

(* An entry never goes back to one that knows less, but for paths that     *)
(* changed under the walk.                                                 *)
IndexNeverGoesBack ==
    [][\A p \in Path \ landed : index[p] # NoEntry =>
        index'[p].local >= index[p].local /\ index'[p].remote >= index[p].remote]_vars

(* A new version of a file that is there stands for a new content: what a  *)
(* peer sent is not announced again as a change of this device, but for    *)
(* paths that changed under the walk.                                      *)
OnlyEditsCount ==
    [][\A p \in Path \ landed :
        Live(index[p]) /\ index'[p].local > index[p].local /\ disk'[p] # NoFile
            => index'[p].content # index[p].content]_vars

(* Nothing the program takes off the disk is lost.                         *)
ScanNeverDestroys ==
    [][\A p \in Path :
        \/ User
        \/ OnDisk(p) \subseteq kept'[p]
        \/ disk'[p] # NoFile /\ OnDisk(p) = {disk'[p].content}]_vars

(* Scans catch up: once users and peers are quiet, the index says of every *)
(* path what the disk holds, but for files written while they were indexed.*)
CatchesUp ==
    <>[](\A p \in Path \ torn : IF disk[p] = NoFile THEN ~Live(index[p])
                         ELSE Live(index[p]) /\ index[p].content = disk[p].content)

=============================================================================
