-------------------------- MODULE FolderScanProofs --------------------------
(***************************************************************************)
(* Proofs about FolderScan for any folder and any number of writes and     *)
(* landings: what it says of an entry accepted by its time, of files and   *)
(* entries a scan leaves alone, and of what counts as an edit.             *)
(*                                                                         *)
(* ScanInv is the inductive invariant. Besides types and what each phase   *)
(* leaves empty it says: nothing on disk or in the index is younger than   *)
(* the clock (Past); an entry may lie about the bytes only for a torn path *)
(* that is not to be indexed again (EntriesSpeak); the entry read before a *)
(* stat is still the path's, unless a landing replaced it (StatCurrent);   *)
(* a path that is to be buried or indexed again really differs from its    *)
(* entry, unless it landed meanwhile (Differ); and a tombstone is made     *)
(* from the entry it is going to replace (TombstonesCurrent).              *)
(***************************************************************************)
EXTENDS FolderScan, TLAPS

File == [content : Nat, mtime : Nat]
Entry == [local : Nat, remote : Nat, deleted : BOOLEAN, content : Nat, mtime : Nat]

TypeOK ==
    /\ disk \in [Path -> File \cup {NoFile}]
    /\ index \in [Path -> Entry \cup {NoEntry}]
    /\ kept \in [Path -> SUBSET Nat]
    /\ clock \in Nat
    /\ phase \in {"idle", "walk", "apply"}
    /\ unread \subseteq Dir
    /\ listed \subseteq Path /\ seen \subseteq Path /\ changed \subseteq Path
    /\ stat \in [path : Path, prev : Entry] \cup {NoStat}
    /\ hashed \in [path : Path, content : Nat] \cup {NoStat}
    /\ tombstones \in [DOMAIN tombstones -> Entry] /\ DOMAIN tombstones \subseteq Path
    /\ landed \subseteq Path /\ torn \subseteq Path

(* What the phases leave empty. *)
Phases ==
    /\ phase # "walk" => unread = {} /\ listed = {} /\ seen = {} /\ stat = NoStat
    /\ phase # "apply" => DOMAIN tombstones = {} /\ hashed = NoStat
    /\ phase = "idle" => changed = {}
    /\ hashed # NoStat => DOMAIN tombstones = {} /\ hashed.path \notin changed

(* Contents and times are of the past. *)
Old(record) == record.content <= clock /\ record.mtime <= clock
Past ==
    /\ \A p \in Path : disk[p] # NoFile => Old(disk[p])
    /\ \A p \in Path : index[p] # NoEntry => Old(index[p])
    /\ stat # NoStat => Old(stat.prev)
    /\ hashed # NoStat => hashed.content <= clock

(* The entry of p, if its time is that of the file, speaks for the bytes. *)
Speaks(p) ==
    Live(index[p]) /\ disk[p] # NoFile /\ disk[p].mtime = index[p].mtime
        => disk[p].content = index[p].content

EntriesSpeak ==
    /\ \A p \in Path : p \notin torn \/ p \in changed => Speaks(p)
    /\ hashed # NoStat /\ hashed.path \notin torn =>
          disk[hashed.path] = NoFile \/ disk[hashed.path].content = hashed.content

StatCurrent ==
    stat # NoStat =>
        LET p == stat.path
        IN  /\ Live(stat.prev)
            /\ p \notin landed => index[p] = stat.prev
            /\ \/ Speaks(p)
               \/ index[p].content = stat.prev.content /\ index[p].mtime = stat.prev.mtime

(* The file at p is not the one the entry of p lists. *)
Differs(p) == Live(index[p]) => OnDisk(p) # {index[p].content}

(* Paths the walk has passed without seeing a file. *)
Passed == {p \in Path : phase = "walk" /\ DirOf[p] \notin unread /\ p \notin listed \cup seen}

Differ ==
    /\ \A p \in (Passed \cup changed \cup DOMAIN tombstones) \ landed : Differs(p)
    /\ hashed # NoStat /\ hashed.path \notin landed /\ Live(index[hashed.path])
          => hashed.content # index[hashed.path].content

TombstonesCurrent ==
    \A p \in DOMAIN tombstones :
        /\ Live(index[p])
        /\ tombstones[p] = [index[p] EXCEPT !.local = @ + 1, !.deleted = TRUE]

ScanInv ==
    TypeOK /\ Phases /\ Past /\ EntriesSpeak /\ StatCurrent /\ Differ /\ TombstonesCurrent

----------------------------------------------------------------------------
LEMMA InitInv == Init => ScanInv
  BY DEF Init, ScanInv, TypeOK, Phases, Past, EntriesSpeak, Speaks, StatCurrent, Differ, Differs,
         Passed, TombstonesCurrent, Live

(* A user's write is younger than everything recorded. *)
LEMMA WriteInv ==
    ASSUME ScanInv, NEW p \in Path, Write(p)
    PROVE  ScanInv'
  <1> USE DEF ScanInv, Write, Tick, scanVars
  <1>1. /\ disk' = [disk EXCEPT ![p] = [content |-> clock + 1, mtime |-> clock + 1]]
        /\ clock' = clock + 1
    OBVIOUS
  <1>2. TypeOK'
    BY <1>1 DEF TypeOK, File
  <1>3. Phases'
    BY DEF Phases
  <1>4. Past'
    BY <1>1, <1>2 DEF Past, Old, TypeOK, Entry, File
  <1>5. EntriesSpeak'
    BY <1>1 DEF EntriesSpeak, Speaks, Past, Old, TypeOK, Entry, File, Live, Hashing
  <1>6. StatCurrent'
    BY <1>1 DEF StatCurrent, Speaks, Past, Old, TypeOK, Entry, File, Live
  <1>7. Differ'
    <2>1. OnDisk(p)' \in {{}, {clock + 1}} /\ \A q \in Path \ {p} : OnDisk(q)' = OnDisk(q)
      BY <1>1 DEF OnDisk, TypeOK
    <2>2. \A q \in Path : Live(index[q]) => index[q].content <= clock /\ index[q].content \in Nat
      BY DEF Past, Old, TypeOK, Entry, Live
    <2>3. clock \in Nat
      BY DEF TypeOK
    <2>4. \A q \in Path : Differs(q) => Differs(q)'
      BY <2>1, <2>2, <2>3 DEF Differs
    <2> QED  BY <2>4 DEF Differ, Passed, TypeOK
  <1>8. TombstonesCurrent'
    BY DEF TombstonesCurrent, Live
  <1> QED  BY <1>2, <1>3, <1>4, <1>5, <1>6, <1>7, <1>8

LEMMA TouchInv ==
    ASSUME ScanInv, NEW p \in Path, Touch(p)
    PROVE  ScanInv'
  <1> USE DEF ScanInv, Touch, Tick, scanVars, history
  <1>1. /\ disk' = [disk EXCEPT ![p].mtime = clock + 1] /\ disk[p] \in File
        /\ clock' = clock + 1
    BY DEF TypeOK
  <1>2. TypeOK'
    BY <1>1 DEF TypeOK, File
  <1>3. Phases'
    BY DEF Phases
  <1>4. Past'
    BY <1>1, <1>2 DEF Past, Old, TypeOK, Entry, File
  <1>5. EntriesSpeak'
    BY <1>1 DEF EntriesSpeak, Speaks, Past, Old, TypeOK, Entry, File, Live
  <1>6. StatCurrent'
    BY <1>1 DEF StatCurrent, Speaks, Past, Old, TypeOK, Entry, File, Live
  <1>7. Differ'
    <2>1. \A q \in Path : OnDisk(q)' \in {{}, OnDisk(q)}
      BY <1>1 DEF OnDisk, TypeOK, File
    <2>2. \A q \in Path : Differs(q) => Differs(q)'
      BY <2>1 DEF Differs
    <2> QED  BY <2>2 DEF Differ, Passed, TypeOK
  <1>8. TombstonesCurrent'
    BY DEF TombstonesCurrent, Live
  <1> QED  BY <1>2, <1>3, <1>4, <1>5, <1>6, <1>7, <1>8

LEMMA UnlinkInv ==
    ASSUME ScanInv, NEW p \in Path, Unlink(p)
    PROVE  ScanInv'
  <1> USE DEF ScanInv, Unlink, Tick, scanVars, history
  <1>1. disk' = [disk EXCEPT ![p] = NoFile] /\ clock' = clock + 1
    OBVIOUS
  <1>2. TypeOK'
    BY <1>1 DEF TypeOK
  <1>3. Phases'
    BY DEF Phases
  <1>4. Past'
    BY <1>1, <1>2 DEF Past, Old, TypeOK, Entry, File
  <1>5. EntriesSpeak'
    BY <1>1 DEF EntriesSpeak, Speaks, TypeOK, Live
  <1>6. StatCurrent'
    BY <1>1 DEF StatCurrent, Speaks, TypeOK, Live
  <1>7. Differ'
    BY <1>1 DEF Differ, Differs, Passed, TypeOK, Live, OnDisk
  <1>8. TombstonesCurrent'
    BY DEF TombstonesCurrent, Live
  <1> QED  BY <1>2, <1>3, <1>4, <1>5, <1>6, <1>7, <1>8

----------------------------------------------------------------------------
(* What the three landings have in common: they put file f and entry e at  *)
(* p, which agree if either is new, and not while a scan applies its diff. *)
LEMMA LandingInv ==
    ASSUME ScanInv, NEW p \in Path, Lands(p), UNCHANGED <<scanVars, torn>>,
           NEW f \in File \cup {NoFile}, NEW e \in Entry,
           disk' = [disk EXCEPT ![p] = f], index' = [index EXCEPT ![p] = e],
           kept' \in [Path -> SUBSET Nat],
           f # NoFile => f.content <= clock + 1 /\ f.mtime <= clock + 1,
           e.content <= clock + 1 /\ e.mtime <= clock + 1,
           \/ e.deleted \/ f = NoFile \/ f.content = e.content
           \/ /\ f = disk[p] /\ Live(index[p])
              /\ e.content = index[p].content /\ e.mtime = index[p].mtime
    PROVE  ScanInv'
  <1> USE DEF ScanInv, Lands, Tick, scanVars
  <1>1. /\ hashed = NoStat /\ DOMAIN tombstones = {}
        /\ phase = "idle" => changed = {} /\ stat = NoStat /\ Passed = {}
        /\ phase = "walk" => p \in landed'
    BY DEF Phases, Passed
  <1>2. \A q \in Path \ {p} : disk'[q] = disk[q] /\ index'[q] = index[q]
    BY DEF TypeOK
  <1>3. disk'[p] = f /\ index'[p] = e
    BY DEF TypeOK
  <1>4. TypeOK'
    <2>1. disk' \in [Path -> File \cup {NoFile}] /\ index' \in [Path -> Entry \cup {NoEntry}]
      BY DEF TypeOK
    <2>2. clock' \in Nat /\ landed' \subseteq Path
      BY DEF TypeOK
    <2> QED  BY <2>1, <2>2 DEF TypeOK
  <1>5. Phases'
    BY DEF Phases
  <1>6. Past'
    BY <1>2, <1>3, <1>4 DEF Past, Old, TypeOK, Entry, File
  <1>7. \A q \in Path : Speaks(q) => Speaks(q)'
    BY <1>2, <1>3 DEF Speaks, Live
  <1>8. EntriesSpeak'
    BY <1>1, <1>7 DEF EntriesSpeak
  <1>9. StatCurrent'
    <2>1. CASE stat = NoStat
      BY <2>1 DEF StatCurrent
    <2>2. CASE stat # NoStat
      <3>1. stat.path \in Path
        BY <2>2 DEF TypeOK
      <3>2. phase = "walk"
        BY <2>2 DEF Phases
      <3>3. CASE stat.path = p
        BY <1>1, <1>3, <1>7, <2>2, <3>2, <3>3 DEF StatCurrent, Speaks, Live
      <3>4. CASE stat.path # p
        BY <1>2, <1>7, <2>2, <3>1, <3>4, <3>2 DEF StatCurrent
      <3> QED  BY <3>3, <3>4
    <2> QED  BY <2>1, <2>2
  <1>10. Differ'
    <2>1. \A q \in Path \ {p} : Differs(q) => Differs(q)'
      BY <1>2 DEF Differs, OnDisk
    <2> QED  BY <1>1, <2>1 DEF Differ, Passed, TypeOK
  <1>11. TombstonesCurrent'
    BY <1>1 DEF TombstonesCurrent
  <1> QED  BY <1>4, <1>5, <1>6, <1>8, <1>9, <1>10, <1>11

LEMMA OnDiskType ==
    ASSUME ScanInv, NEW p \in Path
    PROVE  OnDisk(p) \subseteq 0..clock
  BY DEF ScanInv, TypeOK, Past, Old, OnDisk, File

LEMMA FinalizeInv ==
    ASSUME ScanInv, NEW p \in Path, finalizeReceive(p)
    PROVE  ScanInv'
  <1>1. /\ index \in [Path -> Entry \cup {NoEntry}] /\ disk \in [Path -> File \cup {NoFile}]
        /\ kept \in [Path -> SUBSET Nat] /\ clock \in Nat /\ clock' = clock + 1
    BY DEF ScanInv, TypeOK, finalizeReceive, Lands, Tick
  <1>2. Local(p) \in Nat /\ Remote(p) \in Nat
    BY <1>1 DEF Local, Remote, Entry
  <1>3. PICK content \in {clock'} \cup (IF Live(index[p]) THEN OnDisk(p) ELSE {}) :
           /\ disk' = [disk EXCEPT ![p] = [content |-> content, mtime |-> clock']]
           /\ index' = [index EXCEPT ![p] =
                [local |-> Local(p), remote |-> Remote(p) + 1, deleted |-> FALSE,
                 content |-> content, mtime |-> clock']]
    BY DEF finalizeReceive
  <1> DEFINE f == [content |-> content, mtime |-> clock']
             e == [local |-> Local(p), remote |-> Remote(p) + 1, deleted |-> FALSE,
                   content |-> content, mtime |-> clock']
  <1>4. content \in Nat /\ content <= clock + 1
    BY <1>1, <1>3, OnDiskType
  <1>5. f \in File /\ e \in Entry
    BY <1>1, <1>2, <1>4 DEF File, Entry
  <1>6. /\ f.content = e.content /\ f.content <= clock + 1 /\ f.mtime <= clock + 1
        /\ e.content <= clock + 1 /\ e.mtime <= clock + 1
    BY <1>1, <1>4
  <1>7. kept' \in [Path -> SUBSET Nat]
    BY <1>1, OnDiskType DEF finalizeReceive
  <1>8. Lands(p) /\ UNCHANGED <<scanVars, torn>>
    BY DEF finalizeReceive
  <1>9. disk' = [disk EXCEPT ![p] = f] /\ index' = [index EXCEPT ![p] = e]
    BY <1>3
  <1> HIDE DEF f, e
  <1> QED  BY <1>5, <1>6, <1>7, <1>8, <1>9, LandingInv

LEMMA DeleteInv ==
    ASSUME ScanInv, NEW p \in Path, applyDelete(p)
    PROVE  ScanInv'
  <1> DEFINE e == [index[p] EXCEPT !.remote = @ + 1, !.deleted = TRUE]
  <1>1. /\ index[p] \in Entry /\ Old(index[p]) /\ clock \in Nat
        /\ kept \in [Path -> SUBSET Nat]
    BY DEF ScanInv, TypeOK, Past, applyDelete, Live
  <1>2. e \in Entry /\ e.content = index[p].content /\ e.mtime = index[p].mtime /\ e.deleted
    <2> DEFINE r == index[p]
               n == r.remote + 1
    <2>1. r \in Entry /\ n \in Nat
      BY <1>1 DEF Entry
    <2>2. e = [r EXCEPT !.remote = n, !.deleted = TRUE]
      OBVIOUS
    <2> HIDE DEF r, n, e
    <2>3. e \in Entry
      BY <2>1, <2>2 DEF Entry
    <2>4. e.deleted = TRUE
      BY <2>1, <2>2 DEF Entry
    <2>5. e.content = r.content /\ e.mtime = r.mtime
      BY <2>1, <2>2 DEF Entry
    <2> QED  BY <2>3, <2>4, <2>5 DEF r
  <1>3. e.content <= clock + 1 /\ e.mtime <= clock + 1
    BY <1>1, <1>2 DEF Entry, Old
  <1>4. kept' \in [Path -> SUBSET Nat]
    BY <1>1, OnDiskType DEF applyDelete
  <1>5. Lands(p) /\ UNCHANGED <<scanVars, torn>> /\ disk' = [disk EXCEPT ![p] = NoFile]
    BY DEF applyDelete
  <1>6. index' = [index EXCEPT ![p] = e]
    BY DEF applyDelete, ScanInv, TypeOK
  <1> HIDE DEF e
  <1> QED  BY <1>2, <1>3, <1>4, <1>5, <1>6, LandingInv

LEMMA KeepLocalInv ==
    ASSUME ScanInv, NEW p \in Path, applyConflictKeepLocal(p)
    PROVE  ScanInv'
  <1> DEFINE e == [index[p] EXCEPT !.remote = @ + 1]
             f == disk[p]
  <1>1. /\ index[p] \in Entry /\ Old(index[p]) /\ clock \in Nat /\ Live(index[p])
        /\ kept' \in [Path -> SUBSET Nat]
        /\ f \in File \cup {NoFile} /\ (f # NoFile => Old(f))
    BY DEF ScanInv, TypeOK, Past, applyConflictKeepLocal, Live
  <1>2. /\ e \in Entry /\ e.content <= clock + 1 /\ e.mtime <= clock + 1
        /\ e.content = index[p].content /\ e.mtime = index[p].mtime
    BY <1>1 DEF Entry, Old
  <1>3. f # NoFile => f.content <= clock + 1 /\ f.mtime <= clock + 1
    BY <1>1 DEF File, Old
  <1>4. Lands(p) /\ UNCHANGED <<scanVars, torn>> /\ disk' = [disk EXCEPT ![p] = f]
    BY DEF applyConflictKeepLocal, ScanInv, TypeOK
  <1>5. index' = [index EXCEPT ![p] = e]
    BY DEF applyConflictKeepLocal, ScanInv, TypeOK
  <1> HIDE DEF e
  <1> QED  BY <1>1, <1>2, <1>3, <1>4, <1>5, LandingInv

----------------------------------------------------------------------------
(* The walk.                                                               *)
LEMMA StartInv ==
    ASSUME ScanInv, StartWalk
    PROVE  ScanInv'
  <1> USE DEF ScanInv, StartWalk, history
  <1>1. stat = NoStat /\ hashed = NoStat /\ changed = {} /\ DOMAIN tombstones = {}
    BY DEF Phases
  <1>2. Passed' = {}
    BY DirAssumption DEF Passed
  <1>3. TypeOK' /\ Past'
    BY DEF TypeOK, Past, Old
  <1>4. Phases' /\ StatCurrent' /\ TombstonesCurrent'
    BY <1>1 DEF Phases, StatCurrent, TombstonesCurrent
  <1>5. EntriesSpeak' /\ Differ'
    BY <1>1, <1>2 DEF EntriesSpeak, Speaks, Differ
  <1> QED  BY <1>3, <1>4, <1>5

(* What the listing passes over is not on disk. *)
LEMMA ReaddirInv ==
    ASSUME ScanInv, NEW dir \in Dir, readdir(dir)
    PROVE  ScanInv'
  <1> USE DEF ScanInv, readdir, history
  <1>1. stat = NoStat /\ hashed = NoStat /\ DOMAIN tombstones = {}
    BY DEF Phases
  <1>2. \A p \in Passed' : p \in Passed \/ disk[p] = NoFile
    BY DEF Passed
  <1>3. TypeOK' /\ Past'
    BY DEF TypeOK, Past, Old
  <1>4. Phases' /\ StatCurrent' /\ TombstonesCurrent'
    BY <1>1 DEF Phases, StatCurrent, TombstonesCurrent
  <1>5. EntriesSpeak'
    BY <1>1 DEF EntriesSpeak, Speaks
  <1>6. Differ'
    BY <1>1, <1>2 DEF Differ, Differs, OnDisk
  <1> QED  BY <1>3, <1>4, <1>5, <1>6

LEMMA VisitInv ==
    ASSUME ScanInv, NEW p \in Path, Visit(p)
    PROVE  ScanInv'
  <1> USE DEF ScanInv, Visit, history
  <1>1. stat = NoStat /\ hashed = NoStat /\ DOMAIN tombstones = {}
    BY DEF Phases
  <1>2. Passed' = Passed
    BY DEF Passed
  <1>3. \/ changed' = changed
        \/ ~Live(index[p]) /\ changed' = changed \cup {p}
    OBVIOUS
  <1>4. \/ stat' = NoStat
        \/ Live(index[p]) /\ stat' = [path |-> p, prev |-> index[p]]
    BY <1>1
  <1>5. TypeOK'
    <2>1. changed' \subseteq Path
      BY <1>3 DEF TypeOK
    <2>2. stat' \in [path : Path, prev : Entry] \cup {NoStat}
      BY <1>4 DEF TypeOK, Live
    <2> QED  BY <2>1, <2>2 DEF TypeOK
  <1>6. Past'
    BY <1>1, <1>4 DEF Past, Old, Live
  <1>7. Phases' /\ TombstonesCurrent'
    BY <1>1, <1>3 DEF Phases, TombstonesCurrent
  <1>8. StatCurrent'
    BY <1>4 DEF StatCurrent, Speaks, Live
  <1>9. EntriesSpeak'
    BY <1>1, <1>3 DEF EntriesSpeak, Speaks
  <1>10. Differ'
    BY <1>1, <1>2, <1>3 DEF Differ, Differs, OnDisk
  <1> QED  BY <1>5, <1>6, <1>7, <1>8, <1>9, <1>10

(* The three ways a stat ends: nothing new, a new time, a new content. *)
LEMMA EndStatCases ==
    ASSUME ScanInv, EndStat
    PROVE  LET p == stat.path
               prev == stat.prev
           IN  /\ p \in Path /\ prev \in Entry /\ phase = "walk"
               /\ \/ changed' = changed /\ index' = index
                  \/ /\ disk[p] # NoFile /\ disk[p].content = prev.content
                     /\ changed' = changed
                     /\ index' = [index EXCEPT ![p] = [prev EXCEPT !.mtime = disk[p].mtime]]
                  \/ /\ disk[p] # NoFile /\ disk[p].content # prev.content
                     /\ disk[p].mtime # prev.mtime
                     /\ changed' = changed \cup {p} /\ index' = index
  <1>1. stat.path \in Path /\ stat.prev \in Entry
    BY DEF ScanInv, TypeOK, EndStat
  <1>2. phase = "walk"
    BY DEF ScanInv, Phases, EndStat
  <1> QED  BY <1>1, <1>2 DEF EndStat

LEMMA EndStatInv ==
    ASSUME ScanInv, EndStat
    PROVE  ScanInv'
  <1>1. stat.path \in Path /\ stat.prev \in Entry /\ phase = "walk"
    BY EndStatCases, Zenon
  <1>. PICK p \in Path, prev \in Entry : p = stat.path /\ prev = stat.prev
    BY <1>1
  <1> DEFINE retimed == [prev EXCEPT !.mtime = disk[p].mtime]
  <1>2. /\ hashed = NoStat /\ DOMAIN tombstones = {} /\ stat # NoStat /\ stat' = NoStat
        /\ UNCHANGED <<disk, kept, clock, phase, unread, listed, seen, tombstones, hashed, history>>
    BY <1>1 DEF ScanInv, Phases, EndStat
  <1>3. \/ changed' = changed /\ index' = index
        \/ /\ disk[p] # NoFile /\ disk[p].content = prev.content
           /\ changed' = changed /\ index' = [index EXCEPT ![p] = retimed]
        \/ /\ disk[p] # NoFile /\ disk[p].content # prev.content /\ disk[p].mtime # prev.mtime
           /\ changed' = changed \cup {p} /\ index' = index
    BY EndStatCases, Zenon
  <1>4. /\ Live(prev)
        /\ p \notin landed => index[p] = prev
        /\ Speaks(p) \/ (index[p].content = prev.content /\ index[p].mtime = prev.mtime)
    BY <1>2 DEF ScanInv, StatCurrent
  <1>5. disk[p] # NoFile =>
          /\ retimed \in Entry /\ retimed.mtime = disk[p].mtime
          /\ retimed.content = prev.content
    BY <1>1 DEF ScanInv, TypeOK, Entry, File
  <1>6. Passed' = Passed
    BY <1>2 DEF Passed
  <1> HIDE DEF retimed
  <1>7. TypeOK' /\ Past'
    <2>1. index' \in [Path -> Entry \cup {NoEntry}] /\ changed' \subseteq Path
      BY <1>1, <1>3, <1>5 DEF ScanInv, TypeOK
    <2>2. TypeOK'
      BY <1>2, <2>1 DEF ScanInv, TypeOK, history
    <2>3. Old(prev)
      BY <1>2 DEF ScanInv, Past
    <2>4. \A q \in Path : index'[q] # NoEntry => Old(index'[q])
      BY <1>1, <1>3, <1>5, <2>3 DEF ScanInv, Past, Old, TypeOK
    <2>5. Past'
      BY <1>2, <2>4 DEF ScanInv, Past, Old
    <2> QED  BY <2>2, <2>5
  <1>8. Phases' /\ StatCurrent' /\ TombstonesCurrent'
    BY <1>1, <1>2 DEF ScanInv, Phases, StatCurrent, TombstonesCurrent
  <1>9. EntriesSpeak'
    <2>1. \A q \in Path : Speaks(q) => Speaks(q)'
      BY <1>1, <1>2, <1>3, <1>5 DEF ScanInv, TypeOK, Speaks
    <2>2. p \in changed' /\ p \notin changed => Speaks(p)'
      BY <1>2, <1>3, <1>4 DEF Speaks
    <2>3. \A q \in changed' : q \in changed \/ q = p
      BY <1>3
    <2> QED  BY <1>1, <1>2, <2>1, <2>2, <2>3 DEF ScanInv, EntriesSpeak, history
  <1>10. Differ'
    <2>1. \A q \in Path \ landed : Differs(q) => Differs(q)'
      <3>1. ASSUME p \notin landed, Differs(p) PROVE Differs(p)'
        BY <1>2, <1>3, <1>4, <3>1 DEF Differs, OnDisk
      <3>2. \A q \in Path \ {p} : Differs(q) => Differs(q)'
        BY <1>2, <1>3 DEF ScanInv, TypeOK, Differs, OnDisk
      <3> QED  BY <3>1, <3>2
    <2>2. p \in changed' /\ p \notin changed /\ p \notin landed => Differs(p)'
      BY <1>2, <1>3, <1>4 DEF Differs, OnDisk
    <2>3. \A q \in changed' : q \in changed \/ q = p
      BY <1>3
    <2>4. changed \cup Passed \subseteq Path
      BY DEF ScanInv, TypeOK, Passed
    <2> QED  BY <1>2, <1>6, <2>1, <2>2, <2>3, <2>4 DEF ScanInv, Differ, history
  <1> QED  BY <1>7, <1>8, <1>9, <1>10 DEF ScanInv

(* A tombstone is an entry. *)
LEMMA BuriedEntry == \A r \in Entry : [r EXCEPT !.local = @ + 1, !.deleted = TRUE] \in Entry
  <1>1. \A r \in Entry : r.local + 1 \in Nat
    BY DEF Entry
  <1>2. \A r \in Entry, n \in Nat : [r EXCEPT !.local = n, !.deleted = TRUE] \in Entry
    BY DEF Entry
  <1> QED  BY <1>1, <1>2

(* What is missing was passed, so it differs from its entry. *)
LEMMA ComputeInv ==
    ASSUME ScanInv, computeTombstones
    PROVE  ScanInv'
  <1> USE DEF ScanInv, computeTombstones, history
  <1>1. stat = NoStat /\ hashed = NoStat /\ listed = {} /\ unread = {}
    BY DEF Phases
  <1>2. /\ DOMAIN tombstones' = Missing
        /\ \A p \in Missing : tombstones'[p] = [index[p] EXCEPT !.local = @ + 1, !.deleted = TRUE]
    OBVIOUS
  <1>3. \A p \in Missing : Live(index[p]) /\ p \in Passed /\ index[p] \in Entry
    BY <1>1 DEF Missing, Passed, TypeOK, Live
  <1>4. Passed' = {}
    BY DEF Passed
  <1>5. TypeOK'
    <2>1. Missing \subseteq Path
      BY DEF Missing
    <2>2. \A p \in Missing : [index[p] EXCEPT !.local = @ + 1, !.deleted = TRUE] \in Entry
      BY <1>3, BuriedEntry
    <2>3. tombstones' \in [DOMAIN tombstones' -> Entry]
      BY <1>2, <2>2
    <2> QED  BY <1>2, <2>1, <2>3 DEF TypeOK
  <1>6. Past' /\ EntriesSpeak' /\ StatCurrent'
    BY <1>1 DEF Past, Old, EntriesSpeak, Speaks, StatCurrent
  <1>7. Phases'
    BY <1>1 DEF Phases
  <1>8. Differ'
    BY <1>1, <1>2, <1>3, <1>4 DEF Differ, Differs, OnDisk
  <1>9. TombstonesCurrent'
    BY <1>2, <1>3 DEF TombstonesCurrent
  <1> QED  BY <1>5, <1>6, <1>7, <1>8, <1>9

----------------------------------------------------------------------------
(* The diff is applied: nothing lands meanwhile.                           *)
LEMMA TombstoneInv ==
    ASSUME ScanInv, NEW p \in Path, applyTombstone(p)
    PROVE  ScanInv'
  <1> USE DEF ScanInv, applyTombstone, history
  <1>1. stat = NoStat /\ hashed = NoStat /\ Passed = {} /\ Passed' = {} /\ p \in DOMAIN tombstones
    BY DEF Phases, Passed
  <1>2. /\ disk' = [disk EXCEPT ![p] = NoFile] /\ index' = [index EXCEPT ![p] = tombstones[p]]
        /\ DOMAIN tombstones' = DOMAIN tombstones \ {p}
        /\ \A q \in DOMAIN tombstones' : tombstones'[q] = tombstones[q]
    BY DEF Undelete
  <1>3. /\ index[p] \in Entry /\ Live(index[p]) /\ tombstones[p] \in Entry
        /\ tombstones[p] = [index[p] EXCEPT !.local = @ + 1, !.deleted = TRUE]
    BY <1>1 DEF TypeOK, TombstonesCurrent, Live
  <1>4. /\ tombstones[p].content = index[p].content /\ tombstones[p].mtime = index[p].mtime
        /\ ~Live(tombstones[p])
    BY <1>3 DEF Entry, Live
  <1>5. /\ disk'[p] = NoFile /\ index'[p] = tombstones[p]
        /\ \A q \in Path \ {p} : disk'[q] = disk[q] /\ index'[q] = index[q]
    BY <1>2 DEF TypeOK
  <1>6. TypeOK'
    <2>1. disk' \in [Path -> File \cup {NoFile}] /\ index' \in [Path -> Entry \cup {NoEntry}]
      BY <1>2, <1>3 DEF TypeOK
    <2>2. kept' \in [Path -> SUBSET Nat]
      BY OnDiskType DEF TypeOK, Trashed
    <2>3. tombstones' \in [DOMAIN tombstones' -> Entry] /\ DOMAIN tombstones' \subseteq Path
      <3>1. \A q \in DOMAIN tombstones' : tombstones'[q] \in Entry
        BY <1>2 DEF TypeOK
      <3> QED  BY <1>2, <3>1 DEF Undelete, TypeOK
    <2> QED  BY <2>1, <2>2, <2>3 DEF TypeOK
  <1>7. Past'
    BY <1>1, <1>3, <1>4, <1>5 DEF Past, Old, Live
  <1>8. Phases' /\ StatCurrent'
    BY <1>1, <1>2 DEF Phases, StatCurrent
  <1>9. EntriesSpeak'
    BY <1>1, <1>5 DEF EntriesSpeak, Speaks
  <1>10. Differ'
    <2>1. \A q \in Path : Differs(q) => Differs(q)'
      BY <1>4, <1>5 DEF Differs, OnDisk
    <2> QED  BY <1>1, <1>2, <2>1 DEF Differ, TypeOK
  <1>11. TombstonesCurrent'
    BY <1>2, <1>5 DEF TombstonesCurrent, TypeOK
  <1> QED  BY <1>6, <1>7, <1>8, <1>9, <1>10, <1>11

LEMMA HashInv ==
    ASSUME ScanInv, NEW p \in Path, hashFileViews(p)
    PROVE  ScanInv'
  <1> USE DEF ScanInv, hashFileViews
  <1>1. /\ stat = NoStat /\ Passed = {} /\ Passed' = {} /\ DOMAIN tombstones = {}
        /\ p \in changed /\ Speaks(p) /\ (p \notin landed => Differs(p))
    BY DEF Phases, Passed, EntriesSpeak, Differ
  <1>2. \/ hashed' = NoStat
        \/ disk[p] # NoFile /\ hashed' = [path |-> p, content |-> disk[p].content]
    OBVIOUS
  <1>3. TypeOK'
    BY <1>2 DEF TypeOK, File
  <1>4. Past'
    BY <1>1, <1>2 DEF Past, Old
  <1>5. Phases' /\ StatCurrent' /\ TombstonesCurrent'
    BY <1>1, <1>2 DEF Phases, StatCurrent, TombstonesCurrent
  <1>6. EntriesSpeak'
    BY <1>1, <1>2 DEF EntriesSpeak, Speaks
  <1>7. Differ'
    BY <1>1, <1>2 DEF Differ, Differs, OnDisk
  <1> QED  BY <1>3, <1>4, <1>5, <1>6, <1>7

(* The entry a finished hash is recorded with. *)
LEMMA SendCases ==
    ASSUME ScanInv, applySend
    PROVE  \E p \in Path, entry \in Entry :
              /\ hashed.path = p /\ p \notin changed
              /\ \/ disk[p] = NoFile /\ index' = index
                 \/ disk[p] # NoFile /\ index' = [index EXCEPT ![p] = entry]
              /\ entry.local = Local(p) + 1 /\ entry.remote = Remote(p)
              /\ entry.content = hashed.content
              /\ disk[p] # NoFile => entry.mtime = disk[p].mtime
  <1> DEFINE p == hashed.path
             mtime == IF disk[p] = NoFile THEN 0 ELSE disk[p].mtime
             entry == [local |-> Local(p) + 1, remote |-> Remote(p), deleted |-> FALSE,
                       content |-> hashed.content, mtime |-> mtime]
  <1>1. /\ p \in Path /\ p \notin changed /\ hashed.content \in Nat
        /\ index[p] \in Entry \cup {NoEntry} /\ disk[p] \in File \cup {NoFile}
    BY DEF ScanInv, TypeOK, Phases, applySend
  <1>2. Local(p) \in Nat /\ Remote(p) \in Nat /\ mtime \in Nat
    BY <1>1 DEF Local, Remote, Entry, File
  <1>3. entry \in Entry
    BY <1>1, <1>2 DEF Entry
  <1>4. \/ disk[p] = NoFile /\ index' = index
        \/ disk[p] # NoFile /\ index' = [index EXCEPT ![p] = entry]
    BY DEF applySend
  <1>5. /\ entry.local = Local(p) + 1 /\ entry.remote = Remote(p)
        /\ entry.content = hashed.content
        /\ disk[p] # NoFile => entry.mtime = disk[p].mtime
    OBVIOUS
  <1> HIDE DEF entry
  <1> QED  BY <1>1, <1>3, <1>4, <1>5

LEMMA SendInv ==
    ASSUME ScanInv, applySend
    PROVE  ScanInv'
  <1>1. PICK p \in Path, entry \in Entry :
              /\ hashed.path = p /\ p \notin changed
              /\ \/ disk[p] = NoFile /\ index' = index
                 \/ disk[p] # NoFile /\ index' = [index EXCEPT ![p] = entry]
              /\ entry.content = hashed.content
              /\ disk[p] # NoFile => entry.mtime = disk[p].mtime
    BY SendCases
  <1> USE DEF ScanInv, applySend, history
  <1>2. /\ stat = NoStat /\ hashed' = NoStat /\ DOMAIN tombstones = {}
        /\ Passed = {} /\ Passed' = {}
    BY DEF Phases, Passed
  <1>3. /\ \A q \in Path \ {p} : index'[q] = index[q]
        /\ \/ disk[p] = NoFile /\ index'[p] = index[p]
           \/ disk[p] # NoFile /\ index'[p] = entry
    BY <1>1 DEF TypeOK
  <1>4. TypeOK'
    BY <1>1, <1>2 DEF TypeOK
  <1>5. Past'
    BY <1>1, <1>2, <1>3 DEF Past, Old
  <1>6. Phases' /\ StatCurrent' /\ TombstonesCurrent'
    BY <1>2 DEF Phases, StatCurrent, TombstonesCurrent
  <1>7. EntriesSpeak'
    BY <1>1, <1>2, <1>3 DEF EntriesSpeak, Speaks
  <1>8. Differ'
    BY <1>1, <1>2, <1>3 DEF Differ, Differs, OnDisk, TypeOK
  <1> QED  BY <1>4, <1>5, <1>6, <1>7, <1>8

LEMMA EndInv ==
    ASSUME ScanInv, EndScan
    PROVE  ScanInv'
  <1> USE DEF ScanInv, EndScan
  <1>1. stat = NoStat /\ Passed' = {}
    BY DEF Phases, Passed
  <1>2. TypeOK' /\ Past'
    BY DEF TypeOK, Past, Old
  <1>3. Phases' /\ StatCurrent' /\ TombstonesCurrent'
    BY <1>1 DEF Phases, StatCurrent, TombstonesCurrent
  <1>4. EntriesSpeak' /\ Differ'
    BY <1>1 DEF EntriesSpeak, Speaks, Differ
  <1> QED  BY <1>2, <1>3, <1>4

LEMMA NextInv == ScanInv /\ [Next]_vars => ScanInv'
  <1> SUFFICES ASSUME ScanInv, [Next]_vars PROVE ScanInv'
    OBVIOUS
  <1>1. CASE User
    BY <1>1, WriteInv, TouchInv, UnlinkInv, Zenon DEF User
  <1>2. CASE Landing
    BY <1>2, FinalizeInv, DeleteInv, KeepLocalInv, Zenon DEF Landing
  <1>3. CASE Scan
    BY <1>3, StartInv, ReaddirInv, VisitInv, EndStatInv, ComputeInv, TombstoneInv, HashInv,
       SendInv, EndInv, Zenon DEF Scan
  <1>4. CASE UNCHANGED vars
    BY <1>4 DEF vars, scanVars, history, ScanInv, TypeOK, Phases, Past, Old, EntriesSpeak, Speaks,
                StatCurrent, Differ, Differs, Passed, OnDisk, TombstonesCurrent
  <1> QED  BY <1>1, <1>2, <1>3, <1>4 DEF Next

LEMMA SpecInv == Spec => []ScanInv
  BY InitInv, NextInv, PTL DEF Spec

(* Whatever users write and peers send during a scan: an entry with the    *)
(* file's time speaks for the bytes, unless the file was written between   *)
(* being hashed and having its time taken.                                 *)
THEOREM UnchangedIsSame == Spec => []UnchangedMeansSame
  <1>1. ScanInv => UnchangedMeansSame
    BY DEF ScanInv, EntriesSpeak, Speaks, UnchangedMeansSame
  <1> QED  BY <1>1, SpecInv, PTL

----------------------------------------------------------------------------
(* What steps do to files and entries.                                     *)
LEMMA FileStays ==
    ASSUME ScanInv, Scan, NEW p \in Path \ landed, Live(index[p]), OnDisk(p) = {index[p].content}
    PROVE  disk'[p] = disk[p]
  <1>1. CASE \E q \in Path : applyTombstone(q)
    <2>1. PICK q \in Path : applyTombstone(q)
      BY <1>1
    <2>2. q # p
      BY <2>1 DEF applyTombstone, ScanInv, Differ, Differs
    <2> QED  BY <2>1, <2>2 DEF applyTombstone, ScanInv, TypeOK
  <1>2. CASE UNCHANGED disk
    BY <1>2
  <1> QED
    BY <1>1, <1>2 DEF Scan, StartWalk, EndStat, computeTombstones, applySend, EndScan, readdir,
                      Visit, hashFileViews

(* The entry of p knows no less than before, and a new version made here   *)
(* of a file that is there has a new content.                              *)
Advances(p) ==
    /\ index'[p].local >= index[p].local /\ index'[p].remote >= index[p].remote
    /\ Live(index[p]) /\ index'[p].local > index[p].local /\ disk'[p] # NoFile
          => index'[p].content # index[p].content

LEMMA StaysAdvances ==
    ASSUME ScanInv, NEW p \in Path, index[p] # NoEntry, index'[p] = index[p]
    PROVE  Advances(p)
  <1>1. index[p].local \in Nat /\ index[p].remote \in Nat
    BY DEF ScanInv, TypeOK, Entry
  <1> QED  BY <1>1 DEF Advances

LEMMA LandingAdvances ==
    ASSUME ScanInv, Landing, NEW p \in Path, index[p] # NoEntry
    PROVE  Advances(p)
  <1>1. index \in [Path -> Entry \cup {NoEntry}] /\ index[p] \in Entry
    BY DEF ScanInv, TypeOK
  <1>2. index[p].local \in Nat /\ index[p].remote \in Nat
    BY <1>1 DEF Entry
  <1>3. PICK q \in Path : finalizeReceive(q) \/ applyDelete(q) \/ applyConflictKeepLocal(q)
    BY DEF Landing
  <1>4. CASE q # p
    <2>1. index'[p] = index[p]
      BY <1>1, <1>3, <1>4 DEF finalizeReceive, applyDelete, applyConflictKeepLocal
    <2> QED  BY <2>1, StaysAdvances
  <1>5. CASE q = p
    <2>1. index'[p].local = index[p].local /\ index'[p].remote = index[p].remote + 1
      <3>1. CASE finalizeReceive(p)
        BY <1>1, <3>1 DEF finalizeReceive, Local, Remote
      <3>2. CASE applyDelete(p)
        BY <1>1, <3>2 DEF applyDelete, Entry
      <3>3. CASE applyConflictKeepLocal(p)
        BY <1>1, <3>3 DEF applyConflictKeepLocal, Entry
      <3> QED  BY <1>3, <1>5, <3>1, <3>2, <3>3
    <2> QED  BY <1>2, <2>1 DEF Advances
  <1> QED  BY <1>4, <1>5

LEMMA ScanAdvances ==
    ASSUME ScanInv, Scan, NEW p \in Path \ landed, index[p] # NoEntry
    PROVE  Advances(p)
  <1>1. index \in [Path -> Entry \cup {NoEntry}] /\ index[p] \in Entry
    BY DEF ScanInv, TypeOK
  <1>2. index[p].local \in Nat /\ index[p].remote \in Nat
    BY <1>1 DEF Entry
  <1>3. CASE EndStat
    <2> DEFINE q == stat.path
               retimed == [stat.prev EXCEPT !.mtime = disk[q].mtime]
    <2>1. /\ q \in Path /\ stat.prev \in Entry
          /\ index' = index \/ index' = [index EXCEPT ![q] = retimed]
      BY <1>3, EndStatCases, Zenon
    <2>2. retimed.local = stat.prev.local /\ retimed.remote = stat.prev.remote
      BY <2>1 DEF Entry
    <2>3. q = p => stat.prev = index[p]
      BY <1>3 DEF EndStat, ScanInv, StatCurrent
    <2> HIDE DEF q, retimed
    <2>4. CASE index' = index
      BY <2>4, StaysAdvances
    <2>5. CASE index' = [index EXCEPT ![q] = retimed] /\ q # p
      <3>1. index'[p] = index[p]
        BY <1>1, <2>5
      <3> QED  BY <3>1, StaysAdvances
    <2>6. CASE index' = [index EXCEPT ![q] = retimed] /\ q = p
      <3>1. index'[p].local = index[p].local /\ index'[p].remote = index[p].remote
        BY <1>1, <2>2, <2>3, <2>6
      <3> QED  BY <1>2, <3>1 DEF Advances
    <2> QED  BY <2>1, <2>4, <2>5, <2>6
  <1>4. CASE \E q \in Path : applyTombstone(q)
    <2>1. PICK q \in Path : applyTombstone(q)
      BY <1>4
    <2>2. CASE q # p
      <3>1. index'[p] = index[p]
        BY <1>1, <2>1, <2>2 DEF applyTombstone
      <3> QED  BY <3>1, StaysAdvances
    <2>3. CASE q = p
      <3>1. index'[p] = [index[p] EXCEPT !.local = @ + 1, !.deleted = TRUE]
        BY <1>1, <2>1, <2>3 DEF applyTombstone, ScanInv, TombstonesCurrent
      <3>2. index'[p].local = index[p].local + 1 /\ index'[p].remote = index[p].remote
        BY <1>1, <3>1 DEF Entry
      <3>3. disk'[p] = NoFile
        BY <2>1, <2>3 DEF applyTombstone, ScanInv, TypeOK
      <3> QED  BY <1>2, <3>2, <3>3 DEF Advances
    <2> QED  BY <2>2, <2>3
  <1>5. CASE applySend
    <2>1. PICK q \in Path, entry \in Entry :
              /\ hashed.path = q
              /\ \/ disk[q] = NoFile /\ index' = index
                 \/ disk[q] # NoFile /\ index' = [index EXCEPT ![q] = entry]
              /\ entry.local = Local(q) + 1 /\ entry.remote = Remote(q)
              /\ entry.content = hashed.content
      BY <1>5, SendCases
    <2>2. CASE index'[p] = index[p]
      BY <2>2, StaysAdvances
    <2>3. CASE index'[p] # index[p]
      <3>1. q = p /\ index'[p] = entry
        BY <1>1, <2>1, <2>3
      <3>2. entry.local = index[p].local + 1 /\ entry.remote = index[p].remote
        BY <2>1, <3>1 DEF Local, Remote
      <3>3. Live(index[p]) => entry.content # index[p].content
        BY <1>5, <2>1, <3>1 DEF applySend, ScanInv, Differ
      <3> QED  BY <1>2, <3>1, <3>2, <3>3 DEF Advances
    <2> QED  BY <2>2, <2>3
  <1>6. CASE UNCHANGED index
    BY <1>6, StaysAdvances
  <1> QED
    BY <1>3, <1>4, <1>5, <1>6 DEF Scan, StartWalk, computeTombstones, EndScan, readdir, Visit,
                                  hashFileViews

LEMMA NextAdvances ==
    ASSUME ScanInv, [Next]_vars, NEW p \in Path \ landed, index[p] # NoEntry
    PROVE  Advances(p)
  <1>1. CASE User \/ UNCHANGED vars
    <2>1. UNCHANGED index
      BY <1>1 DEF User, Write, Touch, Unlink, vars
    <2> QED  BY <2>1, StaysAdvances
  <1> QED  BY <1>1, LandingAdvances, ScanAdvances DEF Next

(* A scan takes away no file that is what the live entry of its path says, *)
(* unless the path landed under the walk.                                  *)
THEOREM IndexedStay == Spec => IndexedFilesStay
  <1>1. ScanInv => \A p \in Path \ landed :
            Scan /\ Live(index[p]) /\ OnDisk(p) = {index[p].content} => disk'[p] = disk[p]
    BY FileStays
  <1> QED  BY <1>1, SpecInv, PTL DEF IndexedFilesStay

(* No scan, stat or landing puts an entry back to one that knows less,     *)
(* unless the path landed under the walk.                                  *)
THEOREM IndexKeepsUp == Spec => IndexNeverGoesBack
  <1>1. ScanInv /\ [Next]_vars => \A p \in Path \ landed : index[p] # NoEntry =>
            index'[p].local >= index[p].local /\ index'[p].remote >= index[p].remote
    BY NextAdvances DEF Advances
  <1> QED  BY <1>1, SpecInv, PTL DEF Spec, IndexNeverGoesBack

(* A scan makes a new version of a file that is there only of a content    *)
(* its entry does not have, unless the path landed under the walk.         *)
THEOREM EditsAlone == Spec => OnlyEditsCount
  <1>1. ScanInv /\ [Next]_vars => \A p \in Path \ landed :
            Live(index[p]) /\ index'[p].local > index[p].local /\ disk'[p] # NoFile
                => index'[p].content # index[p].content
    BY NextAdvances DEF Advances, Live
  <1> QED  BY <1>1, SpecInv, PTL DEF Spec, OnlyEditsCount

(* What the program takes off the disk, scanning or landing, it keeps.     *)
THEOREM NothingDestroyed == Spec => ScanNeverDestroys
  <1>1. ASSUME ScanInv, [Next]_vars, NEW p \in Path
        PROVE  \/ User
               \/ OnDisk(p) \subseteq kept'[p]
               \/ disk'[p] # NoFile /\ OnDisk(p) = {disk'[p].content}
    <2>1. disk \in [Path -> File \cup {NoFile}] /\ kept \in [Path -> SUBSET Nat]
      BY <1>1 DEF ScanInv, TypeOK
    <2>2. CASE disk'[p] = disk[p]
      BY <2>2 DEF OnDisk
    <2>3. ASSUME NEW q \in Path, finalizeReceive(q) \/ applyDelete(q) \/ applyTombstone(q)
          PROVE  disk'[p] = disk[p] \/ OnDisk(p) \subseteq kept'[p]
      BY <2>1, <2>3 DEF finalizeReceive, applyDelete, applyTombstone, Trashed
    <2>4. CASE Landing
      BY <2>2, <2>3, <2>4 DEF Landing, applyConflictKeepLocal
    <2>5. CASE Scan
      BY <2>2, <2>3, <2>5 DEF Scan, StartWalk, EndStat, computeTombstones, applySend, EndScan,
                              readdir, Visit, hashFileViews
    <2>6. CASE UNCHANGED vars
      BY <2>2, <2>6 DEF vars
    <2> QED  BY <1>1, <2>4, <2>5, <2>6 DEF Next
  <1>2. ScanInv /\ [Next]_vars => \A p \in Path :
               \/ User
               \/ OnDisk(p) \subseteq kept'[p]
               \/ disk'[p] # NoFile /\ OnDisk(p) = {disk'[p].content}
    BY <1>1
  <1> QED  BY <1>2, SpecInv, PTL DEF Spec, ScanNeverDestroys

=============================================================================
