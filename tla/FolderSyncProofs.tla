-------------------------- MODULE FolderSyncProofs --------------------------
(***************************************************************************)
(* Proofs about FolderSync for every set of devices and paths, every       *)
(* policy and every bound.                                                 *)
(*                                                                         *)
(* 1. The operators on version vectors and the plan of an exchange.        *)
(* 2. TypeCorrect and NothingDestroyed. TypeOK is not inductive: the       *)
(*    landing of a conflict merges with the version of the local entry, so *)
(*    there must be one. Inv adds that.                                    *)
(* 3. Folders with one author (OneAuthor): they implement Replication.     *)
(*    AuthorInv, path by path (PathInv), is the inductive invariant. A step*)
(*    is, for each path, a scan of the author that records it (Edits), a   *)
(*    user's edit (Untouched), or a step that takes over nothing that was  *)
(*    not known (Calm); each keeps PathInv (EditsKeep, UserKeeps,          *)
(*    CalmKeeps) and is a step of Replication (EditsPromise, UserPromise,  *)
(*    CalmPromise). One lemma per action says which of them it is.         *)
(* 4. The receive ledger (ClaimsAreServed), and that entries come from     *)
(*    scans and merges only (Sourced).                                     *)
(* 5. Folders in which nothing is deleted, with any users, links and       *)
(*    policies: the index stays honest. NoTombstone is the invariant.      *)
(* 6. One change in all (OneEdit): it is received once at a time, unless a *)
(*    claim expires under a receive. FlightInv.                            *)
(* 7. One author again: a version is received once, and a device that is   *)
(*    linked to the author and has nothing under way agrees with it.       *)
(*    FollowInv says that what the author sends arrives in order and that  *)
(*    its entry is at the device, on its way or about to be scanned;       *)
(*    AskedInv that a receive without an answer is one of a file that the  *)
(*    author no longer has.                                                *)
(***************************************************************************)
EXTENDS FolderSyncReplication, TLAPS, FiniteSetTheorems

(* An index entry as far as the plan looks at it. *)
Planned == [version : Version, deleted : BOOLEAN]

(* Two vectors of which each dominates the other are one. *)
LEMMA DominatesBoth ==
    ASSUME NEW a \in Version, NEW b \in Version, Dominates(a, b), Dominates(b, a)
    PROVE  a = b
  <1>1. ASSUME NEW d \in Device PROVE a[d] = b[d]
    BY DEF Dominates, Version
  <1> QED  BY <1>1 DEF Version

(* Dominates carries over. *)
LEMMA DominatesTransitive ==
    ASSUME NEW a \in Version, NEW b \in Version, NEW c \in Version,
           Dominates(a, b), Dominates(b, c)
    PROVE  Dominates(a, c)
  <1> SUFFICES ASSUME NEW d \in Device PROVE c[d] <= a[d]
    BY DEF Dominates
  <1>1. a[d] \in Nat /\ b[d] \in Nat /\ c[d] \in Nat
    BY DEF Version
  <1>2. c[d] <= b[d] /\ b[d] <= a[d]
    BY DEF Dominates
  <1> QED  BY <1>1, <1>2

(* incrementVersion gives a version newer than the one it starts from, so  *)
(* that every peer that holds the old entry receives the new one.          *)
THEOREM IncrementIsNewer ==
    ASSUME NEW v \in Version, NEW d \in Device
    PROVE  compareVersions(incrementVersion(v, d), v) = "a-newer"
  <1>1. Dominates(incrementVersion(v, d), v) /\ ~Dominates(v, incrementVersion(v, d))
    BY DEF incrementVersion, Dominates, Version
  <1> QED  BY <1>1 DEF compareVersions

(* mergeVersions is the least version that knows of all changes of both:    *)
(* a conflict resolved with it is one no device has to resolve again.      *)
THEOREM MergeIsLeast ==
    ASSUME NEW a \in Version, NEW b \in Version
    PROVE  /\ Dominates(mergeVersions(a, b), a) /\ Dominates(mergeVersions(a, b), b)
           /\ \A c \in Version : Dominates(c, a) /\ Dominates(c, b) => Dominates(c, mergeVersions(a, b))
           /\ mergeVersions(a, b) = mergeVersions(b, a)
  <1>1. Dominates(mergeVersions(a, b), a) /\ Dominates(mergeVersions(a, b), b)
    BY DEF Dominates, mergeVersions, Version
  <1>2. ASSUME NEW c \in Version, Dominates(c, a), Dominates(c, b)
        PROVE  Dominates(c, mergeVersions(a, b))
    BY <1>2 DEF Dominates, mergeVersions
  <1>3. mergeVersions(a, b) = mergeVersions(b, a)
    <2>1. ASSUME NEW d \in Device
          PROVE  (IF a[d] >= b[d] THEN a[d] ELSE b[d]) = (IF b[d] >= a[d] THEN b[d] ELSE a[d])
      BY DEF Version
    <2> QED  BY <2>1 DEF mergeVersions
  <1> QED  BY <1>1, <1>2, <1>3

(* compareVersions is one of its four results and says the converse from   *)
(* the other side.                                                         *)
LEMMA CompareConverse ==
    ASSUME NEW a, NEW b
    PROVE  /\ compareVersions(a, b) \in Relation
           /\ compareVersions(a, b) = "equal" <=> compareVersions(b, a) = "equal"
           /\ compareVersions(a, b) = "a-newer" <=> compareVersions(b, a) = "b-newer"
           /\ compareVersions(a, b) = "concurrent" <=> compareVersions(b, a) = "concurrent"
  <1>1. CASE Dominates(a, b) /\ Dominates(b, a)
    BY <1>1 DEF compareVersions, Relation
  <1>2. CASE Dominates(a, b) /\ ~Dominates(b, a)
    BY <1>2 DEF compareVersions, Relation
  <1>3. CASE ~Dominates(a, b) /\ Dominates(b, a)
    BY <1>3 DEF compareVersions, Relation
  <1>4. CASE ~Dominates(a, b) /\ ~Dominates(b, a)
    BY <1>4 DEF compareVersions, Relation
  <1> QED  BY <1>1, <1>2, <1>3, <1>4

(* buildPlan on the two sides of an exchange: what one sends the other     *)
(* receives, deletions and conflicts are seen by both, and where one has   *)
(* nothing to do neither has the other.                                    *)
THEOREM PlansMatch ==
    ASSUME NoEntry \notin Planned,
           NEW a \in Planned \cup {NoEntry}, NEW b \in Planned \cup {NoEntry}
    PROVE  /\ planPath(a, b) = "none" <=> planPath(b, a) = "none"
           /\ planPath(a, b) = "conflict" <=> planPath(b, a) = "conflict"
           /\ planPath(a, b) = "delete" <=> planPath(b, a) = "delete"
           /\ planPath(a, b) = "send" <=> planPath(b, a) = "receive"
  <1>1. CASE a = NoEntry \/ b = NoEntry
    BY <1>1 DEF planPath, compareFileState
  <1>2. CASE a # NoEntry /\ b # NoEntry
    <2>1. compareVersions(a.version, b.version) \in Relation
      BY CompareConverse
    <2>2. CASE compareVersions(a.version, b.version) = "equal"
      BY <1>2, <2>2, CompareConverse DEF planPath, compareFileState
    <2>3. CASE compareVersions(a.version, b.version) = "a-newer"
      BY <1>2, <2>3, CompareConverse DEF planPath, compareFileState
    <2>4. CASE compareVersions(a.version, b.version) = "b-newer"
      BY <1>2, <2>4, CompareConverse DEF planPath, compareFileState
    <2>5. CASE compareVersions(a.version, b.version) = "concurrent"
      BY <1>2, <2>5, CompareConverse DEF planPath, compareFileState
    <2> QED  BY <2>1, <2>2, <2>3, <2>4, <2>5 DEF Relation
  <1> QED  BY <1>1, <1>2

----------------------------------------------------------------------------
LEMMA MergeType ==
    ASSUME NEW x \in Version, NEW y \in Version
    PROVE  mergeVersions(x, y) \in Version
  BY DEF mergeVersions, Version

LEMMA IncrementType ==
    ASSUME NEW x \in Version, NEW d \in Device
    PROVE  incrementVersion(x, d) \in Version
  BY DEF incrementVersion, Version

LEMMA CreateType == createVersionVector \in Version
  BY DEF createVersionVector, Version

LEMMA EntryIsNoGap == NoEntry \notin Entry
  BY EntryAssumption, BoundAssumption DEF Entry, Content

LEMMA BlocksType ==
    ASSUME NEW entry \in Entry
    PROVE  Blocks(entry) \in Content
  BY BoundAssumption DEF Blocks, Entry, Content, Empty

LEMMA OnDiskType ==
    ASSUME NEW f \in FileState
    PROVE  OnDisk(f) \subseteq Content
  BY DEF OnDisk, FileState

LEMMA EmptyType == Empty \in Content
  BY BoundAssumption DEF Empty, Content

LEMMA RemadeEntry ==
    ASSUME NEW r \in Entry, NEW v \in Version, NEW c \in Content
    PROVE  /\ [r EXCEPT !.version = v] \in Entry
           /\ [r EXCEPT !.version = v, !.content = c] \in Entry
  BY DEF Entry

LEMMA ApplyConflictType ==
    ASSUME NEW f \in FileState, f.index \in Entry, NEW remote \in Entry
    PROVE  /\ applyConflict(f, remote) \in FileState
           /\ applyConflict(f, remote).index \in Entry
  <1> DEFINE merged == mergeVersions(f.index.version, remote.version)
             joined == [remote EXCEPT !.version = merged]
             grave  == [remote EXCEPT !.version = merged, !.content = Empty]
             saved  == f.copies \cup OnDisk(f)
  <1>1. merged \in Version
    BY MergeType DEF Entry
  <1>2. joined \in Entry /\ grave \in Entry
    BY <1>1, EmptyType, RemadeEntry
  <1>3. saved \in SUBSET Content
    BY OnDiskType DEF FileState
  <1>4. applyConflict(f, remote) =
          IF f.index.deleted /\ remote.deleted THEN [f EXCEPT !.index = grave]
          ELSE [f EXCEPT !.copies = saved, !.disk = Blocks(remote), !.index = joined]
    BY DEF applyConflict
  <1>5. /\ [f EXCEPT !.index = grave] \in FileState
        /\ [f EXCEPT !.index = grave].index = grave
    <2> HIDE DEF grave
    <2> QED  BY <1>2 DEF FileState, MaybeEntry
  <1>6. /\ [f EXCEPT !.copies = saved, !.disk = Blocks(remote), !.index = joined] \in FileState
        /\ [f EXCEPT !.copies = saved, !.disk = Blocks(remote), !.index = joined].index = joined
    <2>1. Blocks(remote) \in Content
      BY BlocksType
    <2> HIDE DEF joined, saved
    <2> QED  BY <2>1, <1>2, <1>3 DEF FileState, MaybeEntry
  <1> HIDE DEF joined, grave, saved
  <1> QED
    BY <1>2, <1>4, <1>5, <1>6

LEMMA FinalizeType ==
    ASSUME NEW f \in FileState, NEW entry \in Entry
    PROVE  /\ finalizeReceive(f, entry) \in FileState
           /\ finalizeReceive(f, entry).index \in Entry
  BY BlocksType, OnDiskType
     DEF finalizeReceive, snapshotVersion, preserveLocalAsConflict, FileState, MaybeEntry, OnDisk

LEMMA LandType ==
    ASSUME NEW f \in FileState, NEW item \in Item,
           item.kind = "conflict" => f.index # NoEntry
    PROVE  /\ Land(f, item) \in FileState
           /\ Land(f, item).index \in Entry
  <1>1. item.entry \in Entry
    BY DEF Item
  <1>2. CASE item.kind = "conflict"
    <2>1. f.index \in Entry
      BY <1>2 DEF FileState, MaybeEntry
    <2> QED  BY <1>1, <1>2, <2>1, ApplyConflictType DEF Land
  <1>3. CASE item.kind # "conflict"
    BY <1>1, <1>3, FinalizeType DEF Land
  <1> QED  BY <1>2, <1>3

----------------------------------------------------------------------------
(* Landings and deletions keep what they replace.                          *)

Keeps(f, g) == g.disk = f.disk \/ OnDisk(f) \subseteq g.copies \cup g.archive

(* What a step of the program may do to one path. *)
FileStep(f, g) ==
    /\ g \in FileState
    /\ Keeps(f, g)
    /\ f.index # NoEntry => g.index # NoEntry

LEMMA FileStays ==
    ASSUME NEW f \in FileState
    PROVE  FileStep(f, f)
  BY DEF FileStep, Keeps

LEMMA LandStep ==
    ASSUME NEW f \in FileState, NEW item \in Item,
           item.kind = "conflict" => f.index # NoEntry
    PROVE  FileStep(f, Land(f, item))
  <1>1. Keeps(f, applyConflict(f, item.entry))
    BY DEF Keeps, applyConflict, FileState
  <1>2. Keeps(f, finalizeReceive(f, item.entry))
    BY DEF Keeps, finalizeReceive, snapshotVersion, preserveLocalAsConflict, FileState, OnDisk
  <1>3. Keeps(f, Land(f, item))
    BY <1>1, <1>2 DEF Land
  <1> QED
    BY <1>3, LandType, EntryIsNoGap DEF FileStep

LEMMA DeleteStep ==
    ASSUME NEW f \in FileState, NEW tombstone \in Entry
    PROVE  FileStep(f, applyDelete(f, tombstone))
  BY OnDiskType, EntryIsNoGap
     DEF FileStep, Keeps, applyDelete, FileState, MaybeEntry, OnDisk

LEMMA KeepLocalStep ==
    ASSUME NEW f \in FileState, f.index # NoEntry, NEW remote \in Entry
    PROVE  FileStep(f, applyConflictKeepLocal(f, remote))
  <1> DEFINE merged == mergeVersions(f.index.version, remote.version)
             kept == [f.index EXCEPT !.version = merged]
  <1>1. f.index \in Entry
    BY DEF FileState, MaybeEntry
  <1>2. merged \in Version
    BY <1>1, MergeType DEF Entry
  <1>3. kept \in Entry
    <2> HIDE DEF merged
    <2> QED  BY <1>1, <1>2 DEF Entry
  <1>4. applyConflictKeepLocal(f, remote) = [f EXCEPT !.index = kept]
    BY DEF applyConflictKeepLocal
  <1> HIDE DEF kept
  <1> QED
    BY <1>3, <1>4, EntryIsNoGap DEF FileStep, Keeps, FileState, MaybeEntry

----------------------------------------------------------------------------
(* What a plan says of the two entries it compares.                        *)

LEMMA PlanFacts ==
    ASSUME NEW local, NEW remote
    PROVE  /\ planPath(local, remote) = "receive" => remote # NoEntry
           /\ planPath(local, remote) = "conflict" => local # NoEntry /\ remote # NoEntry
           /\ planPath(local, remote) = "delete"
                 => compareFileState(local, remote) = "local-newer" \/ remote # NoEntry
  BY DEF planPath, compareFileState

----------------------------------------------------------------------------
(* The outcome of one message for one path.                                *)

OutcomeType ==
    [file : FileState, pend : Pending, claim : Claim, live : BOOLEAN,
     request : BOOLEAN, send : MaybeEntry, landed : MaybeEntry]

(* The outcome o replaces the state of path p at d on the connection to e. *)
GoodOutcome(d, e, p, remote, o) ==
    /\ o \in OutcomeType
    /\ FileStep(file[d][p], o.file)
    /\ o.pend # NoPending /\ o.pend.kind = "conflict" => o.file.index # NoEntry
    /\ o.request => remote # NoEntry

Inv == TypeOK /\ ConflictsIndexed

LEMMA IdleGood ==
    ASSUME Inv, NEW d \in Device, NEW e \in Device, NEW p \in Path, NEW remote \in MaybeEntry
    PROVE  GoodOutcome(d, e, p, remote, Idle(d, e, p))
  <1>1. /\ file[d][p] \in FileState
        /\ pend[d][e][p] \in Pending
        /\ claim[d][p] \in Claim
    BY DEF Inv, TypeOK
  <1>2. FileStep(file[d][p], file[d][p])
    BY <1>1, FileStays
  <1>3. pend[d][e][p] # NoPending /\ pend[d][e][p].kind = "conflict" => file[d][p].index # NoEntry
    BY DEF Inv, ConflictsIndexed
  <1> QED
    BY <1>1, <1>2, <1>3 DEF GoodOutcome, OutcomeType, Idle, MaybeEntry

LEMMA ReleasedType ==
    ASSUME NEW held \in Claim, NEW e
    PROVE  Released(held, e) \in Claim
  BY DEF Released, Claim

LEMMA OpenGood ==
    ASSUME Inv, NEW d \in Device, NEW e \in Device, NEW p \in Path, NEW remote \in Entry,
           NEW kind \in {"receive", "conflict"},
           kind = "conflict" => file[d][p].index # NoEntry
    PROVE  GoodOutcome(d, e, p, remote, Open(d, e, p, kind, remote))
  <1> DEFINE f == file[d][p]
             item == [kind |-> kind, entry |-> remote]
             taken == [holder |-> e, key |-> versionKey(remote)]
  <1>1. f \in FileState /\ item \in Item
    BY DEF Inv, TypeOK, Item
  <1>2. /\ Land(f, item) \in FileState
        /\ FileStep(f, Land(f, item))
        /\ FileStep(f, f)
    BY <1>1, LandType, LandStep, FileStays
  <1>3. taken \in Claim
    <2>1. remote.deleted \in BOOLEAN /\ Blocks(remote) \in Content
      BY BlocksType DEF Entry
    <2> QED  BY <2>1 DEF Claim, versionKey
  <1> DEFINE done == [file |-> Land(f, item), pend |-> NoPending, claim |-> NoClaim, live |-> TRUE,
                      request |-> FALSE, send |-> NoEntry, landed |-> remote]
             asked == [file |-> f, pend |-> item, claim |-> taken, live |-> TRUE,
                       request |-> TRUE, send |-> NoEntry, landed |-> remote]
  <1>4. CASE Ready(d, p, remote)
    <2>1. Open(d, e, p, kind, remote) = done
      BY <1>4 DEF Open, Idle
    <2>2. done \in OutcomeType
      <3> HIDE DEF item
      <3> QED  BY <1>2 DEF OutcomeType, Pending, Claim, MaybeEntry
    <2>3. FileStep(f, done.file) /\ done.pend = NoPending /\ remote # NoEntry
      BY <1>2, EntryIsNoGap
    <2> QED  BY <2>1, <2>2, <2>3 DEF GoodOutcome
  <1>5. CASE ~Ready(d, p, remote)
    <2>1. Open(d, e, p, kind, remote) = asked
      BY <1>5 DEF Open, Idle
    <2>2. asked \in OutcomeType
      <3> HIDE DEF item, taken
      <3> QED  BY <1>1, <1>3 DEF OutcomeType, Pending, MaybeEntry
    <2>3. /\ FileStep(f, asked.file)
          /\ asked.pend.kind = "conflict" => asked.file.index # NoEntry
          /\ remote # NoEntry
      BY <1>2, EntryIsNoGap
    <2> QED  BY <2>1, <2>2, <2>3 DEF GoodOutcome
  <1> QED
    BY <1>4, <1>5

LEMMA SendGood ==
    ASSUME Inv, NEW d \in Device, NEW e \in Device, NEW p \in Path, NEW remote \in MaybeEntry
    PROVE  GoodOutcome(d, e, p, remote, Send(d, e, p))
  <1> DEFINE o == Idle(d, e, p)
             sent == IF d \in ReceiveOnly THEN NoEntry ELSE file[d][p].index
  <1>1. GoodOutcome(d, e, p, remote, o)
    BY IdleGood
  <1>2. sent \in MaybeEntry
    BY DEF Inv, TypeOK, FileState, MaybeEntry
  <1>3. Send(d, e, p) = [o EXCEPT !.send = sent]
    BY DEF Send
  <1> HIDE DEF o, sent
  <1> QED  BY <1>1, <1>2, <1>3 DEF GoodOutcome, OutcomeType

LEMMA DeleteGood ==
    ASSUME Inv, NEW d \in Device, NEW e \in Device, NEW p \in Path, NEW remote \in MaybeEntry,
           compareFileState(file[d][p].index, remote) = "local-newer" \/ remote # NoEntry
    PROVE  GoodOutcome(d, e, p, remote, Delete(d, e, p, remote))
  <1>1. CASE compareFileState(file[d][p].index, remote) = "local-newer"
    BY <1>1, IdleGood, SendGood DEF Delete
  <1>2. CASE compareFileState(file[d][p].index, remote) # "local-newer"
    <2> DEFINE o == Idle(d, e, p)
               f == file[d][p]
               gone == applyDelete(f, remote)
               freed == Released(claim[d][p], e)
    <2>1. GoodOutcome(d, e, p, remote, o) /\ o.file = f /\ o.claim = claim[d][p]
      BY IdleGood DEF Idle
    <2>2. remote \in Entry
      BY <1>2 DEF MaybeEntry
    <2>3. FileStep(f, gone)
      BY <2>2, DeleteStep DEF Inv, TypeOK
    <2>4. freed \in Claim
      BY ReleasedType DEF Inv, TypeOK
    <2>5. Delete(d, e, p, remote) =
            [o EXCEPT !.file = gone, !.pend = NoPending, !.claim = freed, !.landed = remote]
      BY <1>2, <2>1 DEF Delete
    <2> HIDE DEF o, f, gone, freed
    <2>6. gone \in FileState
      BY <2>3 DEF FileStep
    <2>7. f = file[d][p]
      BY DEF f
    <2> QED
      BY <2>1, <2>2, <2>3, <2>4, <2>5, <2>6, <2>7 DEF GoodOutcome, OutcomeType, Pending, MaybeEntry
  <1> QED  BY <1>1, <1>2

LEMMA KeepLocalGood ==
    ASSUME Inv, NEW d \in Device, NEW e \in Device, NEW p \in Path, NEW remote \in Entry,
           file[d][p].index # NoEntry
    PROVE  /\ GoodOutcome(d, e, p, remote, KeepLocal(d, e, p, remote))
           /\ GoodOutcome(d, e, p, remote, KeepLocalAndSend(d, e, p, remote))
  <1> DEFINE o == Idle(d, e, p)
             f == file[d][p]
             kept == applyConflictKeepLocal(f, remote)
             quiet == KeepLocal(d, e, p, remote)
  <1>1. GoodOutcome(d, e, p, remote, o) /\ o.file = f /\ o.pend = pend[d][e][p]
    BY IdleGood DEF Idle, MaybeEntry
  <1>2. FileStep(f, kept)
    BY KeepLocalStep DEF Inv, TypeOK
  <1>3. kept \in FileState /\ kept.index # NoEntry /\ kept.index \in MaybeEntry
    BY <1>2 DEF FileStep, FileState
  <1>4. quiet = [o EXCEPT !.file = kept, !.claim = NoClaim]
    BY <1>1 DEF KeepLocal
  <1>5. GoodOutcome(d, e, p, remote, quiet) /\ quiet.file = kept /\ quiet.pend = o.pend
    <2>1. f = file[d][p]
      OBVIOUS
    <2> HIDE DEF o, kept, quiet, f
    <2> QED  BY <1>1, <1>2, <1>3, <1>4, <2>1 DEF GoodOutcome, OutcomeType, Claim
  <1>6. KeepLocalAndSend(d, e, p, remote) = [quiet EXCEPT !.send = kept.index]
    BY <1>5 DEF KeepLocalAndSend
  <1> HIDE DEF o, kept, quiet
  <1>7. GoodOutcome(d, e, p, remote, KeepLocalAndSend(d, e, p, remote))
    BY <1>3, <1>5, <1>6 DEF GoodOutcome, OutcomeType
  <1> QED  BY <1>5, <1>7 DEF quiet

LEMMA ConflictGood ==
    ASSUME Inv, NEW d \in Device, NEW e \in Device, NEW p \in Path, NEW remote \in Entry,
           file[d][p].index # NoEntry, NEW relayed
    PROVE  GoodOutcome(d, e, p, remote, Conflict(d, e, p, remote, relayed))
  <1>1. /\ GoodOutcome(d, e, p, remote, Open(d, e, p, "receive", remote))
        /\ GoodOutcome(d, e, p, remote, Open(d, e, p, "conflict", remote))
        /\ GoodOutcome(d, e, p, remote, KeepLocal(d, e, p, remote))
        /\ GoodOutcome(d, e, p, remote, KeepLocalAndSend(d, e, p, remote))
    BY OpenGood, KeepLocalGood
  <1>2. PolicyWinner(d, file[d][p].index, remote) \in {"none", "local", "remote"}
    BY PolicyAssumption DEF PolicyWinner
  <1> QED  BY <1>1, <1>2 DEF Conflict

(* What becomes of a path before a full index drops what is stale. *)
Chosen(d, e, p, action, remote, relayed) ==
    CASE action = "none"     -> Idle(d, e, p)
      [] action = "send"     -> Send(d, e, p)
      [] action = "delete"   -> Delete(d, e, p, remote)
      [] action = "receive"  -> IF Claimable(d, e, p, remote)
                                THEN Open(d, e, p, "receive", remote)
                                ELSE Idle(d, e, p)
      [] action = "conflict" -> IF Claimable(d, e, p, remote)
                                THEN Conflict(d, e, p, remote, relayed)
                                ELSE Idle(d, e, p)

LEMMA OutcomeGood ==
    ASSUME Inv, NEW d \in Device, NEW e \in Device, NEW p \in Path, NEW remote \in MaybeEntry,
           NEW action \in {"none", planPath(file[d][p].index, remote)},
           action \in {"none", "send", "delete", "receive", "conflict"},
           NEW full, NEW relayed
    PROVE  GoodOutcome(d, e, p, remote, Outcome(d, e, p, action, remote, full, relayed))
  <1> DEFINE o == Chosen(d, e, p, action, remote, relayed)
  <1>1. GoodOutcome(d, e, p, remote, o)
    <2>1. CASE action = "none"
      BY <2>1, IdleGood DEF Chosen
    <2>2. CASE action = "send"
      BY <2>2, SendGood DEF Chosen
    <2>3. CASE action = "delete"
      BY <2>3, PlanFacts, DeleteGood DEF Chosen
    <2>4. CASE action = "receive"
      <3>1. remote \in Entry
        BY <2>4, PlanFacts DEF MaybeEntry
      <3>2. GoodOutcome(d, e, p, remote, Open(d, e, p, "receive", remote))
        BY <3>1, OpenGood
      <3> QED  BY <2>4, <3>2, IdleGood DEF Chosen
    <2>5. CASE action = "conflict"
      <3>1. remote \in Entry /\ file[d][p].index # NoEntry
        BY <2>5, PlanFacts DEF MaybeEntry
      <3>2. GoodOutcome(d, e, p, remote, Conflict(d, e, p, remote, relayed))
        BY <3>1, ConflictGood
      <3> QED  BY <2>5, <3>2, IdleGood DEF Chosen
    <2> QED  BY <2>1, <2>2, <2>3, <2>4, <2>5
  <1>2. Outcome(d, e, p, action, remote, full, relayed) = DropStale(o, e, full)
    BY DEF Outcome, Chosen
  <1> HIDE DEF o
  <1>3. Released(o.claim, e) \in Claim
    BY <1>1, ReleasedType DEF GoodOutcome, OutcomeType
  <1>4. GoodOutcome(d, e, p, remote, DropStale(o, e, full))
    BY <1>1, <1>3 DEF DropStale, GoodOutcome, OutcomeType, Pending
  <1> QED  BY <1>2, <1>4

LEMMA PlanActions ==
    ASSUME NEW local, NEW remote
    PROVE  planPath(local, remote) \in {"none", "send", "delete", "receive", "conflict"}
  <1>1. compareFileState(local, remote) \in {"equal", "local-newer", "remote-newer", "conflict"}
    BY DEF compareFileState, compareVersions
  <1> QED  BY <1>1 DEF planPath

LEMMA ChosenTyped ==
    ASSUME Inv, NEW d \in Device, NEW e \in Device, NEW p \in Path,
           NEW remote \in MaybeEntry, NEW relayed,
           NEW action \in {"none", planPath(file[d][p].index, remote)}
    PROVE  Chosen(d, e, p, action, remote, relayed) \in OutcomeType
  <1> DEFINE o == Chosen(d, e, p, action, remote, relayed)
  <1>1. action \in {"none", "send", "delete", "receive", "conflict"}
    BY PlanActions
  <1>2. GoodOutcome(d, e, p, remote, Outcome(d, e, p, action, remote, FALSE, relayed))
    BY <1>1, OutcomeGood
  <1>3. Outcome(d, e, p, action, remote, FALSE, relayed) = DropStale(o, e, FALSE)
    BY DEF Outcome, Chosen
  <1> HIDE DEF o
  <1>4. o \in OutcomeType
    BY <1>2, <1>3 DEF GoodOutcome, DropStale
  <1> QED  BY <1>4 DEF o

----------------------------------------------------------------------------
(* Messages and channels.                                                  *)

LEMMA MessageTypes ==
    /\ \A entries \in [Path -> MaybeEntry], full, relayed \in BOOLEAN :
          IndexMessage(entries, full, relayed) \in Message
    /\ \A p \in Path, c \in Content : BlockRequest(p, c) \in Message
    /\ \A p \in Path, c, data \in Content : BlockResponse(p, c, data) \in Message
  BY DEF Message, IndexMessage, BlockRequest, BlockResponse

(* A message that is waiting came over a link that is up.                  *)
LEMMA ReceivedFacts ==
    ASSUME Inv, NEW d \in Device, NEW e \in Device, chan[e][d] # <<>>
    PROVE  /\ e # d /\ e \in Neighbour(d) /\ d \in Neighbour(e)
           /\ Head(chan[e][d]) \in Message
           /\ Tail(chan[e][d]) \in Seq(Message)
  <1>1. chan[e][d] \in Seq(Message)
    BY DEF Inv, TypeOK
  <1>2. d \in Neighbour(e)
    BY DEF Inv, TypeOK
  <1>3. e # d /\ e \in Neighbour(d)
    BY <1>2 DEF Neighbour
  <1>4. ASSUME NEW s \in Seq(Message), s # <<>>
        PROVE  Head(s) \in Message /\ Tail(s) \in Seq(Message)
    BY <1>4
  <1> QED  BY <1>1, <1>2, <1>3, <1>4

(* The parts of TypeOK that concern the channels.                          *)
ChanOK ==
    /\ chan \in [Device -> [Device -> Seq(Message)]]
    /\ \A d, e \in Device : e \notin Neighbour(d) => chan[d][e] = <<>>

LEMMA DeliverChan ==
    ASSUME Inv, NEW d \in Device, NEW e \in Device, chan[e][d] # <<>>,
           NEW reply \in Seq(Message), NEW relay \in Seq(Message),
           Deliver(d, e, reply, relay), up' = up
    PROVE  ChanOK'
  <1> DEFINE row == [x \in Device |-> IF x = e THEN chan[d][x] \o reply
                                      ELSE IF x \in Neighbour(d) THEN chan[d][x] \o relay
                                      ELSE chan[d][x]]
  <1>1. /\ e # d /\ e \in Neighbour(d) /\ d \in Neighbour(e)
        /\ Tail(chan[e][d]) \in Seq(Message)
    BY ReceivedFacts
  <1>2. chan \in [Device -> [Device -> Seq(Message)]]
    BY DEF Inv, TypeOK
  <1>3. chan' = [[chan EXCEPT ![e][d] = Tail(chan[e][d])] EXCEPT ![d] = row]
    BY <1>1, <1>2 DEF Deliver
  <1>4. row \in [Device -> Seq(Message)]
    BY <1>2
  <1>5. \A x \in Device : x \notin Neighbour(d) => row[x] = chan[d][x]
    BY <1>1
  <1> HIDE DEF row
  <1>6. chan' \in [Device -> [Device -> Seq(Message)]]
    BY <1>1, <1>2, <1>3, <1>4
  <1>7. /\ chan'[d] = row
        /\ \A x \in Device \ {d, e} : chan'[x] = chan[x]
        /\ \A x \in Device \ {d} : chan'[e][x] = chan[e][x]
    BY <1>1, <1>2, <1>3
  <1>8. \A x \in Device : Neighbour(x)' = Neighbour(x)
    BY DEF Neighbour
  <1>9. ASSUME NEW x \in Device, NEW y \in Device, y \notin Neighbour(x)'
        PROVE  chan'[x][y] = <<>>
    <2>1. chan[x][y] = <<>>
      BY <1>8, <1>9 DEF Inv, TypeOK
    <2>2. CASE x = d
      BY <2>1, <2>2, <1>5, <1>7, <1>8, <1>9
    <2>3. CASE x = e
      BY <2>1, <2>3, <1>1, <1>7, <1>8, <1>9
    <2>4. CASE x \notin {d, e}
      BY <2>1, <2>4, <1>7
    <2> QED  BY <2>2, <2>3, <2>4
  <1> QED  BY <1>6, <1>9 DEF ChanOK

----------------------------------------------------------------------------
(* Files, receives and claims of one device.                               *)

AllKept == \A d \in Device, p \in Path : Keeps(file[d][p], file'[d][p])

IndexesStay ==
    \A d \in Device, p \in Path : file[d][p].index # NoEntry => file'[d][p].index # NoEntry

FileOK == file \in [Device -> [Path -> FileState]]

LEMMA FileUpdate ==
    ASSUME Inv, NEW d \in Device, NEW g,
           file' = [file EXCEPT ![d] = g], g \in [Path -> FileState],
           \A p \in Path : FileStep(file[d][p], g[p])
    PROVE  FileOK' /\ AllKept /\ IndexesStay
  <1>1. file \in [Device -> [Path -> FileState]]
    BY DEF Inv, TypeOK
  <1>2. \A x \in Device, p \in Path :
            \/ file'[x][p] = file[x][p]
            \/ FileStep(file[x][p], file'[x][p])
    BY <1>1
  <1>3. FileOK'
    BY <1>1 DEF FileOK
  <1> QED  BY <1>2, <1>3 DEF AllKept, IndexesStay, FileStep, Keeps

LEMMA FileUnchanged ==
    ASSUME Inv, file' = file
    PROVE  FileOK' /\ AllKept /\ IndexesStay
  BY DEF Inv, TypeOK, FileOK, AllKept, IndexesStay, Keeps

PendOK ==
    /\ pend \in [Device -> [Device -> [Path -> Pending]]]
    /\ \A d, e \in Device : e \notin Neighbour(d) => \A p \in Path : pend[d][e][p] = NoPending

RestOK == /\ claim \in [Device -> [Path -> Claim]]
          /\ up \subseteq Link
          /\ clock \in 1..MaxContent /\ connects \in 0..MaxConnects
          /\ expired \subseteq Device \X Path /\ givenUp \subseteq Device \X Path

LEMMA Parts == TypeOK <=> FileOK /\ PendOK /\ ChanOK /\ RestOK
  BY DEF TypeOK, FileOK, PendOK, ChanOK, RestOK

(* Links, receives, claims and counters left alone stay what they were.    *)
LEMMA RestUnchanged ==
    ASSUME Inv, UNCHANGED <<pend, claim, up, clock, connects, history>>
    PROVE  PendOK' /\ RestOK'
  <1>1. PendOK /\ RestOK
    BY DEF Inv, TypeOK, PendOK, RestOK
  <1>2. \A x \in Device : Neighbour(x)' = Neighbour(x)
    BY DEF Neighbour
  <1>3. PendOK'
    BY <1>1, <1>2 DEF PendOK
  <1>4. RestOK'
    BY <1>1 DEF RestOK, history
  <1> QED  BY <1>3, <1>4

(* Conflict copies under way stay indexed if only such are added.          *)
LEMMA ConflictsStay ==
    ASSUME Inv, IndexesStay,
           \A d, e \in Device, p \in Path :
              \/ pend'[d][e][p] = pend[d][e][p]
              \/ pend'[d][e][p] = NoPending
              \/ pend'[d][e][p].kind = "conflict" => file'[d][p].index # NoEntry
    PROVE  ConflictsIndexed'
  BY DEF Inv, ConflictsIndexed, IndexesStay

----------------------------------------------------------------------------
(* One lemma per action.                                                   *)

GoodStep == Inv' /\ DestroysNothing

LEMMA KeptIsGood ==
    ASSUME FileOK', PendOK', ChanOK', RestOK', ConflictsIndexed', AllKept \/ UserStep
    PROVE  GoodStep
  BY DEF GoodStep, Inv, TypeOK, FileOK, PendOK, ChanOK, RestOK, DestroysNothing, AllKept, Keeps

LEMMA UserGood ==
    ASSUME Inv, NEW d \in Device, NEW p \in Path, Write(d, p) \/ Unlink(d, p)
    PROVE  GoodStep
  <1>1. file \in [Device -> [Path -> FileState]] /\ clock \in 1..MaxContent
    BY DEF Inv, TypeOK
  <1>2. clock' \in 1..MaxContent /\ UserStep
    BY <1>1, BoundAssumption DEF Write, Unlink, UserStep
  <1>3. PICK x \in Content \cup {NoFile} : file' = [file EXCEPT ![d][p].disk = x]
    <2>1. CASE Write(d, p)
      <3>1. clock + 1 \in Content
        BY <1>1, <2>1, BoundAssumption DEF Write, Content
      <3> QED  BY <2>1, <3>1 DEF Write
    <2>2. CASE Unlink(d, p)
      BY <2>2 DEF Unlink
    <2> QED  BY <2>1, <2>2
  <1>4. [file[d][p] EXCEPT !.disk = x] \in FileState
    <2>1. ASSUME NEW f \in FileState
          PROVE  [f EXCEPT !.disk = x] \in FileState
      BY DEF FileState
    <2> QED  BY <1>1, <2>1
  <1>5. FileOK' /\ IndexesStay
    <2>1. file[d][p] \in FileState
      BY <1>1
    <2>2. [file[d][p] EXCEPT !.disk = x].index = file[d][p].index
      BY <2>1 DEF FileState
    <2>3. file' = [file EXCEPT ![d] = [file[d] EXCEPT ![p] = [file[d][p] EXCEPT !.disk = x]]]
      BY <1>1, <1>3
    <2> QED  BY <1>1, <1>4, <2>2, <2>3 DEF FileOK, IndexesStay
  <1>6. UNCHANGED <<pend, claim, chan, up, connects, expired, givenUp>>
    BY DEF Write, Unlink, history
  <1>7. PendOK' /\ ChanOK' /\ RestOK'
    BY <1>2, <1>6 DEF Inv, TypeOK, PendOK, ChanOK, RestOK, Neighbour
  <1>8. ConflictsIndexed'
    BY <1>5, <1>6, ConflictsStay
  <1> QED  BY <1>2, <1>5, <1>7, <1>8, KeptIsGood

(* What a scan records and sends. *)
LEMMA ScanSends ==
    ASSUME Inv, NEW d \in Device
    PROVE  Records(d) \in [Path -> MaybeEntry] /\ Sends(d) \in [Path -> MaybeEntry]
  <1>0. file \in [Device -> [Path -> FileState]]
    BY DEF Inv, TypeOK
  <1>1. ASSUME NEW p \in Path, Changed(file[d][p]) \/ Gone(file[d][p])
        PROVE  Scanned(d, file[d][p]) \in Entry
    <2> DEFINE f == file[d][p]
               previous == IF f.index = NoEntry THEN createVersionVector ELSE f.index.version
               next == incrementVersion(previous, d)
    <2>1. f \in FileState
      BY <1>0
    <2>2. previous \in Version
      BY <2>1, CreateType DEF FileState, MaybeEntry, Entry
    <2>3. next \in Version
      BY <2>2, IncrementType
    <2>4. Changed(f) => f.disk \in Content
      BY <2>1 DEF Changed, FileState
    <2>5. Changed(f) \/ Gone(f)
      BY <1>1
    <2>6. Scanned(d, f) = CASE Changed(f) -> [version |-> next, deleted |-> FALSE, content |-> f.disk]
                            [] Gone(f)    -> [version |-> next, deleted |-> TRUE, content |-> Empty]
      BY DEF Scanned
    <2> HIDE DEF next, f
    <2>7. CASE Changed(f)
      <3>1. ~Gone(f)
        BY <2>7 DEF Changed, Gone
      <3> QED  BY <2>3, <2>4, <2>6, <2>7, <3>1 DEF Entry, f
    <2>8. CASE ~Changed(f)
      BY <2>3, <2>5, <2>6, <2>8, EmptyType DEF Entry, f
    <2> QED  BY <2>7, <2>8
  <1> QED  BY <1>1 DEF Records, Sends, MaybeEntry

LEMMA ScanGood ==
    ASSUME Inv, NEW d \in Device, scanOnce(d)
    PROVE  GoodStep
  <1> DEFINE g == [p \in Path |->
                     IF Records(d)[p] # NoEntry THEN [file[d][p] EXCEPT !.index = Records(d)[p]]
                                                ELSE file[d][p]]
  <1>1. file \in [Device -> [Path -> FileState]] /\ chan \in [Device -> [Device -> Seq(Message)]]
    BY DEF Inv, TypeOK
  <1>2. Records(d) \in [Path -> MaybeEntry]
    BY ScanSends
  <1>3. file' = [file EXCEPT ![d] = g]
    BY <1>1 DEF scanOnce
  <1>4. \A p \in Path : FileStep(file[d][p], g[p])
    <2>1. ASSUME NEW p \in Path, Records(d)[p] # NoEntry
          PROVE  FileStep(file[d][p], [file[d][p] EXCEPT !.index = Records(d)[p]])
      <3>1. file[d][p] \in FileState /\ Records(d)[p] \in MaybeEntry
        BY <1>1, <1>2
      <3> QED  BY <2>1, <3>1 DEF FileStep, Keeps, FileState
    <2> QED  BY <1>1, <2>1, FileStays
  <1>5. g \in [Path -> FileState]
    BY <1>4 DEF FileStep
  <1> HIDE DEF g
  <1>6. FileOK' /\ AllKept /\ IndexesStay
    BY <1>3, <1>4, <1>5, FileUpdate
  <1>7. UNCHANGED <<pend, claim, up, clock, connects, history>>
    BY DEF scanOnce
  <1>8. ChanOK'
    <2> DEFINE m == IndexMessage(Sends(d), FALSE, FALSE)
    <2>1. m \in Message
      BY <1>2, MessageTypes DEF Sends
    <2>2. chan' = [chan EXCEPT ![d] = [e \in Device |->
                    IF e \in Listeners(d) THEN Append(chan[d][e], m) ELSE chan[d][e]]]
      BY <1>1 DEF scanOnce
    <2>3. Listeners(d) \subseteq Neighbour(d)
      BY DEF Listeners
    <2>4. \A x \in Device : Neighbour(x)' = Neighbour(x)
      BY <1>7 DEF Neighbour
    <2> HIDE DEF m
    <2>5. chan' \in [Device -> [Device -> Seq(Message)]]
      BY <1>1, <2>1, <2>2
    <2>6. \A x, y \in Device : y \notin Neighbour(x) => chan'[x][y] = chan[x][y]
      BY <1>1, <2>2, <2>3
    <2>7. \A x, y \in Device : y \notin Neighbour(x) => chan[x][y] = <<>>
      BY DEF Inv, TypeOK
    <2>8. \A x, y \in Device : y \notin Neighbour(x)' => chan'[x][y] = <<>>
      BY <2>4, <2>6, <2>7
    <2> QED  BY <2>5, <2>8 DEF ChanOK
  <1>9. PendOK' /\ RestOK'
    BY <1>7, RestUnchanged
  <1>10. ConflictsIndexed'
    BY <1>6, <1>7, ConflictsStay
  <1> QED  BY <1>6, <1>8, <1>9, <1>10, KeptIsGood

LEMMA NeighbourSymmetric ==
    \A d, e \in Device : e \in Neighbour(d) <=> d \in Neighbour(e)
  <1>1. \A d, e \in Device : {d, e} = {e, d}
    OBVIOUS
  <1> QED  BY <1>1 DEF Neighbour

LEMMA ConnectGood ==
    ASSUME Inv, NEW d \in Device, NEW e \in Device, Connect(d, e)
    PROVE  GoodStep
  <1>1. UNCHANGED <<file, pend, claim, clock, expired, givenUp>> /\ up' = up \cup {{d, e}}
    BY DEF Connect, history
  <1>2. FileOK' /\ AllKept /\ IndexesStay
    BY <1>1, FileUnchanged
  <1>3. ConflictsIndexed'
    BY <1>1, <1>2, ConflictsStay
  <1>4. \A x \in Device : Neighbour(x) \subseteq Neighbour(x)'
    BY <1>1 DEF Neighbour
  <1>5. PendOK'
    BY <1>1, <1>4 DEF Inv, TypeOK, PendOK
  <1>6. RestOK'
    <2>1. claim' \in [Device -> [Path -> Claim]] /\ clock' \in 1..MaxContent
      BY <1>1 DEF Inv, TypeOK
    <2>2. up' \subseteq Link
      BY <1>1 DEF Inv, TypeOK, Connect
    <2>3. connects' \in 0..MaxConnects
      <3>1. connects \in 0..MaxConnects /\ connects < MaxConnects /\ connects' = connects + 1
        BY DEF Inv, TypeOK, Connect
      <3> QED  BY <3>1, BoundAssumption
    <2>4. expired' \subseteq Device \X Path /\ givenUp' \subseteq Device \X Path
      BY <1>1 DEF Inv, TypeOK
    <2> QED  BY <2>1, <2>2, <2>3, <2>4 DEF RestOK
  <1>7. d # e /\ e \in Neighbour(d)' /\ d \in Neighbour(e)'
    <2>1. {d, e} = {e, d}
      OBVIOUS
    <2> QED  BY <1>1, <2>1 DEF Connect, Neighbour
  <1>8. ChanOK'
    <2> DEFINE m1 == IndexMessage(LocalIndex(d), TRUE, FALSE)
               m2 == IndexMessage(LocalIndex(e), TRUE, FALSE)
    <2>1. LocalIndex(d) \in [Path -> MaybeEntry] /\ LocalIndex(e) \in [Path -> MaybeEntry]
      BY DEF LocalIndex, Inv, TypeOK, FileState
    <2>2. m1 \in Message /\ m2 \in Message
      BY <2>1, MessageTypes
    <2>3. chan' = [chan EXCEPT ![d][e] = <<m1>>, ![e][d] = <<m2>>]
      BY DEF Connect
    <2>4. chan \in [Device -> [Device -> Seq(Message)]]
      BY DEF Inv, TypeOK
    <2>5. \A x, y \in Device : y \notin Neighbour(x)' => chan[x][y] = <<>>
      BY <1>4 DEF Inv, TypeOK
    <2> HIDE DEF m1, m2
    <2>6. <<m1>> \in Seq(Message) /\ <<m2>> \in Seq(Message)
      BY <2>2
    <2>7. chan' \in [Device -> [Device -> Seq(Message)]]
      BY <2>3, <2>4, <2>6
    <2>8. \A x, y \in Device : <<x, y>> \notin {<<d, e>>, <<e, d>>} => chan'[x][y] = chan[x][y]
      BY <2>3, <2>4, <1>7
    <2> QED  BY <1>7, <2>5, <2>7, <2>8 DEF ChanOK
  <1> QED  BY <1>2, <1>3, <1>5, <1>6, <1>8, KeptIsGood

LEMMA DisconnectGood ==
    ASSUME Inv, NEW d \in Device, NEW e \in Device, Disconnect(d, e)
    PROVE  GoodStep
  <1> DEFINE none == [p \in Path |-> NoPending]
             freed(x, y) == [p \in Path |-> Released(claim[x][p], y)]
  <1>1. /\ UNCHANGED <<file, clock, connects, expired, givenUp>>
        /\ up' = up \ {{d, e}} /\ d # e
    BY DEF Disconnect, history
  <1>2. FileOK' /\ AllKept /\ IndexesStay
    BY <1>1, FileUnchanged
  <1>3. /\ pend \in [Device -> [Device -> [Path -> Pending]]]
        /\ chan \in [Device -> [Device -> Seq(Message)]]
        /\ claim \in [Device -> [Path -> Claim]]
    BY DEF Inv, TypeOK
  <1>4. \A x, y \in Device :
           y \notin Neighbour(x)' => y \notin Neighbour(x) \/ <<x, y>> \in {<<d, e>>, <<e, d>>}
    BY <1>1 DEF Neighbour
  <1>5. PendOK' /\ ConflictsIndexed'
    <2>1. none \in [Path -> Pending]
      BY DEF Pending
    <2>2. pend' = [pend EXCEPT ![d][e] = none, ![e][d] = none]
      BY DEF Disconnect
    <2>3. \A p \in Path : none[p] = NoPending
      OBVIOUS
    <2> HIDE DEF none
    <2>4. pend' \in [Device -> [Device -> [Path -> Pending]]]
      BY <1>3, <2>1, <2>2
    <2>5. \A x, y \in Device :
            pend'[x][y] = IF <<x, y>> \in {<<d, e>>, <<e, d>>} THEN none ELSE pend[x][y]
      BY <1>1, <1>3, <2>2
    <2>6. \A x, y \in Device : y \notin Neighbour(x) => \A p \in Path : pend[x][y][p] = NoPending
      BY DEF Inv, TypeOK
    <2>7. ASSUME NEW x \in Device, NEW y \in Device, y \notin Neighbour(x)', NEW q \in Path
          PROVE  pend'[x][y][q] = NoPending
      BY <1>4, <2>3, <2>5, <2>6, <2>7
    <2>8. PendOK'
      BY <2>4, <2>7 DEF PendOK
    <2> QED  BY <1>2, <2>3, <2>5, <2>8, ConflictsStay
  <1>6. ChanOK'
    <2>1. chan' = [chan EXCEPT ![d][e] = <<>>, ![e][d] = <<>>]
      BY DEF Disconnect
    <2>2. <<>> \in Seq(Message)
      OBVIOUS
    <2> DEFINE empty == <<>>
    <2> HIDE DEF empty
    <2>3. chan' = [chan EXCEPT ![d][e] = empty, ![e][d] = empty] /\ empty \in Seq(Message)
      BY <2>1, <2>2 DEF empty
    <2>4. chan' \in [Device -> [Device -> Seq(Message)]]
      BY <1>3, <2>3
    <2>5. \A x, y \in Device :
            chan'[x][y] = IF <<x, y>> \in {<<d, e>>, <<e, d>>} THEN empty ELSE chan[x][y]
      BY <1>1, <1>3, <2>3
    <2>6. \A x, y \in Device : y \notin Neighbour(x) => chan[x][y] = empty
      BY DEF Inv, TypeOK, empty
    <2>7. \A x, y \in Device : y \notin Neighbour(x)' => chan'[x][y] = empty
      BY <1>4, <2>5, <2>6
    <2> QED  BY <2>4, <2>7 DEF ChanOK, empty
  <1>7. RestOK'
    <2>1. \A x, y \in Device : freed(x, y) \in [Path -> Claim]
      BY <1>3, ReleasedType
    <2>2. claim' = [claim EXCEPT ![d] = freed(d, e), ![e] = freed(e, d)]
      BY <1>1, <1>3 DEF Disconnect
    <2> HIDE DEF freed
    <2>3. claim' \in [Device -> [Path -> Claim]]
      BY <1>3, <2>1, <2>2
    <2> QED  BY <1>1, <2>3 DEF RestOK, Inv, TypeOK
  <1> QED  BY <1>2, <1>5, <1>6, <1>7, KeptIsGood

LEMMA RequestGood ==
    ASSUME Inv, NEW d \in Device, NEW e \in Device, handleBlockRequest(d, e)
    PROVE  GoodStep
  <1> DEFINE m == Head(chan[e][d])
             data == file[d][m.path].disk
             reply == IF data = NoFile THEN <<>> ELSE <<BlockResponse(m.path, m.hash, data)>>
  <1>1. UNCHANGED <<file, pend, claim, up, clock, connects, history>>
    BY DEF handleBlockRequest
  <1>2. chan[e][d] # <<>> /\ m \in Message /\ m.type = "block-request"
    BY ReceivedFacts DEF handleBlockRequest, Received
  <1>3. m.path \in Path /\ m.hash \in Content
    BY <1>2 DEF Message
  <1>4. data \in Content \cup {NoFile}
    BY <1>3 DEF Inv, TypeOK, FileState
  <1>5. reply \in Seq(Message)
    <2>1. data # NoFile => BlockResponse(m.path, m.hash, data) \in Message
      <3> HIDE DEF m, data
      <3> QED  BY <1>3, <1>4, MessageTypes
    <2> HIDE DEF m, data
    <2> QED  BY <2>1
  <1>6. Deliver(d, e, reply, <<>>)
    BY Zenon DEF handleBlockRequest
  <1>7. ChanOK'
    <2>1. <<>> \in Seq(Message)
      OBVIOUS
    <2> HIDE DEF reply
    <2> QED  BY <1>1, <1>2, <1>5, <1>6, <2>1, DeliverChan
  <1>8. FileOK' /\ AllKept /\ IndexesStay
    BY <1>1, FileUnchanged
  <1>9. ConflictsIndexed'
    BY <1>1, <1>8, ConflictsStay
  <1>10. PendOK' /\ RestOK'
    BY <1>1, RestUnchanged
  <1> QED  BY <1>7, <1>8, <1>9, <1>10, KeptIsGood

LEMMA RetryGood ==
    ASSUME Inv, NEW d \in Device, NEW e \in Device, NEW p \in Path, retryBlock(d, e, p)
    PROVE  GoodStep
  <1> DEFINE c == pend[d][e][p].entry.content
             m == BlockRequest(p, c)
  <1>1. UNCHANGED <<file, pend, claim, up, clock, connects, history>>
    BY DEF retryBlock
  <1>2. pend[d][e][p] \in Item /\ pend[d][e][p] # NoPending
    BY DEF retryBlock, Unanswered, Inv, TypeOK, Pending
  <1>3. m \in Message
    <2>1. c \in Content
      BY <1>2 DEF Item, Entry
    <2> QED  BY <2>1, MessageTypes
  <1>4. e \in Neighbour(d)
    BY <1>2 DEF Inv, TypeOK
  <1>5. chan \in [Device -> [Device -> Seq(Message)]]
    BY DEF Inv, TypeOK
  <1>6. chan' = [chan EXCEPT ![d][e] = Append(chan[d][e], m)]
    BY <1>5 DEF retryBlock
  <1>7. ChanOK'
    <2> HIDE DEF m
    <2>1. chan' \in [Device -> [Device -> Seq(Message)]]
      BY <1>3, <1>5, <1>6
    <2>2. \A x, y \in Device : <<x, y>> # <<d, e>> => chan'[x][y] = chan[x][y]
      BY <1>5, <1>6
    <2>3. \A x \in Device : Neighbour(x)' = Neighbour(x)
      BY <1>1 DEF Neighbour
    <2>4. \A x, y \in Device : y \notin Neighbour(x) => chan[x][y] = <<>>
      BY DEF Inv, TypeOK
    <2>5. \A x, y \in Device : y \notin Neighbour(x)' => chan'[x][y] = <<>>
      BY <1>4, <2>2, <2>3, <2>4
    <2> QED  BY <2>1, <2>5 DEF ChanOK
  <1>8. FileOK' /\ AllKept /\ IndexesStay
    BY <1>1, FileUnchanged
  <1>9. ConflictsIndexed'
    BY <1>1, <1>8, ConflictsStay
  <1>10. PendOK' /\ RestOK'
    BY <1>1, RestUnchanged
  <1> QED  BY <1>7, <1>8, <1>9, <1>10, KeptIsGood

LEMMA DropGood ==
    ASSUME Inv, NEW d \in Device, NEW e \in Device, NEW p \in Path, dropIfUnservable(d, e, p)
    PROVE  GoodStep
  <1> DEFINE freed == Released(claim[d][p], e)
  <1>1. /\ UNCHANGED <<file, chan, up, clock, connects, expired>>
        /\ givenUp' = givenUp \cup {<<d, p>>}
    BY DEF dropIfUnservable
  <1>2. /\ pend \in [Device -> [Device -> [Path -> Pending]]]
        /\ claim \in [Device -> [Path -> Claim]]
    BY DEF Inv, TypeOK
  <1>3. FileOK' /\ AllKept /\ IndexesStay
    BY <1>1, FileUnchanged
  <1>4. pend' = [pend EXCEPT ![d][e][p] = NoPending]
    BY DEF dropIfUnservable
  <1>5. \A x, y \in Device, q \in Path :
           pend'[x][y][q] = pend[x][y][q] \/ pend'[x][y][q] = NoPending
    BY <1>2, <1>4
  <1>6. PendOK'
    <2>1. pend' \in [Device -> [Device -> [Path -> Pending]]]
      BY <1>2, <1>4 DEF Pending
    <2>2. \A x \in Device : Neighbour(x)' = Neighbour(x)
      BY <1>1 DEF Neighbour
    <2>3. \A x, y \in Device : y \notin Neighbour(x) => \A q \in Path : pend[x][y][q] = NoPending
      BY DEF Inv, TypeOK
    <2>4. ASSUME NEW x \in Device, NEW y \in Device, y \notin Neighbour(x)', NEW q \in Path
          PROVE  pend'[x][y][q] = NoPending
      BY <1>5, <2>2, <2>3, <2>4
    <2> QED  BY <2>1, <2>4 DEF PendOK
  <1>7. ConflictsIndexed'
    BY <1>3, <1>5, ConflictsStay
  <1>8. claim' \in [Device -> [Path -> Claim]]
    <2>1. freed \in Claim
      BY <1>2, ReleasedType
    <2>2. claim' = [claim EXCEPT ![d][p] = freed]
      BY <1>2 DEF dropIfUnservable
    <2> HIDE DEF freed
    <2> QED  BY <1>2, <2>1, <2>2
  <1>9. ChanOK' /\ RestOK'
    BY <1>1, <1>8, SMTT(40) DEF Inv, TypeOK, ChanOK, RestOK, Neighbour
  <1> QED  BY <1>3, <1>6, <1>7, <1>9, KeptIsGood

LEMMA ResponseGood ==
    ASSUME Inv, NEW d \in Device, NEW e \in Device, onBlockResponse(d, e)
    PROVE  GoodStep
  <1> DEFINE m == Head(chan[e][d])
             q == m.path
             item == pend[d][e][q]
             accepted == item # NoPending /\ m.hash = item.entry.content /\ m.data = m.hash
  <1>1. UNCHANGED <<up, clock, connects, history>> /\ Deliver(d, e, <<>>, <<>>)
    BY ZenonT(60) DEF onBlockResponse
  <1>2. chan[e][d] # <<>> /\ m \in Message /\ m.type = "block-response"
    BY ReceivedFacts, Zenon DEF onBlockResponse, Received
  <1>3. q \in Path
    BY <1>2 DEF Message
  <1>4. /\ file \in [Device -> [Path -> FileState]]
        /\ pend \in [Device -> [Device -> [Path -> Pending]]]
        /\ claim \in [Device -> [Path -> Claim]]
    BY DEF Inv, TypeOK
  <1>5. ChanOK'
    <2>1. <<>> \in Seq(Message)
      OBVIOUS
    <2> QED  BY <1>1, <1>2, <2>1, DeliverChan, Zenon
  <1>6. \A x \in Device : Neighbour(x)' = Neighbour(x)
    BY <1>1 DEF Neighbour
  <1>7. /\ accepted => /\ file' = [file EXCEPT ![d][q] = Land(file[d][q], item)]
                       /\ pend' = [pend EXCEPT ![d][e][q] = NoPending]
                       /\ claim' = [claim EXCEPT ![d][q] = Released(claim[d][q], e)]
        /\ ~accepted => file' = file /\ pend' = pend /\ claim' = claim
    BY <1>3, <1>4, Zenon DEF onBlockResponse
  <1> HIDE DEF q, m
  <1>8. CASE accepted
    <2> DEFINE landed == Land(file[d][q], item)
               g == [file[d] EXCEPT ![q] = landed]
               freed == Released(claim[d][q], e)
    <2>1. item \in Item /\ (item.kind = "conflict" => file[d][q].index # NoEntry)
      BY <1>3, <1>4, <1>8 DEF Pending, Inv, ConflictsIndexed
    <2>2. landed \in FileState /\ FileStep(file[d][q], landed)
      BY <1>3, <1>4, <2>1, LandType, LandStep
    <2>3. file' = [file EXCEPT ![d] = g]
      BY <1>3, <1>4, <1>7, <1>8
    <2>4. g \in [Path -> FileState]
      <3> HIDE DEF landed
      <3> QED  BY <1>3, <1>4, <2>2
    <2>5. ASSUME NEW r \in Path
          PROVE  FileStep(file[d][r], g[r])
      <3>1. CASE r = q
        <4>1. g[r] = landed
          BY <1>3, <1>4, <3>1
        <4> QED  BY <2>2, <3>1, <4>1
      <3>2. CASE r # q
        <4>1. g[r] = file[d][r]
          BY <1>3, <1>4, <3>2
        <4>2. file[d][r] \in FileState
          BY <1>4
        <4> QED  BY <4>1, <4>2, FileStays
      <3> QED  BY <3>1, <3>2
    <2>6. FileOK' /\ AllKept /\ IndexesStay
      <3> HIDE DEF g
      <3> QED  BY <2>3, <2>4, <2>5, FileUpdate
    <2>0. pend' = [pend EXCEPT ![d][e][q] = NoPending]
      BY <1>7, <1>8
    <2>7. \A x, y \in Device, r \in Path :
             pend'[x][y][r] = pend[x][y][r] \/ pend'[x][y][r] = NoPending
      <3> HIDE DEF item, accepted
      <3> QED  BY <1>3, <1>4, <2>0
    <2>8. ConflictsIndexed'
      BY <2>6, <2>7, ConflictsStay
    <2>9. PendOK'
      <3>1. pend' \in [Device -> [Device -> [Path -> Pending]]]
        <4> HIDE DEF item, accepted
        <4> QED  BY <1>3, <1>4, <2>0 DEF Pending
      <3>2. \A x, y \in Device : y \notin Neighbour(x) => \A r \in Path : pend[x][y][r] = NoPending
        BY DEF Inv, TypeOK
      <3>3. ASSUME NEW x \in Device, NEW y \in Device, y \notin Neighbour(x)', NEW r \in Path
            PROVE  pend'[x][y][r] = NoPending
        BY <1>6, <2>7, <3>2, <3>3
      <3> QED  BY <3>1, <3>3 DEF PendOK
    <2>10. RestOK'
      <3>1. freed \in Claim
        BY <1>3, <1>4, ReleasedType
      <3>2. claim' = [claim EXCEPT ![d][q] = freed]
        BY <1>7, <1>8
      <3> HIDE DEF freed
      <3>3. claim' \in [Device -> [Path -> Claim]]
        BY <1>3, <1>4, <3>1, <3>2
      <3> QED  BY <1>1, <3>3 DEF RestOK, Inv, TypeOK, history
    <2> QED  BY <1>5, <2>6, <2>8, <2>9, <2>10, KeptIsGood
  <1>9. CASE ~accepted
    <2>1. file' = file /\ pend' = pend /\ claim' = claim
      BY <1>7, <1>9
    <2>2. FileOK' /\ AllKept /\ IndexesStay
      BY <2>1, FileUnchanged
    <2>3. ConflictsIndexed'
      BY <2>1, <2>2, ConflictsStay
    <2>4. PendOK' /\ RestOK'
      BY <1>1, <2>1, RestUnchanged
    <2> QED  BY <1>5, <2>2, <2>3, <2>4, KeptIsGood
  <1> QED  BY <1>8, <1>9

(* The requests of one message in some order.                              *)
LEMMA SetToSeqType ==
    ASSUME NEW S, IsFiniteSet(S)
    PROVE  /\ SetToSeq(S) \in [1..Cardinality(S) -> S] /\ Cardinality(S) \in Nat
           /\ \A x \in S : \E i \in 1..Cardinality(S) : SetToSeq(S)[i] = x
  <1> DEFINE n == Cardinality(S)
  <1>1. n \in Nat /\ ExistsBijection(1..n, S)
    BY FS_CardinalityType
  <1>2. \E f \in [1..n -> S] : IsInjective(f)
    BY <1>1 DEF ExistsBijection, Bijection, Injection
  <1>3. SetToSeq(S) \in [1..n -> S] /\ IsInjective(SetToSeq(S))
    BY <1>2 DEF SetToSeq
  <1>4. SetToSeq(S) \in Injection(1..n, S)
    BY <1>3 DEF Injection
  <1>5. Cardinality(1..n) = n
    <2> HIDE DEF n
    <2>1. 1 \in Int /\ n \in Int
      BY <1>1
    <2>2. Cardinality(1..n) = IF 1 > n THEN 0 ELSE n - 1 + 1
      BY <2>1, FS_Interval
    <2> QED  BY <1>1, <2>2
  <1>6. SetToSeq(S) \in Surjection(1..n, S)
    BY <1>4, <1>5, FS_Injection
  <1> QED  BY <1>1, <1>3, <1>6 DEF Surjection

(* Messages of a channel that a step lengthens or shortens. *)

LEMMA RangeOfTail ==
    ASSUME NEW S, NEW s \in Seq(S), s # <<>>
    PROVE  Range(Tail(s)) \subseteq Range(s) /\ Head(s) \in Range(s)
  <1>1. Len(s) \in Nat \ {0} /\ DOMAIN s = 1..Len(s)
    OBVIOUS
  <1>2. Head(s) = s[1] /\ 1 \in DOMAIN s
    BY <1>1
  <1>3. DOMAIN Tail(s) = 1..(Len(s) - 1) /\ \A i \in 1..(Len(s) - 1) : Tail(s)[i] = s[i + 1]
    BY <1>1
  <1> QED  BY <1>1, <1>2, <1>3 DEF Range

LEMMA RangeOfConcat ==
    ASSUME NEW S, NEW s \in Seq(S), NEW t \in Seq(S)
    PROVE  Range(s \o t) \subseteq Range(s) \cup Range(t)
  <1>1. /\ Len(s) \in Nat /\ DOMAIN s = 1..Len(s) /\ Len(t) \in Nat /\ DOMAIN t = 1..Len(t)
    OBVIOUS
  <1>2. DOMAIN (s \o t) = 1..(Len(s) + Len(t))
    BY <1>1
  <1>3. ASSUME NEW i \in DOMAIN (s \o t)
        PROVE  (s \o t)[i] \in Range(s) \cup Range(t)
    <2>1. i \in 1..(Len(s) + Len(t))
      BY <1>2, <1>3
    <2>2. CASE i <= Len(s)
      BY <1>1, <2>1, <2>2 DEF Range
    <2>3. CASE i > Len(s)
      <3>1. (s \o t)[i] = t[i - Len(s)] /\ i - Len(s) \in DOMAIN t
        BY <1>1, <2>1, <2>3
      <3> QED  BY <3>1 DEF Range
    <2> QED  BY <1>1, <2>1, <2>2, <2>3
  <1> QED  BY <1>3 DEF Range

LEMMA RangeOfAppend ==
    ASSUME NEW S, NEW s \in Seq(S), NEW m \in S
    PROVE  Range(Append(s, m)) \subseteq Range(s) \cup {m}
  <1>1. Len(s) \in Nat /\ DOMAIN s = 1..Len(s)
    OBVIOUS
  <1>2. DOMAIN Append(s, m) = 1..(Len(s) + 1)
    BY <1>1
  <1>3. ASSUME NEW i \in DOMAIN Append(s, m)
        PROVE  Append(s, m)[i] \in Range(s) \cup {m}
    BY <1>1, <1>2, <1>3 DEF Range
  <1> QED  BY <1>3 DEF Range

(* Every message stays where a channel is lengthened; the first one goes.  *)
LEMMA RangeHolds ==
    ASSUME NEW S, NEW s \in Seq(S), NEW t \in Seq(S)
    PROVE  Range(s) \subseteq Range(s \o t) /\ Range(t) \subseteq Range(s \o t)
  <1>1. /\ Len(s) \in Nat /\ DOMAIN s = 1..Len(s) /\ Len(t) \in Nat /\ DOMAIN t = 1..Len(t)
        /\ DOMAIN (s \o t) = 1..(Len(s) + Len(t))
    OBVIOUS
  <1>2. ASSUME NEW i \in DOMAIN s
        PROVE  i \in DOMAIN (s \o t) /\ (s \o t)[i] = s[i]
    BY <1>1
  <1>3. ASSUME NEW i \in DOMAIN t
        PROVE  Len(s) + i \in DOMAIN (s \o t) /\ (s \o t)[Len(s) + i] = t[i]
    BY <1>1
  <1> QED  BY <1>2, <1>3 DEF Range

LEMMA RangeKept ==
    ASSUME NEW S, NEW s \in Seq(S), NEW m \in S
    PROVE  Range(s) \subseteq Range(Append(s, m))
  <1>1. Len(s) \in Nat /\ DOMAIN s = 1..Len(s) /\ DOMAIN Append(s, m) = 1..(Len(s) + 1)
    OBVIOUS
  <1>2. ASSUME NEW i \in DOMAIN s
        PROVE  i \in DOMAIN Append(s, m) /\ Append(s, m)[i] = s[i]
    BY <1>1
  <1> QED  BY <1>2 DEF Range

LEMMA RangeOfRest ==
    ASSUME NEW S, NEW s \in Seq(S), NEW m \in Range(s)
    PROVE  m = Head(s) \/ m \in Range(Tail(s))
  <1>1. PICK i \in DOMAIN s : m = s[i]
    BY DEF Range
  <1>2. Len(s) \in Nat \ {0} /\ i \in 1..Len(s) /\ Head(s) = s[1]
    BY <1>1
  <1>3. DOMAIN Tail(s) = 1..(Len(s) - 1) /\ \A j \in 1..(Len(s) - 1) : Tail(s)[j] = s[j + 1]
    BY <1>2
  <1>4. CASE i = 1
    BY <1>1, <1>2, <1>4
  <1>5. CASE i # 1
    <2>1. i - 1 \in 1..(Len(s) - 1) /\ (i - 1) + 1 = i
      BY <1>2, <1>5
    <2>2. Tail(s)[i - 1] = m
      BY <1>1, <1>3, <2>1
    <2> QED  BY <1>3, <2>1, <2>2 DEF Range
  <1> QED  BY <1>4, <1>5

LEMMA RangeOfOne ==
    ASSUME NEW m
    PROVE  Range(<<m>>) = {m} /\ Range(<<>>) = {}
  BY DEF Range

(* What onPeerIndex does, with its outcome, reply and relay named. *)
LEMMA IndexDetail ==
    ASSUME Inv, NEW d \in Device, NEW e \in Device, onPeerIndex(d, e)
    PROVE  LET m == Head(chan[e][d])
           IN  /\ chan[e][d] # <<>> /\ m \in Message /\ m.type = "index"
               /\ m.entries \in [Path -> MaybeEntry]
               /\ \E outcome, reply, relay :
                     /\ \A p \in Path :
                           /\ GoodOutcome(d, e, p, m.entries[p], outcome[p])
                           /\ \E action \in {"none", planPath(file[d][p].index, m.entries[p])} :
                                 outcome[p] = Outcome(d, e, p, action, m.entries[p], m.full, m.relayed)
                     /\ file' = [file EXCEPT ![d] = [p \in Path |-> outcome[p].file]]
                     /\ pend' = [pend EXCEPT ![d][e] = [p \in Path |-> outcome[p].pend]]
                     /\ claim' = [claim EXCEPT ![d] = [p \in Path |-> outcome[p].claim]]
                     /\ Deliver(d, e, reply, relay)
                     /\ reply \in Seq(Message) /\ relay \in Seq(Message)
                     /\ \A n \in Range(reply) :
                           \/ n.type = "block-request"
                           \/ n = IndexMessage([p \in Path |-> outcome[p].send], FALSE, FALSE)
                     /\ \A n \in Range(relay) :
                           n = IndexMessage([p \in Path |-> outcome[p].landed], FALSE, TRUE)
                     /\ \A p \in Path : outcome[p].request
                           => BlockRequest(p, m.entries[p].content) \in Range(reply)
               /\ UNCHANGED <<up, clock, connects, history>>
  <1> DEFINE m == Head(chan[e][d])
             outcome == PlannedOutcome(d, e, m)
             plan == IF m.full THEN buildPlan(LocalIndex(d), m.entries)
                               ELSE buildDeltaPlan(LocalIndex(d), m.entries)
             chosen(p) == IF p \in DOMAIN plan THEN plan[p] ELSE "none"
             asked == {p \in Path : outcome[p].request}
             wanted == SetToSeq(asked)
             requests == [i \in DOMAIN wanted |->
                            BlockRequest(wanted[i], m.entries[wanted[i]].content)]
             sends == [p \in Path |-> outcome[p].send]
             landed == [p \in Path |-> outcome[p].landed]
             sent == IndexMessage(sends, FALSE, FALSE)
             told == IndexMessage(landed, FALSE, TRUE)
             reply == requests \o (IF sends = NoEntries THEN <<>> ELSE <<sent>>)
             relay == IF m.full \/ d \in ReceiveOnly \/ landed = NoEntries THEN <<>>
                      ELSE <<told>>
             files == [p \in Path |-> outcome[p].file]
             pends == [p \in Path |-> outcome[p].pend]
             claims == [p \in Path |-> outcome[p].claim]
  <1>1. chan[e][d] # <<>> /\ m \in Message /\ m.type = "index"
    BY ReceivedFacts, Zenon DEF onPeerIndex, Received
  <1>2. m.entries \in [Path -> MaybeEntry] /\ m.full \in BOOLEAN /\ m.relayed \in BOOLEAN
    BY <1>1 DEF Message
  <1>3. \A p \in Path :
           /\ GoodOutcome(d, e, p, m.entries[p], outcome[p])
           /\ \E action \in {"none", planPath(file[d][p].index, m.entries[p])} :
                 outcome[p] = Outcome(d, e, p, action, m.entries[p], m.full, m.relayed)
    <2>1. LocalIndex(d) = [p \in Path |-> file[d][p].index]
      BY Zenon DEF LocalIndex
    <2>2. ASSUME NEW p \in Path
          PROVE  chosen(p) \in {"none", planPath(file[d][p].index, m.entries[p])}
      BY <1>2, <2>1, <2>2, Zenon DEF buildPlan, buildDeltaPlan, Mentioned
    <2>3. ASSUME NEW x \in MaybeEntry, NEW y \in MaybeEntry
          PROVE  planPath(x, y) \in {"none", "send", "delete", "receive", "conflict"}
      <3>1. compareFileState(x, y) \in {"equal", "local-newer", "remote-newer", "conflict"}
        BY DEF compareFileState, compareVersions
      <3> QED  BY <3>1 DEF planPath
    <2>4. ASSUME NEW p \in Path
          PROVE  GoodOutcome(d, e, p, m.entries[p],
                     Outcome(d, e, p, chosen(p), m.entries[p], m.full, m.relayed))
      <3>1. file[d][p].index \in MaybeEntry /\ m.entries[p] \in MaybeEntry
        BY <1>2 DEF Inv, TypeOK, FileState
      <3>2. chosen(p) \in {"none", planPath(file[d][p].index, m.entries[p])}
        BY <2>2
      <3>3. chosen(p) \in {"none", "send", "delete", "receive", "conflict"}
        BY <2>3, <3>1, <3>2
      <3> HIDE DEF chosen, m
      <3> QED  BY <3>1, <3>2, <3>3, OutcomeGood
    <2>5. outcome = [p \in Path |->
                       Outcome(d, e, p, chosen(p), m.entries[p], m.full, m.relayed)]
      BY DEF PlannedOutcome
    <2> HIDE DEF outcome, chosen, m
    <2> QED  BY <2>2, <2>4, <2>5
  <1>4. /\ file' = [file EXCEPT ![d] = files]
        /\ pend' = [pend EXCEPT ![d][e] = pends]
        /\ claim' = [claim EXCEPT ![d] = claims]
        /\ Deliver(d, e, reply, relay)
        /\ UNCHANGED <<up, clock, connects, history>>
    <2> DEFINE effect(o) ==
          LET w == SetToSeq({p \in Path : o[p].request})
              r == [i \in DOMAIN w |-> BlockRequest(w[i], m.entries[w[i]].content)]
              s == [p \in Path |-> o[p].send]
              l == [p \in Path |-> o[p].landed]
          IN  /\ file' = [file EXCEPT ![d] = [p \in Path |-> o[p].file]]
              /\ pend' = [pend EXCEPT ![d][e] = [p \in Path |-> o[p].pend]]
              /\ claim' = [claim EXCEPT ![d] = [p \in Path |-> o[p].claim]]
              /\ Deliver(d, e,
                   r \o (IF s = NoEntries THEN <<>> ELSE <<IndexMessage(s, FALSE, FALSE)>>),
                   IF m.full \/ d \in ReceiveOnly \/ l = NoEntries THEN <<>>
                   ELSE <<IndexMessage(l, FALSE, TRUE)>>)
    <2>1. (\E o \in {PlannedOutcome(d, e, m)} : effect(o)) /\ UNCHANGED <<up, clock, connects, history>>
      BY Zenon DEF onPeerIndex
    <2> HIDE DEF effect
    <2>2. effect(outcome)
      BY <2>1
    <2> QED  BY <2>1, <2>2, Zenon DEF effect
  <1> HIDE DEF outcome, m
  <1>5. sends \in [Path -> MaybeEntry] /\ landed \in [Path -> MaybeEntry]
    BY <1>3 DEF GoodOutcome, OutcomeType
  <1>6. sent \in Message /\ told \in Message
    BY <1>5, MessageTypes
  <1>7. /\ requests \in Seq(Message) /\ \A n \in Range(requests) : n.type = "block-request"
        /\ \A p \in asked : BlockRequest(p, m.entries[p].content) \in Range(requests)
    <2>1. IsFiniteSet(asked)
      BY PathAssumption, FS_Subset
    <2>2. /\ wanted \in [1..Cardinality(asked) -> asked] /\ Cardinality(asked) \in Nat
          /\ \A p \in asked : \E i \in 1..Cardinality(asked) : wanted[i] = p
      <3> HIDE DEF asked
      <3> QED  BY <2>1, SetToSeqType
    <2>3. ASSUME NEW p \in asked
          PROVE  BlockRequest(p, m.entries[p].content) \in Message
      <3>1. m.entries[p] \in Entry
        BY <1>2, <1>3 DEF GoodOutcome, MaybeEntry
      <3>2. m.entries[p].content \in Content
        BY <3>1 DEF Entry
      <3> QED  BY <3>2, MessageTypes
    <2>4. requests \in [1..Cardinality(asked) -> Message]
      <3> HIDE DEF asked, wanted
      <3> QED  BY <2>2, <2>3
    <2>5. \A n \in Range(requests) : n.type = "block-request"
      <3> HIDE DEF asked, wanted
      <3> QED  BY DEF Range, BlockRequest
    <2>6. requests \in Seq(Message)
      <3> HIDE DEF asked, requests
      <3> QED  BY <2>2, <2>4
    <2>7. ASSUME NEW p \in asked
          PROVE  BlockRequest(p, m.entries[p].content) \in Range(requests)
      <3> HIDE DEF asked, wanted
      <3>1. PICK i \in 1..Cardinality(asked) : wanted[i] = p
        BY <2>2
      <3>2. i \in DOMAIN requests /\ requests[i] = BlockRequest(p, m.entries[p].content)
        BY <2>2, <3>1
      <3> HIDE DEF requests
      <3> QED  BY <3>2 DEF Range
    <2> QED  BY <2>5, <2>6, <2>7
  <1> HIDE DEF requests, sent, told
  <1>8. /\ reply \in Seq(Message) /\ \A n \in Range(reply) : n.type = "block-request" \/ n = sent
        /\ Range(requests) \subseteq Range(reply)
    <2> DEFINE news == IF sends = NoEntries THEN <<>> ELSE <<sent>>
    <2>1. news \in Seq(Message)
      BY <1>6
    <2>2. \A n \in Range(news) : n = sent
      BY RangeOfOne
    <2> HIDE DEF news
    <2>3. Range(requests \o news) \subseteq Range(requests) \cup Range(news)
      BY <1>7, <2>1, RangeOfConcat
    <2>4. requests \o news \in Seq(Message)
      BY <1>7, <2>1
    <2>5. Range(requests) \subseteq Range(requests \o news)
      BY <1>7, <2>1, RangeHolds
    <2> QED  BY <1>7, <2>2, <2>3, <2>4, <2>5 DEF news
  <1>9. relay \in Seq(Message) /\ \A n \in Range(relay) : n = told
    <2>1. relay \in Seq(Message)
      BY <1>6
    <2>2. \A n \in Range(relay) : n = told
      BY RangeOfOne
    <2> QED  BY <2>1, <2>2
  <1>10. sent = IndexMessage(sends, FALSE, FALSE) /\ told = IndexMessage(landed, FALSE, TRUE)
    BY DEF sent, told
  <1> HIDE DEF reply, relay
  <1>11. /\ \A p \in Path :
                 /\ GoodOutcome(d, e, p, m.entries[p], outcome[p])
                 /\ \E action \in {"none", planPath(file[d][p].index, m.entries[p])} :
                       outcome[p] = Outcome(d, e, p, action, m.entries[p], m.full, m.relayed)
         /\ file' = [file EXCEPT ![d] = [p \in Path |-> outcome[p].file]]
         /\ pend' = [pend EXCEPT ![d][e] = [p \in Path |-> outcome[p].pend]]
         /\ claim' = [claim EXCEPT ![d] = [p \in Path |-> outcome[p].claim]]
         /\ Deliver(d, e, reply, relay)
         /\ reply \in Seq(Message) /\ relay \in Seq(Message)
         /\ \A n \in Range(reply) :
               \/ n.type = "block-request"
               \/ n = IndexMessage([p \in Path |-> outcome[p].send], FALSE, FALSE)
         /\ \A n \in Range(relay) :
               n = IndexMessage([p \in Path |-> outcome[p].landed], FALSE, TRUE)
         /\ \A p \in Path : outcome[p].request
               => BlockRequest(p, m.entries[p].content) \in Range(reply)
    BY <1>3, <1>4, <1>7, <1>8, <1>9, <1>10
  <1>12. UNCHANGED <<up, clock, connects, history>>
    BY <1>4
  <1> HIDE DEF sends, landed
  <1> QED  BY <1>1, <1>2, <1>11, <1>12, Zenon DEF m

LEMMA IndexEffect ==
    ASSUME Inv, NEW d \in Device, NEW e \in Device, onPeerIndex(d, e)
    PROVE  LET m == Head(chan[e][d])
           IN  /\ chan[e][d] # <<>> /\ m \in Message /\ m.type = "index"
               /\ m.entries \in [Path -> MaybeEntry]
               /\ \E outcome, reply, relay :
                     /\ \A p \in Path :
                           /\ GoodOutcome(d, e, p, m.entries[p], outcome[p])
                           /\ \E action \in {"none", planPath(file[d][p].index, m.entries[p])} :
                                 outcome[p] = Outcome(d, e, p, action, m.entries[p], m.full, m.relayed)
                     /\ file' = [file EXCEPT ![d] = [p \in Path |-> outcome[p].file]]
                     /\ pend' = [pend EXCEPT ![d][e] = [p \in Path |-> outcome[p].pend]]
                     /\ claim' = [claim EXCEPT ![d] = [p \in Path |-> outcome[p].claim]]
                     /\ Deliver(d, e, reply, relay)
                     /\ reply \in Seq(Message) /\ relay \in Seq(Message)
                     /\ \A n \in Range(reply) :
                           \/ n.type = "block-request"
                           \/ n = IndexMessage([p \in Path |-> outcome[p].send], FALSE, FALSE)
                     /\ \A n \in Range(relay) :
                           n = IndexMessage([p \in Path |-> outcome[p].landed], FALSE, TRUE)
               /\ UNCHANGED <<up, clock, connects, history>>
  <1> DEFINE m == Head(chan[e][d])
  <1>1. /\ chan[e][d] # <<>> /\ m \in Message /\ m.type = "index"
        /\ m.entries \in [Path -> MaybeEntry] /\ UNCHANGED <<up, clock, connects, history>>
    BY IndexDetail, Zenon
  <1>2. PICK outcome, reply, relay :
                     /\ \A p \in Path :
                           /\ GoodOutcome(d, e, p, m.entries[p], outcome[p])
                           /\ \E action \in {"none", planPath(file[d][p].index, m.entries[p])} :
                                 outcome[p] = Outcome(d, e, p, action, m.entries[p], m.full, m.relayed)
                     /\ file' = [file EXCEPT ![d] = [p \in Path |-> outcome[p].file]]
                     /\ pend' = [pend EXCEPT ![d][e] = [p \in Path |-> outcome[p].pend]]
                     /\ claim' = [claim EXCEPT ![d] = [p \in Path |-> outcome[p].claim]]
                     /\ Deliver(d, e, reply, relay)
                     /\ reply \in Seq(Message) /\ relay \in Seq(Message)
                     /\ \A n \in Range(reply) :
                           \/ n.type = "block-request"
                           \/ n = IndexMessage([p \in Path |-> outcome[p].send], FALSE, FALSE)
                     /\ \A n \in Range(relay) :
                           n = IndexMessage([p \in Path |-> outcome[p].landed], FALSE, TRUE)
                     /\ \A p \in Path : outcome[p].request
                           => BlockRequest(p, m.entries[p].content) \in Range(reply)
    BY IndexDetail, Zenon
  <1> HIDE DEF m
  <1> QED  BY <1>1, <1>2, Zenon DEF m

LEMMA IndexGood ==
    ASSUME Inv, NEW d \in Device, NEW e \in Device, onPeerIndex(d, e)
    PROVE  GoodStep
  <1> DEFINE m == Head(chan[e][d])
  <1>1. chan[e][d] # <<>>
    BY IndexEffect, Zenon
  <1>2. /\ up' = up /\ clock' = clock /\ connects' = connects /\ history' = history
        /\ \E outcome, reply, relay :
             /\ \A p \in Path : GoodOutcome(d, e, p, m.entries[p], outcome[p])
             /\ file' = [file EXCEPT ![d] = [p \in Path |-> outcome[p].file]]
             /\ pend' = [pend EXCEPT ![d][e] = [p \in Path |-> outcome[p].pend]]
             /\ claim' = [claim EXCEPT ![d] = [p \in Path |-> outcome[p].claim]]
             /\ Deliver(d, e, reply, relay)
             /\ reply \in Seq(Message) /\ relay \in Seq(Message)
    BY IndexEffect, Zenon
  <1>3. PICK outcome, reply, relay :
             /\ \A p \in Path : GoodOutcome(d, e, p, m.entries[p], outcome[p])
             /\ file' = [file EXCEPT ![d] = [p \in Path |-> outcome[p].file]]
             /\ pend' = [pend EXCEPT ![d][e] = [p \in Path |-> outcome[p].pend]]
             /\ claim' = [claim EXCEPT ![d] = [p \in Path |-> outcome[p].claim]]
             /\ Deliver(d, e, reply, relay)
             /\ reply \in Seq(Message) /\ relay \in Seq(Message)
    BY <1>2, Zenon
  <1> DEFINE files == [p \in Path |-> outcome[p].file]
             pends == [p \in Path |-> outcome[p].pend]
             claims == [p \in Path |-> outcome[p].claim]
  <1> HIDE DEF m
  <1>4. /\ file' = [file EXCEPT ![d] = files]
        /\ pend' = [pend EXCEPT ![d][e] = pends]
        /\ claim' = [claim EXCEPT ![d] = claims]
        /\ Deliver(d, e, reply, relay)
        /\ UNCHANGED <<up, clock, connects, history>>
    BY <1>2, <1>3
  <1>5. /\ pend \in [Device -> [Device -> [Path -> Pending]]]
        /\ claim \in [Device -> [Path -> Claim]]
    BY DEF Inv, TypeOK
  <1>6. /\ files \in [Path -> FileState] /\ \A p \in Path : FileStep(file[d][p], files[p])
        /\ pends \in [Path -> Pending]
        /\ claims \in [Path -> Claim]
    BY <1>3 DEF GoodOutcome, OutcomeType
  <1>7. \A p \in Path : pends[p] # NoPending /\ pends[p].kind = "conflict" => files[p].index # NoEntry
    BY <1>3 DEF GoodOutcome
  <1> HIDE DEF files, pends, claims
  <1>8. ChanOK'
    <2>1. chan[e][d] # <<>>
      BY <1>1
    <2> QED  BY <1>4, <1>3, <2>1, DeliverChan
  <1>9. FileOK' /\ AllKept /\ IndexesStay
    BY <1>4, <1>6, FileUpdate
  <1>10. \A x, y \in Device : <<x, y>> # <<d, e>> => pend'[x][y] = pend[x][y]
    BY <1>4, <1>5
  <1>11. pend'[d][e] = pends /\ file'[d] = files
    BY <1>4, <1>5 DEF Inv, TypeOK
  <1>12. PendOK'
    <2>1. pend' \in [Device -> [Device -> [Path -> Pending]]]
      BY <1>4, <1>5, <1>6
    <2>2. \A x \in Device : Neighbour(x)' = Neighbour(x)
      BY <1>4 DEF Neighbour
    <2>3. \A x, y \in Device : y \notin Neighbour(x) => \A q \in Path : pend[x][y][q] = NoPending
      BY DEF Inv, TypeOK
    <2>4. e \in Neighbour(d)
      BY <1>1, ReceivedFacts
    <2>5. ASSUME NEW x \in Device, NEW y \in Device, y \notin Neighbour(x)', NEW q \in Path
          PROVE  pend'[x][y][q] = NoPending
      BY <1>10, <2>2, <2>3, <2>4, <2>5
    <2> QED  BY <2>1, <2>5 DEF PendOK
  <1>13. ConflictsIndexed'
    <2>1. ASSUME NEW x \in Device, NEW y \in Device, NEW p \in Path
          PROVE  \/ pend'[x][y][p] = pend[x][y][p]
                 \/ pend'[x][y][p] = NoPending
                 \/ pend'[x][y][p].kind = "conflict" => file'[x][p].index # NoEntry
      BY <1>7, <1>10, <1>11
    <2> QED  BY <1>9, <2>1, ConflictsStay
  <1>14. RestOK'
    <2>1. claim' \in [Device -> [Path -> Claim]]
      BY <1>4, <1>5, <1>6
    <2> QED  BY <1>4, <2>1 DEF RestOK, Inv, TypeOK, history
  <1> QED  BY <1>8, <1>9, <1>12, <1>13, <1>14, KeptIsGood

LEMMA ExpireGood ==
    ASSUME Inv, NEW d \in Device, NEW p \in Path, expireClaim(d, p)
    PROVE  GoodStep
  <1>1. /\ UNCHANGED <<file, pend, chan, up, clock, connects, givenUp>>
        /\ claim' = [claim EXCEPT ![d][p] = NoClaim] /\ expired' = expired \cup {<<d, p>>}
    BY DEF expireClaim
  <1>2. claim \in [Device -> [Path -> Claim]]
    BY DEF Inv, TypeOK
  <1>3. claim' \in [Device -> [Path -> Claim]]
    BY <1>1, <1>2 DEF Claim
  <1>4. FileOK' /\ AllKept /\ IndexesStay
    BY <1>1, FileUnchanged
  <1>5. ConflictsIndexed'
    BY <1>1, <1>4, ConflictsStay
  <1>6. PendOK' /\ ChanOK'
    BY <1>1 DEF Inv, TypeOK, PendOK, ChanOK, Neighbour
  <1>7. RestOK'
    <2>1. expired' \subseteq Device \X Path
      BY <1>1 DEF Inv, TypeOK
    <2> QED  BY <1>1, <1>3, <2>1 DEF Inv, TypeOK, RestOK
  <1> QED  BY <1>4, <1>5, <1>6, <1>7, KeptIsGood

----------------------------------------------------------------------------
LEMMA InitGood == Init => Inv
  <1> SUFFICES ASSUME Init PROVE Inv
    OBVIOUS
  <1>1. FileOK
    BY BoundAssumption DEF Init, FileOK, FileState, MaybeEntry, Content
  <1>2. PendOK /\ ConflictsIndexed
    BY DEF Init, PendOK, ConflictsIndexed, Pending
  <1>3. ChanOK
    BY DEF Init, ChanOK
  <1>4. RestOK
    BY BoundAssumption DEF Init, RestOK, Claim
  <1> QED  BY <1>1, <1>2, <1>3, <1>4, Parts DEF Inv

LEMMA NextGood == Inv /\ [Next]_vars => GoodStep
  <1> SUFFICES ASSUME Inv, [Next]_vars PROVE GoodStep
    OBVIOUS
  <1>1. CASE Next
    BY <1>1, UserGood, ScanGood, ConnectGood, DisconnectGood, IndexGood, RequestGood,
       ResponseGood, RetryGood, DropGood, ExpireGood DEF Next, Handle
  <1>2. CASE UNCHANGED vars
    BY <1>2 DEF vars, GoodStep, Inv, TypeOK, ConflictsIndexed, DestroysNothing, Neighbour
  <1> QED  BY <1>1, <1>2

(* Every variable keeps its type, whatever the devices, paths, links,      *)
(* policies and bounds.                                                    *)
THEOREM TypeCorrect == Spec => []TypeOK
  <1>1. Inv => TypeOK
    BY DEF Inv
  <1>2. Inv /\ [Next]_vars => Inv'
    BY NextGood DEF GoodStep
  <1> QED  BY <1>1, <1>2, InitGood, PTL DEF Spec

(* No step of the program, on any device and under any policy, removes a   *)
(* file's content from its path without keeping it there as a conflict     *)
(* copy, a version or in the trash.                                        *)
THEOREM NothingDestroyed == Spec => SyncNeverDestroys
  <1>1. Inv /\ [Next]_vars => Inv' /\ DestroysNothing
    BY NextGood DEF GoodStep
  <1> QED  BY <1>1, InitGood, PTL DEF Spec, SyncNeverDestroys

----------------------------------------------------------------------------
(* The parts of the inductive invariant, path by path. *)
Stamp(entry) == IF entry = NoEntry THEN 0 ELSE entry.version[Author]
StampOf(d, p) == Stamp(file[d][p].index)
Known(p) == Entries(p) \ {NoEntry}
Served(d, e, p) ==
    {m.data : m \in {n \in Range(chan[d][e]) : n.type = "block-response" /\ n.path = p}}

(* Only the author has ever counted a change; a tombstone is the entry     *)
(* without content, because users write no empty file.                     *)
Authored(b) ==
    /\ b.version[Author] \in Nat \ {0}
    /\ \A x \in Device \ {Author} : b.version[x] = 0
    /\ b.deleted <=> b.content = Empty

(* No entry is newer than the author's, or a content younger than the clock. *)
AuthorFirst(p) ==
    \A b \in Known(p) : Authored(b) /\ Stamp(b) <= StampOf(Author, p) /\ b.content <= clock

(* A stamp or a content names one entry.                                   *)
Identified(p) ==
    \A b, c \in Known(p) :
       Stamp(b) = Stamp(c) \/ (~b.deleted /\ ~c.deleted /\ b.content = c.content) => b = c

(* Devices without a user hold what their index says, and nothing else.    *)
CopiesHonest(p) ==
    \A d \in Device \ {Author} :
       Honest(file[d][p]) /\ (file[d][p].index = NoEntry => file[d][p].disk = NoFile)

(* An edit that was not scanned yet is nowhere else.                       *)
EditFresh(p) ==
    LET f == file[Author][p]
    IN  /\ f.disk # NoFile => f.disk \in 1..clock
        /\ \A d, e \in Device : \A c \in Served(d, e, p) : c <= clock
        /\ Changed(f) => /\ \A b \in Known(p) : b.content # f.disk
                         /\ \A d \in Device \ {Author}, e \in Device : f.disk \notin Served(d, e, p)

(* A device receives only from upstream, and only what is newer.           *)
ReceivesNewer(p) ==
    \A d, e \in Device :
       LET item == pend[d][e][p]
       IN  item # NoPending =>
             /\ d # Author /\ e = Upstream[d] /\ item.kind = "receive"
             /\ ~item.entry.deleted /\ Stamp(item.entry) > StampOf(d, p)

(* Upstream is ahead of the device, of all the device says, of each        *)
(* tombstone sent to it and of each content served to it.                  *)
UpstreamLeads(p) ==
    \A d \in Device \ {Author} :
       LET e == Upstream[d]
       IN  /\ StampOf(d, p) <= StampOf(e, p)
           /\ \A b \in Announced(d, e, p) : Stamp(b) <= StampOf(e, p)
           /\ \A b \in Announced(e, d, p) : b # NoEntry /\ b.deleted => Stamp(b) <= StampOf(e, p)
           /\ \A b \in Known(p) :
                 ~b.deleted /\ b.content \in Served(e, d, p) => Stamp(b) <= StampOf(e, p)

PathInv(p) ==
    /\ AuthorFirst(p) /\ Identified(p) /\ CopiesHonest(p)
    /\ EditFresh(p) /\ ReceivesNewer(p) /\ UpstreamLeads(p)

AuthorInv == \A p \in Path : PathInv(p)

----------------------------------------------------------------------------
LEMMA KnownTyped ==
    ASSUME Inv, NEW p \in Path
    PROVE  Known(p) \subseteq Entry
  <1>1. \A d \in Device : file[d][p].index \in MaybeEntry
    BY DEF Inv, TypeOK, FileState
  <1>2. ASSUME NEW d \in Device, NEW e \in Device
        PROVE  Pended(d, e, p) \in MaybeEntry
    <2>1. pend[d][e][p] \in Pending
      BY DEF Inv, TypeOK
    <2> QED  BY <2>1 DEF Pended, Pending, Item, MaybeEntry
  <1>3. ASSUME NEW d \in Device, NEW e \in Device, NEW b \in Announced(d, e, p)
        PROVE  b \in MaybeEntry
    <2>1. PICK m \in Range(chan[d][e]) : m.type = "index" /\ b = m.entries[p]
      BY DEF Announced
    <2>2. chan[d][e] \in Seq(Message)
      BY DEF Inv, TypeOK
    <2>3. m \in Message
      BY <2>1, <2>2 DEF Range
    <2>4. m.entries \in [Path -> MaybeEntry]
      BY <2>1, <2>3 DEF Message
    <2> QED  BY <2>1, <2>4
  <1>4. Entries(p) \subseteq MaybeEntry
    BY <1>1, <1>2, <1>3 DEF Entries
  <1> QED  BY <1>4 DEF Known, MaybeEntry

LEMMA KnownParts ==
    ASSUME NEW p \in Path
    PROVE  /\ \A d \in Device : file[d][p].index # NoEntry => file[d][p].index \in Known(p)
           /\ \A d, e \in Device : pend[d][e][p] # NoPending /\ pend[d][e][p].entry # NoEntry
                                      => pend[d][e][p].entry \in Known(p)
           /\ \A d, e \in Device : \A b \in Announced(d, e, p) : b # NoEntry => b \in Known(p)
  BY DEF Known, Entries, Pended

LEMMA KnownCases ==
    ASSUME NEW p \in Path, NEW b \in Known(p)
    PROVE  /\ b # NoEntry
           /\ \/ \E d \in Device : b = file[d][p].index
              \/ \E d, e \in Device : pend[d][e][p] # NoPending /\ b = pend[d][e][p].entry
              \/ \E d, e \in Device : b \in Announced(d, e, p)
  BY DEF Known, Entries, Pended

LEMMA StampFacts ==
    ASSUME OneAuthor, Inv, NEW p \in Path, AuthorFirst(p)
    PROVE  /\ \A b \in Known(p) : /\ b # NoEntry /\ b \in Entry
                                  /\ Stamp(b) \in Nat \ {0} /\ Stamp(b) = b.version[Author]
           /\ \A d \in Device : /\ StampOf(d, p) \in Nat
                                /\ StampOf(d, p) = 0 <=> file[d][p].index = NoEntry
                                /\ StampOf(d, p) <= StampOf(Author, p)
  <1>1. ASSUME NEW b \in Known(p)
        PROVE  /\ b # NoEntry /\ b \in Entry
               /\ Stamp(b) \in Nat \ {0} /\ Stamp(b) = b.version[Author]
    BY KnownTyped, KnownCases DEF AuthorFirst, Authored, Stamp
  <1>2. ASSUME NEW d \in Device
        PROVE  /\ StampOf(d, p) \in Nat
               /\ StampOf(d, p) = 0 <=> file[d][p].index = NoEntry
    BY <1>1, KnownParts DEF StampOf, Stamp
  <1>3. ASSUME NEW d \in Device
        PROVE  StampOf(d, p) <= StampOf(Author, p)
    <2>1. CASE file[d][p].index = NoEntry
      <3>1. StampOf(d, p) = 0 /\ StampOf(Author, p) \in Nat
        BY <1>2, <2>1 DEF OneAuthor
      <3> QED  BY <3>1
    <2>2. CASE file[d][p].index # NoEntry
      BY <2>2, KnownParts DEF AuthorFirst, StampOf
    <2> QED  BY <2>1, <2>2
  <1> QED  BY <1>1, <1>2, <1>3

----------------------------------------------------------------------------
(* What any step but a scan does to one path.                              *)

(* Entry b may be announced by x to y. *)
News(x, y, p, b) ==
    /\ b \in Known(p)
    /\ x # Author /\ y = Upstream[x] => Stamp(b) <= StampOf(y, p)
    /\ b.deleted /\ y # Author /\ x = Upstream[y] => Stamp(b) <= StampOf(x, p)'

(* Device d takes over an entry its upstream is not behind of. *)
Adopts(d, p) ==
    LET b == file[d][p].index'
    IN  /\ b \in Known(p)
        /\ Stamp(b) > StampOf(d, p) /\ Stamp(b) <= StampOf(Upstream[d], p)
        /\ Honest(file[d][p])'

Calm(p) ==
    /\ clock \in Nat /\ clock' = clock
    /\ \A d \in Device : \/ file'[d][p] = file[d][p]
                         \/ d # Author /\ Adopts(d, p)
    /\ \A d, e \in Device :
          LET item == pend[d][e][p]'
          IN  \/ item = NoPending
              \/ item = pend[d][e][p] /\ file'[d][p] = file[d][p]
              \/ /\ d # Author /\ e = Upstream[d] /\ item.kind = "receive"
                 /\ item.entry \in Known(p) /\ ~item.entry.deleted
                 /\ Stamp(item.entry) > StampOf(d, p)'
    /\ \A x, y \in Device : \A b \in Announced(x, y, p)' :
          b \in Announced(x, y, p) \/ b = NoEntry \/ News(x, y, p, b)
    /\ \A x, y \in Device : \A c \in Served(x, y, p)' :
          \/ c \in Served(x, y, p)
          \/ c = file[x][p].disk /\ c # NoFile /\ file'[x][p] = file[x][p]

LEMMA CalmKnown ==
    ASSUME OneAuthor, Inv, NEW p \in Path, PathInv(p), Calm(p)
    PROVE  /\ Known(p)' \subseteq Known(p)
           /\ \A d \in Device : StampOf(d, p)' \in Nat /\ StampOf(d, p) <= StampOf(d, p)'
           /\ StampOf(Author, p)' = StampOf(Author, p)
  <1>0. \A b : Stamp(b)' = Stamp(b)
    BY DEF Stamp
  <1>1. \A d \in Device : file[d][p].index' # NoEntry => file[d][p].index' \in Known(p)
    BY KnownParts DEF Calm, Adopts
  <1>2. \A d, e \in Device :
          pend[d][e][p]' # NoPending /\ pend[d][e][p].entry' # NoEntry
             => pend[d][e][p].entry' \in Known(p)
    BY KnownParts DEF Calm
  <1>3. \A d, e \in Device : \A b \in Announced(d, e, p)' : b # NoEntry => b \in Known(p)
    BY KnownParts DEF Calm, News
  <1>4. Known(p)' \subseteq Known(p)
    <2>1. ASSUME NEW b \in Known(p)'
          PROVE  /\ b # NoEntry
                 /\ \/ \E d \in Device : b = file[d][p].index'
                    \/ \E d, e \in Device : pend[d][e][p]' # NoPending /\ b = pend[d][e][p].entry'
                    \/ \E d, e \in Device : b \in Announced(d, e, p)'
      BY DEF Known, Entries, Pended
    <2> QED  BY <1>1, <1>2, <1>3, <2>1
  <1>5. \A d \in Device : StampOf(d, p) \in Nat
    BY StampFacts DEF PathInv
  <1>6. ASSUME NEW d \in Device
        PROVE  StampOf(d, p)' \in Nat /\ StampOf(d, p) <= StampOf(d, p)'
    <2>1. CASE file'[d][p] = file[d][p]
      BY <1>0, <1>5, <2>1 DEF StampOf
    <2>2. CASE Adopts(d, p)
      <3>1. Stamp(file[d][p].index') \in Nat
        BY <2>2, StampFacts DEF PathInv, Adopts
      <3>2. StampOf(d, p)' = Stamp(file[d][p].index')
        BY <1>0 DEF StampOf
      <3>3. Stamp(file[d][p].index') > StampOf(d, p)
        BY <2>2 DEF Adopts
      <3> QED  BY <1>5, <3>1, <3>2, <3>3
    <2> QED  BY <2>1, <2>2 DEF Calm
  <1>7. StampOf(Author, p)' = StampOf(Author, p)
    BY <1>0 DEF StampOf, Calm, OneAuthor
  <1> QED  BY <1>4, <1>6, <1>7

(* A calm step preserves the invariant of the path.                        *)
LEMMA CalmKeeps ==
    ASSUME OneAuthor, Inv, Inv', NEW p \in Path, PathInv(p), Calm(p)
    PROVE  PathInv(p)'
  <1>1. /\ Known(p)' \subseteq Known(p)
        /\ \A d \in Device : StampOf(d, p)' \in Nat /\ StampOf(d, p) <= StampOf(d, p)'
        /\ StampOf(Author, p)' = StampOf(Author, p)
    BY CalmKnown
  <1>2. \A b : Stamp(b)' = Stamp(b) /\ (Authored(b)' <=> Authored(b))
    BY DEF Stamp, Authored
  <1>3. AuthorFirst(p)'
    BY <1>1, <1>2 DEF PathInv, AuthorFirst, Calm
  <1>4. Identified(p)'
    BY <1>1, <1>2 DEF PathInv, Identified
  <1>5. CopiesHonest(p)'
    <2>1. ASSUME NEW d \in Device \ {Author}
          PROVE  Honest(file[d][p])' /\ (file[d][p].index = NoEntry => file[d][p].disk = NoFile)'
      <3>1. CASE file'[d][p] = file[d][p]
        BY <3>1 DEF PathInv, CopiesHonest, Honest
      <3>2. CASE Adopts(d, p)
        BY <3>2, KnownCases DEF Adopts
      <3> QED  BY <3>1, <3>2 DEF Calm
    <2> QED  BY <2>1 DEF CopiesHonest
  <1>6. ASSUME NEW x \in Device, NEW y \in Device, NEW c \in Served(x, y, p)', c \notin Served(x, y, p)
        PROVE  /\ c = file[x][p].disk /\ c # NoFile
               /\ x # Author => /\ file[x][p].index \in Known(p) /\ ~file[x][p].index.deleted
                                /\ c = file[x][p].index.content
    <2>1. c = file[x][p].disk /\ c # NoFile
      BY <1>6 DEF Calm
    <2>2. ASSUME x # Author
          PROVE  /\ file[x][p].index \in Known(p) /\ ~file[x][p].index.deleted
                 /\ c = file[x][p].index.content
      BY <2>1, <2>2, KnownParts DEF PathInv, CopiesHonest, Honest
    <2> QED  BY <2>1, <2>2
  <1>7. EditFresh(p)'
    <2>1. file'[Author][p] = file[Author][p] /\ clock' = clock
      BY DEF Calm, OneAuthor
    <2>2. ASSUME NEW x \in Device, NEW y \in Device, NEW c \in Served(x, y, p)'
          PROVE  c <= clock
      <3>1. CASE c \in Served(x, y, p)
        BY <3>1 DEF PathInv, EditFresh
      <3>2. CASE c \notin Served(x, y, p) /\ x = Author
        BY <1>6, <3>2 DEF PathInv, EditFresh
      <3>3. CASE c \notin Served(x, y, p) /\ x # Author
        BY <1>6, <3>3 DEF PathInv, AuthorFirst
      <3> QED  BY <3>1, <3>2, <3>3
    <2>3. ASSUME Changed(file[Author][p]), NEW x \in Device \ {Author}, NEW y \in Device,
                 file[Author][p].disk \in Served(x, y, p)'
          PROVE  FALSE
      <3>1. /\ \A b \in Known(p) : b.content # file[Author][p].disk
            /\ file[Author][p].disk \notin Served(x, y, p)
        BY <2>3 DEF PathInv, EditFresh
      <3> QED  BY <1>6, <2>3, <3>1
    <2>4. Changed(file[Author][p])' <=> Changed(file[Author][p])
      BY <2>1 DEF Changed
    <2> QED  BY <1>1, <2>1, <2>2, <2>3, <2>4 DEF PathInv, EditFresh
  <1>8. ReceivesNewer(p)'
    <2>1. ASSUME NEW d \in Device, NEW e \in Device, pend[d][e][p]' # NoPending
          PROVE  /\ d # Author /\ e = Upstream[d] /\ pend[d][e][p]'.kind = "receive"
                 /\ ~pend[d][e][p]'.entry.deleted
                 /\ Stamp(pend[d][e][p]'.entry) > StampOf(d, p)'
      <3>1. CASE pend[d][e][p]' = pend[d][e][p] /\ file'[d][p] = file[d][p]
        BY <1>2, <2>1, <3>1 DEF PathInv, ReceivesNewer, StampOf
      <3> QED  BY <2>1, <3>1 DEF Calm
    <2> QED  BY <1>2, <2>1 DEF ReceivesNewer
  <1>9. UpstreamLeads(p)'
    <2> SUFFICES ASSUME NEW d \in Device \ {Author}, NEW e \in Device, e = Upstream[d]
                 PROVE  /\ StampOf(d, p)' <= StampOf(e, p)'
                        /\ \A b \in Announced(d, e, p)' : Stamp(b) <= StampOf(e, p)'
                        /\ \A b \in Announced(e, d, p)' :
                              b # NoEntry /\ b.deleted => Stamp(b) <= StampOf(e, p)'
                        /\ \A b \in Known(p)' : ~b.deleted /\ b.content \in Served(e, d, p)'
                              => Stamp(b) <= StampOf(e, p)'
      BY <1>2 DEF UpstreamLeads, OneAuthor
    <2>1. /\ StampOf(d, p) \in Nat /\ StampOf(e, p) \in Nat /\ StampOf(e, p)' \in Nat
          /\ \A b \in Known(p) : Stamp(b) \in Nat
      BY <1>1, StampFacts DEF PathInv
    <2>2. StampOf(e, p) <= StampOf(e, p)'
      BY <1>1
    <2>3. StampOf(d, p)' <= StampOf(e, p)'
      <3>1. CASE file'[d][p] = file[d][p]
        <4>1. StampOf(d, p)' = StampOf(d, p) /\ StampOf(d, p) <= StampOf(e, p)
          BY <1>2, <3>1 DEF StampOf, PathInv, UpstreamLeads
        <4> QED  BY <2>1, <2>2, <4>1
      <3>2. CASE Adopts(d, p)
        <4>1. StampOf(d, p)' <= StampOf(e, p) /\ StampOf(d, p)' \in Nat
          BY <1>2, <2>1, <3>2 DEF Adopts, StampOf
        <4> QED  BY <2>1, <2>2, <4>1
      <3> QED  BY <3>1, <3>2 DEF Calm
    <2>4. ASSUME NEW b \in Announced(d, e, p)'
          PROVE  Stamp(b) <= StampOf(e, p)'
      <3>1. CASE b = NoEntry
        BY <2>1, <3>1 DEF Stamp
      <3>2. CASE b # NoEntry
        <4>1. b \in Known(p) /\ Stamp(b) <= StampOf(e, p)
          BY <3>2, <2>4, KnownParts DEF Calm, News, PathInv, UpstreamLeads
        <4> QED  BY <2>1, <2>2, <4>1
      <3> QED  BY <3>1, <3>2
    <2>5. ASSUME NEW b \in Announced(e, d, p)', b # NoEntry, b.deleted
          PROVE  Stamp(b) <= StampOf(e, p)'
      <3>1. CASE b \in Announced(e, d, p)
        <4>1. b \in Known(p) /\ Stamp(b) <= StampOf(e, p)
          BY <3>1, <2>5, KnownParts DEF PathInv, UpstreamLeads
        <4> QED  BY <2>1, <2>2, <4>1
      <3>2. CASE b \notin Announced(e, d, p)
        BY <3>2, <2>5 DEF Calm, News
      <3> QED  BY <3>1, <3>2
    <2>6. ASSUME NEW b \in Known(p)', ~b.deleted, b.content \in Served(e, d, p)'
          PROVE  Stamp(b) <= StampOf(e, p)'
      <3>0. b \in Known(p)
        BY <1>1
      <3>1. CASE b.content \in Served(e, d, p)
        <4>1. Stamp(b) <= StampOf(e, p)
          BY <3>0, <3>1, <2>6 DEF PathInv, UpstreamLeads
        <4> QED  BY <3>0, <2>1, <2>2, <4>1
      <3>2. CASE b.content \notin Served(e, d, p) /\ e = Author
        <4>1. Stamp(b) <= StampOf(e, p)
          BY <3>0, <3>2 DEF PathInv, AuthorFirst
        <4> QED  BY <3>0, <2>1, <2>2, <4>1
      <3>3. CASE b.content \notin Served(e, d, p) /\ e # Author
        <4>1. file[e][p].index \in Known(p) /\ ~file[e][p].index.deleted
              /\ b.content = file[e][p].index.content
          BY <1>6, <2>6, <3>3
        <4>2. b = file[e][p].index
          BY <2>6, <3>0, <4>1 DEF PathInv, Identified
        <4>3. Stamp(b) <= StampOf(e, p)
          BY <2>1, <4>2 DEF StampOf
        <4> QED  BY <3>0, <2>1, <2>2, <4>3
      <3> QED  BY <3>1, <3>2, <3>3
    <2> QED  BY <2>3, <2>4, <2>5, <2>6
  <1> QED  BY <1>3, <1>4, <1>5, <1>7, <1>8, <1>9 DEF PathInv

(* What a scan that records path p does to it. *)
Edits(p) ==
    LET f == file[Author][p]
        b == file[Author][p].index'
    IN  /\ clock \in Nat /\ clock' = clock
        /\ b \in Entry /\ Authored(b) /\ Stamp(b) = StampOf(Author, p) + 1
        /\ f.disk' = f.disk
        /\ IF b.deleted THEN f.disk = NoFile ELSE Changed(f) /\ b.content = f.disk
        /\ \A d \in Device \ {Author} : file'[d][p] = file[d][p]
        /\ \A d, e \in Device : pend'[d][e][p] = pend[d][e][p]
        /\ \A x, y \in Device : \A c \in Announced(x, y, p)' :
              c \in Announced(x, y, p) \/ c = NoEntry \/ (c = b /\ x = Author)
        /\ \A x, y \in Device : Served(x, y, p)' \subseteq Served(x, y, p)

LEMMA EditsKnown ==
    ASSUME OneAuthor, Inv, NEW p \in Path, PathInv(p), Edits(p)
    PROVE  LET b == file[Author][p].index'
           IN  /\ b # NoEntry /\ b \in Entry
               /\ Known(p)' \subseteq Known(p) \cup {b}
               /\ b.content <= clock
               /\ b.deleted <=> b.content = Empty
               /\ ~b.deleted => b.content = file[Author][p].disk /\ Changed(file[Author][p])
               /\ StampOf(Author, p)' = StampOf(Author, p) + 1
               /\ Stamp(b) = StampOf(Author, p) + 1
               /\ \A d \in Device \ {Author} : StampOf(d, p)' = StampOf(d, p)
               /\ \A c \in Known(p) : Stamp(c) < Stamp(b) /\ (~b.deleted => c.content # b.content)
  <1> DEFINE b == file[Author][p].index'
  <1>0. \A c : Stamp(c)' = Stamp(c)
    BY DEF Stamp
  <1>1. /\ b \in Entry /\ Authored(b) /\ Stamp(b) = StampOf(Author, p) + 1
        /\ ~b.deleted => b.content = file[Author][p].disk /\ Changed(file[Author][p])
    BY DEF Edits
  <1>2. b # NoEntry
    BY <1>1, EntryIsNoGap
  <1>3. Known(p)' \subseteq Known(p) \cup {b}
    <2> SUFFICES ASSUME NEW c \in Known(p)' PROVE c \in Known(p) \cup {b}
      OBVIOUS
    <2>1. /\ c # NoEntry
          /\ \/ \E d \in Device : c = file[d][p].index'
             \/ \E d, e \in Device : pend[d][e][p]' # NoPending /\ c = pend[d][e][p].entry'
             \/ \E d, e \in Device : c \in Announced(d, e, p)'
      BY DEF Known, Entries, Pended
    <2>2. CASE \E d \in Device : c = file[d][p].index'
      BY <2>1, <2>2, KnownParts DEF Edits
    <2>3. CASE \E d, e \in Device : pend[d][e][p]' # NoPending /\ c = pend[d][e][p].entry'
      BY <2>1, <2>3, KnownParts DEF Edits
    <2>4. CASE \E d, e \in Device : c \in Announced(d, e, p)'
      BY <2>1, <2>4, KnownParts DEF Edits
    <2> QED  BY <2>1, <2>2, <2>3, <2>4
  <1>4. b.deleted <=> b.content = Empty
    BY <1>1 DEF Authored
  <1>5. b.content <= clock
    <2>1. CASE b.deleted
      BY <1>4, <2>1 DEF Edits, Empty
    <2>2. CASE ~b.deleted
      BY <1>1, <2>2 DEF PathInv, EditFresh, Changed
    <2> QED  BY <2>1, <2>2
  <1>6. /\ StampOf(Author, p)' = StampOf(Author, p) + 1
        /\ \A d \in Device \ {Author} : StampOf(d, p)' = StampOf(d, p)
    BY <1>0, <1>1 DEF StampOf, Edits
  <1>7. ASSUME NEW c \in Known(p)
        PROVE  Stamp(c) < Stamp(b) /\ (~b.deleted => c.content # b.content)
    <2>1. Stamp(c) \in Nat /\ Stamp(c) <= StampOf(Author, p) /\ StampOf(Author, p) \in Nat
      BY StampFacts DEF PathInv, AuthorFirst, OneAuthor
    <2>2. Stamp(c) < Stamp(b)
      <3> HIDE DEF b
      <3> QED  BY <1>1, <2>1
    <2>3. ~b.deleted => c.content # b.content
      BY <1>1 DEF PathInv, EditFresh
    <2> QED  BY <2>2, <2>3
  <1> QED  BY <1>1, <1>2, <1>3, <1>4, <1>5, <1>6, <1>7, Zenon

LEMMA EditsKeep ==
    ASSUME OneAuthor, Inv, Inv', NEW p \in Path, PathInv(p), Edits(p)
    PROVE  PathInv(p)'
  <1> DEFINE b == file[Author][p].index'
  <1>1. /\ b # NoEntry /\ b \in Entry
        /\ Known(p)' \subseteq Known(p) \cup {b}
        /\ b.content <= clock
        /\ b.deleted <=> b.content = Empty
        /\ ~b.deleted => b.content = file[Author][p].disk /\ Changed(file[Author][p])
        /\ StampOf(Author, p)' = StampOf(Author, p) + 1
        /\ Stamp(b) = StampOf(Author, p) + 1
        /\ \A d \in Device \ {Author} : StampOf(d, p)' = StampOf(d, p)
        /\ \A c \in Known(p) : Stamp(c) < Stamp(b) /\ (~b.deleted => c.content # b.content)
    BY EditsKnown, Zenon
  <1>2. \A c : Stamp(c)' = Stamp(c) /\ (Authored(c)' <=> Authored(c))
    BY DEF Stamp, Authored
  <1>3. \A d \in Device \ {Author} : file'[d][p] = file[d][p]
    BY DEF Edits
  <1>4. \A d, e \in Device : pend'[d][e][p] = pend[d][e][p]
    BY DEF Edits
  <1>5. \A x, y \in Device : \A c \in Announced(x, y, p)' :
              c \in Announced(x, y, p) \/ c = NoEntry \/ (c = b /\ x = Author)
    BY DEF Edits
  <1>6. \A x, y \in Device : Served(x, y, p)' \subseteq Served(x, y, p)
    BY DEF Edits
  <1>7. clock \in Nat /\ clock' = clock /\ Authored(b)
    BY DEF Edits
  <1>8. /\ file'[Author][p].index = b
        /\ file'[Author][p].disk = file[Author][p].disk
        /\ b.deleted => file[Author][p].disk = NoFile
    BY DEF Edits
  <1>9. /\ \A d \in Device : StampOf(d, p) \in Nat /\ StampOf(d, p) <= StampOf(Author, p)
        /\ \A c \in Known(p) : Stamp(c) \in Nat /\ Stamp(c) <= StampOf(Author, p)
        /\ StampOf(Author, p) \in Nat
    BY StampFacts DEF PathInv, AuthorFirst, OneAuthor
  <1> HIDE DEF b
  <1>10. AuthorFirst(p)'
    <2> SUFFICES ASSUME NEW c \in Known(p)'
                 PROVE  Authored(c) /\ Stamp(c) <= StampOf(Author, p)' /\ c.content <= clock
      BY <1>2, <1>7 DEF AuthorFirst
    <2>1. CASE c = b
      BY <1>1, <1>7, <1>9, <2>1
    <2>2. CASE c \in Known(p)
      <3>1. Authored(c) /\ c.content <= clock
        BY <2>2 DEF PathInv, AuthorFirst
      <3> QED  BY <1>1, <1>9, <2>2, <3>1
    <2> QED  BY <1>1, <2>1, <2>2
  <1>11. Identified(p)'
    <2> SUFFICES ASSUME NEW x \in Known(p)', NEW y \in Known(p)',
                        Stamp(x) = Stamp(y) \/ (~x.deleted /\ ~y.deleted /\ x.content = y.content)
                 PROVE  x = y
      BY <1>2 DEF Identified
    <2>1. CASE x = b /\ y \in Known(p)
      BY <1>1, <1>9, <2>1
    <2>2. CASE y = b /\ x \in Known(p)
      BY <1>1, <1>9, <2>2
    <2>3. CASE x \in Known(p) /\ y \in Known(p)
      BY <2>3 DEF PathInv, Identified
    <2> QED  BY <1>1, <2>1, <2>2, <2>3
  <1>12. CopiesHonest(p)'
    BY <1>3 DEF PathInv, CopiesHonest, Honest
  <1>13. EditFresh(p)'
    <2>1. ~Changed(file[Author][p])'
      BY <1>1, <1>8 DEF Changed
    <2> QED  BY <1>6, <1>7, <1>8, <2>1 DEF PathInv, EditFresh
  <1>14. ReceivesNewer(p)'
    BY <1>1, <1>2, <1>4 DEF PathInv, ReceivesNewer
  <1>15. UpstreamLeads(p)'
    <2> SUFFICES ASSUME NEW d \in Device \ {Author}, NEW e \in Device, e = Upstream[d]
                 PROVE  /\ StampOf(d, p)' <= StampOf(e, p)'
                        /\ \A c \in Announced(d, e, p)' : Stamp(c) <= StampOf(e, p)'
                        /\ \A c \in Announced(e, d, p)' :
                              c # NoEntry /\ c.deleted => Stamp(c) <= StampOf(e, p)'
                        /\ \A c \in Known(p)' : ~c.deleted /\ c.content \in Served(e, d, p)'
                              => Stamp(c) <= StampOf(e, p)'
      BY <1>2 DEF UpstreamLeads, OneAuthor
    <2>1. StampOf(e, p)' \in Nat /\ StampOf(e, p) <= StampOf(e, p)' /\ StampOf(e, p) \in Nat
      BY <1>1, <1>9
    <2>2. StampOf(d, p)' <= StampOf(e, p)'
      <3>1. StampOf(d, p) <= StampOf(e, p) /\ StampOf(d, p)' = StampOf(d, p)
        BY <1>1 DEF PathInv, UpstreamLeads
      <3> QED  BY <1>9, <2>1, <3>1
    <2>3. ASSUME NEW c \in Announced(d, e, p)'
          PROVE  Stamp(c) <= StampOf(e, p)'
      <3>1. CASE c = NoEntry
        BY <2>1, <3>1 DEF Stamp
      <3>2. CASE c # NoEntry
        <4>1. c \in Known(p) /\ Stamp(c) <= StampOf(e, p)
          BY <1>5, <2>3, <3>2, KnownParts DEF PathInv, UpstreamLeads
        <4> QED  BY <1>9, <2>1, <4>1
      <3> QED  BY <3>1, <3>2
    <2>4. ASSUME NEW c \in Announced(e, d, p)', c # NoEntry, c.deleted
          PROVE  Stamp(c) <= StampOf(e, p)'
      <3>1. CASE c \in Announced(e, d, p)
        <4>1. c \in Known(p) /\ Stamp(c) <= StampOf(e, p)
          BY <3>1, <2>4, KnownParts DEF PathInv, UpstreamLeads
        <4> QED  BY <1>9, <2>1, <4>1
      <3>2. CASE c = b /\ e = Author
        BY <1>1, <1>9, <3>2
      <3> QED  BY <1>5, <2>4, <3>1, <3>2
    <2>5. ASSUME NEW c \in Known(p)', ~c.deleted, c.content \in Served(e, d, p)'
          PROVE  Stamp(c) <= StampOf(e, p)'
      <3>1. CASE c \in Known(p)
        <4>1. Stamp(c) <= StampOf(e, p)
          BY <1>6, <2>5, <3>1 DEF PathInv, UpstreamLeads
        <4> QED  BY <1>9, <2>1, <3>1, <4>1
      <3>2. CASE c = b /\ e = Author
        BY <1>1, <1>9, <3>2
      <3>3. CASE c = b /\ e # Author
        <4>1. file[Author][p].disk \in Served(e, d, p) /\ Changed(file[Author][p])
          BY <1>1, <1>6, <2>5, <3>3
        <4> QED  BY <3>3, <4>1 DEF PathInv, EditFresh
      <3> QED  BY <1>1, <2>5, <3>1, <3>2, <3>3
    <2> QED  BY <2>2, <2>3, <2>4, <2>5
  <1> QED  BY <1>10, <1>11, <1>12, <1>13, <1>14, <1>15 DEF PathInv

(* What a user's edit of any path does to path p. *)
Untouched(p) ==
    /\ clock \in Nat /\ clock' = clock + 1 /\ UNCHANGED <<pend, chan>>
    /\ \A d \in Device : file'[d][p].index = file[d][p].index
    /\ \A d \in Device \ {Author} : file'[d][p].disk = file[d][p].disk
    /\ file'[Author][p].disk \in {file[Author][p].disk, NoFile, clock + 1}

LEMMA UserKeeps ==
    ASSUME OneAuthor, Inv, Inv', NEW p \in Path, PathInv(p), Untouched(p)
    PROVE  PathInv(p)' /\ Known(p)' = Known(p)
  <1>1. \A c : Stamp(c)' = Stamp(c) /\ (Authored(c)' <=> Authored(c))
    BY DEF Stamp, Authored
  <1>2. \A x, y \in Device : /\ Announced(x, y, p)' = Announced(x, y, p)
                             /\ Served(x, y, p)' = Served(x, y, p)
                             /\ Pended(x, y, p)' = Pended(x, y, p)
    BY DEF Untouched, Announced, Served, Pended
  <1>3. Known(p)' = Known(p)
    BY <1>2 DEF Known, Entries, Untouched
  <1>4. \A d \in Device : StampOf(d, p)' = StampOf(d, p)
    BY <1>1 DEF StampOf, Untouched
  <1>5. clock \in Nat /\ clock' = clock + 1
    BY DEF Untouched
  <1>6. \A c \in Known(p) : c.content \in Nat
    BY KnownTyped, BoundAssumption DEF Entry, Content
  <1>7. AuthorFirst(p)'
    BY <1>1, <1>3, <1>4, <1>5, <1>6 DEF PathInv, AuthorFirst, OneAuthor
  <1>8. Identified(p)'
    BY <1>1, <1>3 DEF PathInv, Identified
  <1>9. CopiesHonest(p)'
    BY DEF PathInv, CopiesHonest, Honest, Untouched
  <1>10. ReceivesNewer(p)'
    BY <1>1, <1>4 DEF PathInv, ReceivesNewer, Untouched
  <1>11. UpstreamLeads(p)'
    BY <1>1, <1>2, <1>3, <1>4 DEF PathInv, UpstreamLeads, OneAuthor
  <1>12. EditFresh(p)'
    <2>1. file'[Author][p].disk # NoFile => file'[Author][p].disk \in 1..clock'
      BY <1>5 DEF PathInv, EditFresh, Untouched
    <2>2. ASSUME NEW x \in Device, NEW y \in Device, NEW c \in Served(x, y, p)
          PROVE  c \in Nat /\ c <= clock
      <3>1. c <= clock
        BY DEF PathInv, EditFresh
      <3>2. c \in Nat
        <4>1. PICK m \in Range(chan[x][y]) : m.type = "block-response" /\ c = m.data
          BY DEF Served
        <4>2. chan[x][y] \in Seq(Message)
          BY DEF Inv, TypeOK
        <4>3. m \in Message
          BY <4>1, <4>2 DEF Range
        <4>4. m.data \in Content
          BY <4>1, <4>3 DEF Message
        <4> QED  BY <4>1, <4>4, BoundAssumption DEF Content
      <3> QED  BY <3>1, <3>2
    <2>3. ASSUME Changed(file'[Author][p]), file'[Author][p].disk = file[Author][p].disk
          PROVE  Changed(file[Author][p])
      BY <2>3 DEF Changed, Untouched, OneAuthor
    <2>4. ASSUME Changed(file'[Author][p])
          PROVE  /\ \A b \in Known(p) : b.content # file'[Author][p].disk
                 /\ \A d \in Device \ {Author}, e \in Device : file'[Author][p].disk \notin Served(d, e, p)
      <3>1. CASE file'[Author][p].disk = file[Author][p].disk
        BY <2>3, <2>4, <3>1 DEF PathInv, EditFresh
      <3>2. CASE file'[Author][p].disk = clock + 1
        <4>1. \A b \in Known(p) : b.content <= clock
          BY DEF PathInv, AuthorFirst
        <4> QED  BY <1>5, <1>6, <2>2, <3>2, <4>1
      <3> QED  BY <2>4, <3>1, <3>2 DEF Untouched, Changed
    <2>5. \A d, e \in Device : \A c \in Served(d, e, p) : c <= clock'
      BY <1>5, <2>2
    <2>6. Changed(file[Author][p])' = Changed(file'[Author][p])
      BY DEF Changed
    <2> QED  BY <1>2, <1>3, <2>1, <2>4, <2>5, <2>6 DEF EditFresh
  <1> QED  BY <1>3, <1>7, <1>8, <1>9, <1>10, <1>11, <1>12 DEF PathInv

(* The register a path is: every step publishes, adopts, forgets or stutters. *)
Kept(p) == Promise(p)!Next \/ UNCHANGED Promise(p)!vars

(* Only one device may change its state of p. *)
OneMoves(p) == \E r \in Device : \A x \in Device \ {r} : file'[x][p] = file[x][p]

LEMMA HeldStaysAfloat ==
    ASSUME NEW p \in Path
    PROVE  Promise(p)!Held' \subseteq Afloat(p)'
  BY DEF Promise!Held, Promise!Blank, Copies, Afloat, Register0, Entries

LEMMA CalmPromise ==
    ASSUME OneAuthor, Inv, NEW p \in Path, PathInv(p), Calm(p), OneMoves(p)
    PROVE  Kept(p)
  <1>1. Afloat(p)' \subseteq Afloat(p)
    <2>1. Known(p)' \subseteq Known(p)
      BY CalmKnown
    <2>2. Afloat(p) = {Register(entry) : entry \in Known(p)}
      BY DEF Afloat, Known
    <2>3. Afloat(p)' = {Register(entry) : entry \in Known(p)'}
      BY DEF Afloat, Known, Register
    <2> QED  BY <2>1, <2>2, <2>3
  <1>2. Promise(p)!Carry(Afloat(p))
    BY <1>1, HeldStaysAfloat DEF Promise!Carry
  <1>3. PICK r \in Device : \A x \in Device \ {r} : file'[x][p] = file[x][p]
    BY DEF OneMoves
  <1>4. CASE file'[r][p] = file[r][p]
    <2>1. Copies(p)' = Copies(p)
      BY <1>3, <1>4 DEF Copies, Register0, Register
    <2> QED  BY <1>2, <2>1 DEF Kept, Promise!Next, Promise!Forget
  <1>5. CASE Adopts(r, p)
    <2> DEFINE b == file[r][p].index'
               c == Register(b)
    <2>1. /\ b \in Known(p) /\ Stamp(b) > StampOf(r, p) /\ b # NoEntry
          /\ Stamp(b) = b.version[Author]
      BY <1>5, StampFacts DEF Adopts, PathInv
    <2>2. c \in Afloat(p)
      BY <2>1 DEF Afloat, Known
    <2>3. c.stamp = Stamp(b) /\ Copies(p)[r].stamp = StampOf(r, p)
      BY <2>1 DEF Copies, Register0, Register, StampOf, Stamp
    <2>4. Copies(p)' = [Copies(p) EXCEPT ![r] = c]
      <3>1. \A x \in Device \ {r} : Copies(p)'[x] = Copies(p)[x]
        BY <1>3 DEF Copies, Register0, Register
      <3>2. Copies(p)'[r] = c
        BY <2>1 DEF Copies, Register0, Register
      <3>3. Copies(p)' = [x \in Device |-> Copies(p)'[x]] /\ DOMAIN Copies(p) = Device
        BY DEF Copies
      <3> HIDE DEF c
      <3> QED  BY <3>1, <3>2, <3>3
    <2> HIDE DEF b, c
    <2>5. Promise(p)!Adopt(r)
      BY <1>2, <2>1, <2>2, <2>3, <2>4 DEF Promise!Adopt
    <2> QED  BY <2>5 DEF Kept, Promise!Next
  <1> QED  BY <1>4, <1>5 DEF Calm

LEMMA EditsPromise ==
    ASSUME OneAuthor, Inv, NEW p \in Path, PathInv(p), Edits(p)
    PROVE  Kept(p)
  <1> DEFINE b == file[Author][p].index'
             v == <<b.deleted, b.content>>
             c == Register(b)
  <1>1. /\ b # NoEntry /\ b \in Entry
        /\ Known(p)' \subseteq Known(p) \cup {b}
        /\ Stamp(b) = StampOf(Author, p) + 1
    BY EditsKnown, Zenon
  <1>2. v \in BOOLEAN \X Content
    BY <1>1 DEF Entry
  <1>3. c = [stamp |-> Copies(p)[Author].stamp + 1, value |-> v]
    <2>1. Copies(p)[Author].stamp = StampOf(Author, p)
      BY DEF Copies, Register0, Register, StampOf, Stamp, OneAuthor
    <2>2. b.version[Author] = Stamp(b)
      BY <1>1 DEF Stamp
    <2> QED  BY <1>1, <2>1, <2>2 DEF Register
  <1>4. Copies(p)' = [Copies(p) EXCEPT ![Author] = c]
    <2>1. \A x \in Device \ {Author} : Copies(p)'[x] = Copies(p)[x]
      BY DEF Copies, Register0, Register, Edits
    <2>2. Copies(p)'[Author] = c
      BY <1>1 DEF Copies, Register0, Register, OneAuthor
    <2>3. Copies(p)' = [x \in Device |-> Copies(p)'[x]] /\ DOMAIN Copies(p) = Device
      BY DEF Copies
    <2> HIDE DEF c
    <2> QED  BY <2>1, <2>2, <2>3
  <1>5. Afloat(p)' \subseteq Afloat(p) \cup {c}
    <2>2. Afloat(p) = {Register(entry) : entry \in Known(p)}
      BY DEF Afloat, Known
    <2>3. Afloat(p)' = {Register(entry) : entry \in Known(p)'}
      BY DEF Afloat, Known, Register
    <2> HIDE DEF b
    <2> QED  BY <1>1, <2>2, <2>3
  <1>6. Promise(p)!Carry(Afloat(p) \cup {c})
    BY <1>5, HeldStaysAfloat DEF Promise!Carry
  <1> HIDE DEF c, v
  <1>7. Promise(p)!Publish
    BY <1>2, <1>3, <1>4, <1>6 DEF Promise!Publish
  <1> QED  BY <1>7 DEF Kept, Promise!Next

LEMMA UserPromise ==
    ASSUME OneAuthor, Inv, NEW p \in Path, PathInv(p), Untouched(p), Known(p)' = Known(p)
    PROVE  Kept(p)
  <1>1. Copies(p)' = Copies(p)
    BY DEF Copies, Register0, Register, Untouched
  <1>2. Afloat(p)' = Afloat(p)
    <2>2. Afloat(p) = {Register(entry) : entry \in Known(p)}
      BY DEF Afloat, Known
    <2>3. Afloat(p)' = {Register(entry) : entry \in Known(p)'}
      BY DEF Afloat, Known, Register
    <2> QED  BY <2>2, <2>3
  <1> QED  BY <1>1, <1>2 DEF Kept, Promise!vars

----------------------------------------------------------------------------
(* What a step does to the file of one device at one path. *)
StaysTrue(d, p) ==
    LET f == file[d][p]
        g == file'[d][p]
    IN  /\ UserStep \/ (Honest(f) => Honest(g))
        /\ f.index # NoEntry => g.index # NoEntry /\ Dominates(g.index.version, f.index.version)
        /\ ~UserStep /\ g.index # f.index /\ g.index # NoEntry /\ g.index.deleted
              => g.disk = NoFile

LEMMA AuthoredDominates ==
    ASSUME OneAuthor, NEW a \in Entry, NEW b \in Entry, Authored(a), Authored(b),
           a.version[Author] <= b.version[Author]
    PROVE  Dominates(b.version, a.version)
  <1> SUFFICES ASSUME NEW x \in Device PROVE a.version[x] <= b.version[x]
    BY DEF Dominates
  <1>1. CASE x = Author
    BY <1>1
  <1>2. CASE x # Author
    BY <1>2 DEF Authored
  <1> QED  BY <1>1, <1>2

LEMMA SelfDominates ==
    ASSUME NEW a \in Entry
    PROVE  Dominates(a.version, a.version)
  BY DEF Dominates, Entry, Version

LEMMA CalmTrue ==
    ASSUME OneAuthor, Inv, NEW p \in Path, PathInv(p), Calm(p), NEW d \in Device
    PROVE  StaysTrue(d, p)
  <1> DEFINE f == file[d][p]
             g == file'[d][p]
  <1>0. f.index # NoEntry => f.index \in Known(p)
    BY KnownParts
  <1>1. CASE g = f
    <2>1. f.index # NoEntry => Dominates(f.index.version, f.index.version)
      BY <1>0, KnownTyped, SelfDominates
    <2> QED  BY <1>1, <2>1 DEF StaysTrue, Honest
  <1>2. CASE Adopts(d, p)
    <2>1. /\ g.index \in Known(p) /\ Stamp(g.index) > StampOf(d, p)
          /\ Honest(g)
      BY <1>2 DEF Adopts, Honest
    <2>2. g.index # NoEntry
      BY <2>1, KnownCases
    <2>3. ASSUME f.index # NoEntry
          PROVE  Dominates(g.index.version, f.index.version)
      <3>1. /\ f.index \in Entry /\ g.index \in Entry /\ Authored(f.index) /\ Authored(g.index)
            /\ Stamp(f.index) \in Nat /\ Stamp(g.index) \in Nat
            /\ f.index.version[Author] = Stamp(f.index) /\ g.index.version[Author] = Stamp(g.index)
        BY <1>0, <2>1, <2>3, StampFacts DEF PathInv, AuthorFirst
      <3>2. f.index.version[Author] <= g.index.version[Author]
        BY <2>1, <3>1 DEF StampOf
      <3> HIDE DEF f, g
      <3> QED  BY <3>1, <3>2, AuthoredDominates
    <2> HIDE DEF f, g
    <2> QED  BY <2>1, <2>2, <2>3 DEF StaysTrue, Honest, f, g
  <1> QED  BY <1>1, <1>2 DEF Calm

LEMMA EditsTrue ==
    ASSUME OneAuthor, Inv, NEW p \in Path, PathInv(p), Edits(p), NEW d \in Device
    PROVE  StaysTrue(d, p)
  <1> DEFINE f == file[d][p]
             g == file'[d][p]
  <1>0. f.index # NoEntry => f.index \in Known(p)
    BY KnownParts
  <1>1. CASE d # Author
    <2>1. f.index # NoEntry => Dominates(f.index.version, f.index.version)
      BY <1>0, KnownTyped, SelfDominates
    <2>2. g = f
      BY <1>1 DEF Edits
    <2> QED  BY <2>1, <2>2 DEF StaysTrue, Honest
  <1>2. CASE d = Author
    <2>1. /\ g.index \in Entry /\ Authored(g.index) /\ Stamp(g.index) = StampOf(d, p) + 1
          /\ g.disk = f.disk
          /\ IF g.index.deleted THEN f.disk = NoFile ELSE g.index.content = f.disk
      BY <1>2 DEF Edits
    <2>2. Honest(g) /\ g.index # NoEntry
      BY <2>1, EntryIsNoGap DEF Honest
    <2>3. ASSUME f.index # NoEntry
          PROVE  Dominates(g.index.version, f.index.version)
      <3>1. /\ f.index \in Entry /\ Authored(f.index) /\ Stamp(f.index) \in Nat
            /\ f.index.version[Author] = Stamp(f.index)
        BY <1>0, <2>3, StampFacts DEF PathInv, AuthorFirst
      <3>2. g.index.version[Author] = Stamp(g.index)
        BY <2>2 DEF Stamp
      <3>3. f.index.version[Author] <= g.index.version[Author]
        BY <2>1, <3>1, <3>2 DEF StampOf
      <3> HIDE DEF f, g
      <3> QED  BY <2>1, <3>1, <3>3, AuthoredDominates
    <2> HIDE DEF f, g
    <2> QED  BY <2>1, <2>2, <2>3 DEF StaysTrue, Honest, f, g
  <1> QED  BY <1>1, <1>2

LEMMA UserTrue ==
    ASSUME OneAuthor, Inv, NEW p \in Path, Untouched(p), NEW d \in Device
    PROVE  StaysTrue(d, p)
  <1>1. UserStep
    BY DEF Untouched, UserStep
  <1>2. file[d][p].index # NoEntry
           => Dominates(file[d][p].index.version, file[d][p].index.version)
    BY KnownParts, KnownTyped, SelfDominates
  <1> QED  BY <1>1, <1>2 DEF Untouched, StaysTrue

(* Every link leads from a device to its upstream. *)
LEMMA LinkDirection ==
    ASSUME OneAuthor, Inv, NEW d \in Device, NEW e \in Device, {d, e} \in Link
    PROVE  \/ d # Author /\ e = Upstream[d]
           \/ e # Author /\ d = Upstream[e]
  <1>1. PICK x \in Device \ {Author} : {d, e} = {x, Upstream[x]}
    BY DEF OneAuthor
  <1>2. (d = x /\ e = Upstream[x]) \/ (e = x /\ d = Upstream[x])
    BY <1>1
  <1> QED  BY <1>1, <1>2

(* Entries of one author are ordered by their stamp. *)
LEMMA CompareStamps ==
    ASSUME OneAuthor, Inv, NEW p \in Path, PathInv(p),
           NEW x \in Known(p) \cup {NoEntry}, NEW y \in Known(p) \cup {NoEntry}
    PROVE  compareFileState(x, y) = IF Stamp(x) = Stamp(y) THEN "equal"
                                    ELSE IF Stamp(x) > Stamp(y) THEN "local-newer"
                                    ELSE "remote-newer"
  <1>1. \A b \in Known(p) : /\ b # NoEntry /\ b \in Entry /\ Authored(b)
                            /\ Stamp(b) \in Nat \ {0} /\ Stamp(b) = b.version[Author]
    BY StampFacts DEF PathInv, AuthorFirst
  <1>2. Stamp(NoEntry) = 0
    BY DEF Stamp
  <1>3. CASE x = NoEntry \/ y = NoEntry
    BY <1>1, <1>2, <1>3 DEF compareFileState
  <1>4. CASE x # NoEntry /\ y # NoEntry
    <2>1. x \in Known(p) /\ y \in Known(p)
      BY <1>4
    <2>2. Stamp(y) <= Stamp(x) <=> Dominates(x.version, y.version)
      <3>1. Stamp(y) <= Stamp(x) => Dominates(x.version, y.version)
        BY <1>1, <2>1, AuthoredDominates
      <3>2. Dominates(x.version, y.version) => Stamp(y) <= Stamp(x)
        BY <1>1, <2>1 DEF Dominates, OneAuthor
      <3> QED  BY <3>1, <3>2
    <2>3. Stamp(x) <= Stamp(y) <=> Dominates(y.version, x.version)
      <3>1. Stamp(x) <= Stamp(y) => Dominates(y.version, x.version)
        BY <1>1, <2>1, AuthoredDominates
      <3>2. Dominates(y.version, x.version) => Stamp(x) <= Stamp(y)
        BY <1>1, <2>1 DEF Dominates, OneAuthor
      <3> QED  BY <3>1, <3>2
    <2>4. Stamp(x) \in Nat /\ Stamp(y) \in Nat
      BY <1>1, <2>1
    <2>5. compareVersions(x.version, y.version)
             = IF Stamp(x) = Stamp(y) THEN "equal"
               ELSE IF Stamp(x) > Stamp(y) THEN "a-newer" ELSE "b-newer"
      BY <2>2, <2>3, <2>4 DEF compareVersions
    <2> QED  BY <1>4, <2>5 DEF compareFileState
  <1> QED  BY <1>3, <1>4

----------------------------------------------------------------------------
(* What an index message makes of a path: nothing, a deletion or a receive. *)

Quiet(d, e, p, o) ==
    /\ o.file = file[d][p]
    /\ o.pend \in {pend[d][e][p], NoPending}
    /\ o.landed = NoEntry
    /\ o.send \in {NoEntry, file[d][p].index}

Deletes(d, p, remote, o) ==
    /\ remote \in Known(p) /\ remote.deleted /\ Stamp(remote) > StampOf(d, p)
    /\ o.file = applyDelete(file[d][p], remote)
    /\ o.pend = NoPending /\ o.landed = remote /\ o.send = NoEntry

Receives(d, p, remote, o) ==
    /\ remote \in Known(p) /\ ~remote.deleted /\ Stamp(remote) > StampOf(d, p)
    /\ o.file = file[d][p]
    /\ o.pend = [kind |-> "receive", entry |-> remote] /\ o.request
    /\ o.landed = remote /\ o.send = NoEntry

LEMMA IdleQuiet ==
    ASSUME NEW d, NEW e, NEW p, NEW full
    PROVE  /\ Quiet(d, e, p, Idle(d, e, p))
           /\ Quiet(d, e, p, Send(d, e, p))
           /\ Quiet(d, e, p, DropStale(Idle(d, e, p), e, full))
           /\ Quiet(d, e, p, DropStale(Send(d, e, p), e, full))
  BY DEF Quiet, Idle, Send, DropStale

LEMMA OutcomeCases ==
    ASSUME OneAuthor, Inv, NEW p \in Path, PathInv(p), NEW d \in Device, NEW e \in Device,
           NEW remote \in Known(p) \cup {NoEntry}, NEW full, NEW relayed,
           NEW action \in {"none", planPath(file[d][p].index, remote)}
    PROVE  LET o == Outcome(d, e, p, action, remote, full, relayed)
           IN  Quiet(d, e, p, o) \/ Deletes(d, p, remote, o) \/ Receives(d, p, remote, o)
  <1> DEFINE local == file[d][p].index
             o == Outcome(d, e, p, action, remote, full, relayed)
  <1>1. local \in Known(p) \cup {NoEntry}
    BY KnownParts
  <1>2. compareFileState(local, remote) = IF Stamp(local) = Stamp(remote) THEN "equal"
                                          ELSE IF Stamp(local) > Stamp(remote) THEN "local-newer"
                                          ELSE "remote-newer"
    BY <1>1, CompareStamps
  <1>3. \A b \in Known(p) : b # NoEntry /\ b \in Entry /\ Authored(b) /\ Stamp(b) \in Nat
    BY StampFacts DEF PathInv, AuthorFirst
  <1>4. Stamp(local) \in Nat /\ Stamp(remote) \in Nat /\ Stamp(NoEntry) = 0
    BY <1>1, <1>3 DEF Stamp
  <1>5. CASE action = "none"
    <2>1. o = DropStale(Idle(d, e, p), e, full)
      BY <1>5 DEF Outcome
    <2> QED  BY <2>1, IdleQuiet
  <1>6. CASE action # "none" /\ Stamp(local) > Stamp(remote)
    <2>1. compareFileState(local, remote) = "local-newer"
      BY <1>2, <1>4, <1>6
    <2>2. action \in {"send", "delete"}
      BY <1>6, <2>1 DEF planPath
    <2>3. o \in {DropStale(Idle(d, e, p), e, full), DropStale(Send(d, e, p), e, full)}
      BY <2>1, <2>2 DEF Outcome, Delete
    <2> QED  BY <2>3, IdleQuiet
  <1>7. CASE action # "none" /\ Stamp(local) < Stamp(remote)
    <2>1. compareFileState(local, remote) = "remote-newer"
      BY <1>2, <1>4, <1>7
    <2>2. remote \in Known(p) /\ remote # NoEntry
      BY <1>3, <1>4, <1>7
    <2>3. Stamp(remote) > StampOf(d, p)
      BY <1>7 DEF StampOf
    <2>4. CASE remote.deleted
      <3>1. action = "delete"
        BY <1>7, <2>1, <2>4 DEF planPath
      <3>2. Delete(d, e, p, remote) = [Idle(d, e, p) EXCEPT
                !.file = applyDelete(file[d][p], remote), !.pend = NoPending,
                !.claim = Released(claim[d][p], e), !.landed = remote]
        BY <2>1 DEF Delete, Idle
      <3>3. o = DropStale(Delete(d, e, p, remote), e, full)
        BY <3>1 DEF Outcome
      <3>4. o = Delete(d, e, p, remote)
        BY <3>2, <3>3 DEF DropStale, Idle
      <3>5. /\ o.file = applyDelete(file[d][p], remote)
            /\ o.pend = NoPending /\ o.landed = remote /\ o.send = NoEntry
        BY <3>2, <3>4 DEF Idle
      <3> QED  BY <2>2, <2>3, <2>4, <3>5 DEF Deletes
    <2>5. CASE ~remote.deleted
      <3>1. action = "receive"
        BY <1>7, <2>1, <2>5 DEF planPath
      <3>2. ~Ready(d, p, remote)
        <4>1. Blocks(remote) # Empty
          BY <1>3, <2>2, <2>5 DEF Blocks, Authored
        <4>2. ASSUME local # NoEntry, ~local.deleted, local.content = remote.content
              PROVE  FALSE
          <5>1. local = remote
            BY <1>1, <2>2, <2>5, <4>2 DEF PathInv, Identified
          <5> QED  BY <1>4, <1>7, <5>1
        <4> QED  BY <4>1, <4>2 DEF Ready
      <3> DEFINE i == [kind |-> "receive", entry |-> remote]
                 opened == [Idle(d, e, p) EXCEPT
                   !.pend = i, !.claim = [holder |-> e, key |-> versionKey(remote)],
                   !.live = TRUE, !.request = TRUE, !.landed = remote]
      <3>3. Open(d, e, p, "receive", remote) = opened
        BY <3>2 DEF Open
      <3>4. o \in {DropStale(Idle(d, e, p), e, full), DropStale(opened, e, full)}
        BY <3>1, <3>3 DEF Outcome
      <3>5. DropStale(opened, e, full) = opened
        BY DEF DropStale, Idle
      <3>6. Receives(d, p, remote, opened)
        BY <2>2, <2>3, <2>5 DEF Receives, Idle
      <3> HIDE DEF opened
      <3> QED  BY <3>4, <3>5, <3>6, IdleQuiet
    <2> QED  BY <2>4, <2>5
  <1>8. CASE action # "none" /\ Stamp(local) = Stamp(remote)
    BY <1>2, <1>8 DEF planPath
  <1> QED  BY <1>4, <1>5, <1>6, <1>7, <1>8

----------------------------------------------------------------------------

(* Every message of chan' is old or the reply or relay of this step. *)
LEMMA DeliverRange ==
    ASSUME Inv, NEW d \in Device, NEW e \in Device, chan[e][d] # <<>>,
           NEW reply \in Seq(Message), NEW relay \in Seq(Message), Deliver(d, e, reply, relay)
    PROVE  \A x, y \in Device : \A m \in Range(chan'[x][y]) :
              \/ m \in Range(chan[x][y])
              \/ x = d /\ y = e /\ m \in Range(reply)
              \/ x = d /\ y # e /\ y \in Neighbour(d) /\ m \in Range(relay)
  <1> DEFINE row == [x \in Device |-> IF x = e THEN chan[d][x] \o reply
                                      ELSE IF x \in Neighbour(d) THEN chan[d][x] \o relay
                                      ELSE chan[d][x]]
  <1>1. e # d
    BY ReceivedFacts
  <1>2. chan \in [Device -> [Device -> Seq(Message)]]
    BY DEF Inv, TypeOK
  <1>3. chan' = [[chan EXCEPT ![e][d] = Tail(chan[e][d])] EXCEPT ![d] = row]
    BY <1>1, <1>2 DEF Deliver
  <1>4. /\ chan'[d] = row
        /\ chan'[e][d] = Tail(chan[e][d])
        /\ \A x \in Device \ {d}, y \in Device : <<x, y>> # <<e, d>> => chan'[x][y] = chan[x][y]
    <2> HIDE DEF row
    <2> QED  BY <1>1, <1>2, <1>3
  <1>5. Range(Tail(chan[e][d])) \subseteq Range(chan[e][d])
    BY <1>2, RangeOfTail
  <1>6. ASSUME NEW y \in Device
        PROVE  /\ Range(chan[d][y] \o reply) \subseteq Range(chan[d][y]) \cup Range(reply)
               /\ Range(chan[d][y] \o relay) \subseteq Range(chan[d][y]) \cup Range(relay)
    BY <1>2, RangeOfConcat
  <1> SUFFICES ASSUME NEW x \in Device, NEW y \in Device, NEW m \in Range(chan'[x][y])
               PROVE  \/ m \in Range(chan[x][y])
                      \/ x = d /\ y = e /\ m \in Range(reply)
                      \/ x = d /\ y # e /\ y \in Neighbour(d) /\ m \in Range(relay)
    OBVIOUS
  <1>7. CASE x = d
    <2>1. chan'[x][y] = IF y = e THEN chan[d][y] \o reply
                        ELSE IF y \in Neighbour(d) THEN chan[d][y] \o relay
                        ELSE chan[d][y]
      BY <1>4, <1>7
    <2> QED  BY <1>6, <1>7, <2>1
  <1>8. CASE x # d
    BY <1>4, <1>5, <1>8
  <1> QED  BY <1>7, <1>8

(* The new message m from x to y says nothing of path p that may not be said. *)
Announceable(x, y, p, m) ==
    /\ m.type = "index" => m.entries[p] = NoEntry \/ News(x, y, p, m.entries[p])
    /\ m.type = "block-response" /\ m.path = p
          => m.data = file[x][p].disk /\ m.data # NoFile /\ file'[x][p] = file[x][p]

LEMMA MessagesCalm ==
    ASSUME NEW p \in Path,
           \A x, y \in Device : \A m \in Range(chan'[x][y]) :
              m \in Range(chan[x][y]) \/ Announceable(x, y, p, m)
    PROVE  /\ \A x, y \in Device : \A b \in Announced(x, y, p)' :
                 b \in Announced(x, y, p) \/ b = NoEntry \/ News(x, y, p, b)
           /\ \A x, y \in Device : \A c \in Served(x, y, p)' :
                 \/ c \in Served(x, y, p)
                 \/ c = file[x][p].disk /\ c # NoFile /\ file'[x][p] = file[x][p]
  <1>1. ASSUME NEW x \in Device, NEW y \in Device, NEW b \in Announced(x, y, p)'
        PROVE  b \in Announced(x, y, p) \/ b = NoEntry \/ News(x, y, p, b)
    <2>1. PICK m \in Range(chan'[x][y]) : m.type = "index" /\ b = m.entries[p]
      BY DEF Announced
    <2>2. CASE m \in Range(chan[x][y])
      BY <2>1, <2>2 DEF Announced
    <2>3. CASE Announceable(x, y, p, m)
      BY <2>1, <2>3 DEF Announceable
    <2> QED  BY <2>1, <2>2, <2>3
  <1>2. ASSUME NEW x \in Device, NEW y \in Device, NEW c \in Served(x, y, p)'
        PROVE  \/ c \in Served(x, y, p)
               \/ c = file[x][p].disk /\ c # NoFile /\ file'[x][p] = file[x][p]
    <2>1. PICK m \in Range(chan'[x][y]) : m.type = "block-response" /\ m.path = p /\ c = m.data
      BY DEF Served
    <2>2. CASE m \in Range(chan[x][y])
      BY <2>1, <2>2 DEF Served
    <2>3. CASE Announceable(x, y, p, m)
      BY <2>1, <2>3 DEF Announceable
    <2> QED  BY <2>1, <2>2, <2>3
  <1> QED  BY <1>1, <1>2

(* A message that was sent and not lost is announced or served. *)
LEMMA MessageParts ==
    ASSUME Inv, NEW x \in Device, NEW y \in Device, NEW m \in Range(chan[x][y])
    PROVE  /\ m \in Message
           /\ m.type = "index" => \A p \in Path : m.entries[p] \in Announced(x, y, p)
           /\ m.type = "block-response" => m.data \in Served(x, y, m.path)
  <1>1. chan[x][y] \in Seq(Message)
    BY DEF Inv, TypeOK
  <1> QED  BY <1>1 DEF Range, Announced, Served

LEMMA FirstMessage ==
    ASSUME Inv, NEW d \in Device, NEW e \in Device, chan[e][d] # <<>>
    PROVE  /\ Head(chan[e][d]) \in Range(chan[e][d])
           /\ {d, e} \in Link
  <1>1. chan[e][d] \in Seq(Message)
    BY DEF Inv, TypeOK
  <1>2. e \in Neighbour(d)
    BY ReceivedFacts
  <1> QED  BY <1>1, <1>2, RangeOfTail DEF Neighbour, Inv, TypeOK

(* The step of one path. *)
PathStep(p) == Edits(p) \/ Untouched(p) \/ (Calm(p) /\ OneMoves(p))

LEMMA ClockIsNat == Inv => clock \in Nat
  BY BoundAssumption DEF Inv, TypeOK

LEMMA CalmRest ==
    ASSUME Inv, NEW p \in Path, clock' = clock, NEW r \in Device,
           \A x \in Device \ {r} : file'[x][p] = file[x][p],
           file'[r][p] = file[r][p] \/ (r # Author /\ Adopts(r, p)),
           \A d, e \in Device :
              LET item == pend[d][e][p]'
              IN  \/ item = NoPending
                  \/ item = pend[d][e][p] /\ file'[d][p] = file[d][p]
                  \/ /\ d # Author /\ e = Upstream[d] /\ item.kind = "receive"
                     /\ item.entry \in Known(p) /\ ~item.entry.deleted
                     /\ Stamp(item.entry) > StampOf(d, p)',
           \A x, y \in Device : \A m \in Range(chan'[x][y]) :
              m \in Range(chan[x][y]) \/ Announceable(x, y, p, m)
    PROVE  PathStep(p)
  <1>1. ASSUME NEW x \in Device
        PROVE  file'[x][p] = file[x][p] \/ (x # Author /\ Adopts(x, p))
    <2>1. CASE x = r
      BY <2>1
    <2>2. CASE x # r
      <3>1. x \in Device \ {r}
        BY <2>2
      <3> QED  BY <3>1
    <2> QED  BY <2>1, <2>2
  <1>2. OneMoves(p)
    BY DEF OneMoves
  <1>3. clock \in Nat
    BY ClockIsNat
  <1>4. Calm(p)
    BY <1>1, <1>3, MessagesCalm, Zenon DEF Calm
  <1> QED  BY <1>2, <1>4 DEF PathStep

LEMMA CalmSame ==
    ASSUME OneAuthor, Inv, NEW p \in Path, UNCHANGED <<file, clock>>,
           \A d, e \in Device : pend'[d][e][p] = pend[d][e][p] \/ pend'[d][e][p] = NoPending,
           \A x, y \in Device : \A m \in Range(chan'[x][y]) :
              m \in Range(chan[x][y]) \/ Announceable(x, y, p, m)
    PROVE  PathStep(p)
  <1>1. /\ Author \in Device
        /\ \A x \in Device : file'[x][p] = file[x][p]
    BY DEF OneAuthor
  <1>2. OneMoves(p)
    BY <1>1 DEF OneMoves
  <1>3. clock \in Nat
    BY ClockIsNat
  <1>4. \A d, e \in Device : pend[d][e][p]' = NoPending \/ pend[d][e][p]' = pend[d][e][p]
    OBVIOUS
  <1>5. /\ \A x, y \in Device : \A b \in Announced(x, y, p)' :
                 b \in Announced(x, y, p) \/ b = NoEntry \/ News(x, y, p, b)
        /\ \A x, y \in Device : \A c \in Served(x, y, p)' :
                 \/ c \in Served(x, y, p)
                 \/ c = file[x][p].disk /\ c # NoFile /\ file'[x][p] = file[x][p]
    BY MessagesCalm
  <1>6. Calm(p)
    BY <1>1, <1>3, <1>4, <1>5 DEF Calm
  <1> QED  BY <1>2, <1>6 DEF PathStep

LEMMA UserPath ==
    ASSUME OneAuthor, Inv, NEW d \in Device, NEW q \in Path, Write(d, q) \/ Unlink(d, q),
           NEW p \in Path
    PROVE  PathStep(p)
  <1>1. d = Author
    BY DEF OneAuthor, Write, Unlink
  <1>2. clock \in Nat
    BY ClockIsNat
  <1>3. file \in [Device -> [Path -> FileState]]
    BY DEF Inv, TypeOK
  <1>4. PICK x \in {NoFile, clock + 1} : file' = [file EXCEPT ![d][q].disk = x]
    BY DEF Write, Unlink
  <1>5. clock' = clock + 1 /\ UNCHANGED <<pend, chan>>
    BY DEF Write, Unlink
  <1>6. \A y \in Device, r \in Path :
           file'[y][r] = IF y = d /\ r = q THEN [file[y][r] EXCEPT !.disk = x] ELSE file[y][r]
    BY <1>3, <1>4
  <1>7. \A f \in FileState : [f EXCEPT !.disk = x].index = f.index /\ [f EXCEPT !.disk = x].disk = x
    BY DEF FileState
  <1>8. file[d][q] \in FileState
    BY <1>3
  <1>9. \A y \in Device : file'[y][p].index = file[y][p].index
    BY <1>6, <1>7, <1>8
  <1>10. /\ \A y \in Device \ {Author} : file'[y][p].disk = file[y][p].disk
         /\ file'[Author][p].disk \in {file[Author][p].disk, NoFile, clock + 1}
    <2>1. CASE p = q
      BY <1>1, <1>6, <1>7, <1>8, <2>1
    <2>2. CASE p # q
      BY <1>1, <1>6, <2>2
    <2> QED  BY <2>1, <2>2
  <1>11. Untouched(p)
    BY <1>2, <1>5, <1>9, <1>10 DEF Untouched
  <1> QED  BY <1>11 DEF PathStep

LEMMA ConnectPath ==
    ASSUME OneAuthor, Inv, NEW d \in Device, NEW e \in Device, Connect(d, e),
           NEW p \in Path, PathInv(p)
    PROVE  PathStep(p)
  <1>1. UNCHANGED <<file, pend, clock>> /\ {d, e} \in Link
    BY DEF Connect
  <1>2. chan \in [Device -> [Device -> Seq(Message)]]
    BY DEF Inv, TypeOK
  <1> DEFINE m1 == IndexMessage(LocalIndex(d), TRUE, FALSE)
             m2 == IndexMessage(LocalIndex(e), TRUE, FALSE)
  <1>3. chan' = [chan EXCEPT ![d][e] = <<m1>>, ![e][d] = <<m2>>] /\ d # e
    BY DEF Connect
  <1>4. ASSUME NEW x \in Device, NEW y \in Device, {x, y} \in Link
        PROVE  Announceable(x, y, p, IndexMessage(LocalIndex(x), TRUE, FALSE))
    <2> DEFINE b == file[x][p].index
    <2>1. b # NoEntry => b \in Known(p)
      BY KnownParts
    <2>2. x # Author /\ y = Upstream[x] => Stamp(b) <= StampOf(y, p)
      BY <1>4 DEF PathInv, UpstreamLeads, StampOf
    <2>3. StampOf(x, p)' = Stamp(b) /\ Stamp(b) \in Nat
      BY <1>1, StampFacts DEF StampOf, Stamp, PathInv
    <2>4. b # NoEntry => News(x, y, p, b)
      BY <2>1, <2>2, <2>3 DEF News
    <2> QED  BY <2>4 DEF Announceable, IndexMessage, LocalIndex
  <1> HIDE DEF m1, m2
  <1>5. ASSUME NEW x \in Device, NEW y \in Device, NEW m \in Range(chan'[x][y])
        PROVE  m \in Range(chan[x][y]) \/ Announceable(x, y, p, m)
    <2>1. CASE x = d /\ y = e
      <3>1. chan'[x][y] = <<m1>>
        BY <1>2, <1>3, <2>1
      <3>2. m = m1
        BY <1>5, <3>1, RangeOfOne
      <3> QED  BY <1>1, <1>4, <2>1, <3>2 DEF m1
    <2>2. CASE x = e /\ y = d
      <3>1. chan'[x][y] = <<m2>>
        BY <1>2, <1>3, <2>2
      <3>2. m = m2
        BY <1>5, <3>1, RangeOfOne
      <3>3. {x, y} = {d, e}
        BY <2>2
      <3> QED  BY <1>1, <1>4, <2>2, <3>2, <3>3 DEF m2
    <2>3. CASE <<x, y>> \notin {<<d, e>>, <<e, d>>}
      <3>1. chan'[x][y] = chan[x][y]
        BY <1>2, <1>3, <2>3
      <3> QED  BY <1>5, <3>1
    <2> QED  BY <2>1, <2>2, <2>3
  <1> QED  BY <1>1, <1>5, CalmSame

LEMMA DisconnectPath ==
    ASSUME OneAuthor, Inv, NEW d \in Device, NEW e \in Device, Disconnect(d, e),
           NEW p \in Path, PathInv(p)
    PROVE  PathStep(p)
  <1>1. UNCHANGED <<file, clock>> /\ d # e
    BY DEF Disconnect
  <1>2. /\ chan \in [Device -> [Device -> Seq(Message)]]
        /\ pend \in [Device -> [Device -> [Path -> Pending]]]
    BY DEF Inv, TypeOK
  <1> DEFINE none == [q \in Path |-> NoPending]
             empty == <<>>
  <1>3. /\ chan' = [chan EXCEPT ![d][e] = empty, ![e][d] = empty]
        /\ pend' = [pend EXCEPT ![d][e] = none, ![e][d] = none]
    BY DEF Disconnect
  <1>4. Range(empty) = {} /\ none[p] = NoPending
    BY RangeOfOne
  <1> HIDE DEF none, empty
  <1>5. \A x, y \in Device : /\ chan'[x][y] \in {empty, chan[x][y]}
                             /\ pend'[x][y] \in {none, pend[x][y]}
    BY <1>2, <1>3
  <1>6. \A x, y \in Device : Range(chan'[x][y]) \subseteq Range(chan[x][y])
    BY <1>4, <1>5
  <1>7. \A x, y \in Device : pend'[x][y][p] = pend[x][y][p] \/ pend'[x][y][p] = NoPending
    BY <1>4, <1>5
  <1>8. \A x, y \in Device : \A m \in Range(chan'[x][y]) :
              m \in Range(chan[x][y]) \/ Announceable(x, y, p, m)
    BY <1>6
  <1> QED  BY <1>1, <1>7, <1>8, CalmSame

LEMMA RequestPath ==
    ASSUME OneAuthor, Inv, NEW d \in Device, NEW e \in Device, handleBlockRequest(d, e),
           NEW p \in Path, PathInv(p)
    PROVE  PathStep(p)
  <1> DEFINE m == Head(chan[e][d])
             data == file[d][m.path].disk
             answer == BlockResponse(m.path, m.hash, data)
             reply == IF data = NoFile THEN <<>> ELSE <<answer>>
             none == <<>>
  <1>1. UNCHANGED <<file, pend, clock>>
    BY DEF handleBlockRequest
  <1>2. chan[e][d] # <<>> /\ m \in Message /\ m.type = "block-request"
    BY ReceivedFacts DEF handleBlockRequest, Received
  <1>3. m.path \in Path /\ m.hash \in Content
    BY <1>2 DEF Message
  <1>4. data \in Content \cup {NoFile}
    BY <1>3 DEF Inv, TypeOK, FileState
  <1>5. reply \in Seq(Message)
    <2>1. data # NoFile => answer \in Message
      <3> HIDE DEF m, data
      <3> QED  BY <1>3, <1>4, MessageTypes
    <2> HIDE DEF answer, data
    <2> QED  BY <2>1
  <1>6. Deliver(d, e, reply, none)
    BY Zenon DEF handleBlockRequest
  <1>7. Range(none) = {}
    BY RangeOfOne
  <1>12. none \in Seq(Message)
    OBVIOUS
  <1>8. ASSUME NEW x \in Range(reply)
        PROVE  data # NoFile /\ x = answer
    <2> HIDE DEF answer, data
    <2> QED  BY <1>8, RangeOfOne
  <1>9. data # NoFile => Announceable(d, e, p, answer)
    BY <1>1 DEF Announceable, BlockResponse
  <1> HIDE DEF reply, data, answer, none, m
  <1>10. \A x, y \in Device : \A n \in Range(chan'[x][y]) :
              n \in Range(chan[x][y]) \/ Announceable(x, y, p, n)
    <2>1. \A x, y \in Device : \A n \in Range(chan'[x][y]) :
              \/ n \in Range(chan[x][y])
              \/ x = d /\ y = e /\ n \in Range(reply)
              \/ x = d /\ y # e /\ y \in Neighbour(d) /\ n \in Range(none)
      BY <1>2, <1>5, <1>6, <1>12, DeliverRange
    <2> QED  BY <1>7, <1>8, <1>9, <2>1
  <1>11. UNCHANGED pend
    BY <1>1
  <1> QED  BY <1>1, <1>10, <1>11, CalmSame

LEMMA RetryPath ==
    ASSUME OneAuthor, Inv, NEW d \in Device, NEW e \in Device, NEW q \in Path, retryBlock(d, e, q),
           NEW p \in Path, PathInv(p)
    PROVE  PathStep(p)
  <1> DEFINE m == BlockRequest(q, pend[d][e][q].entry.content)
  <1>1. UNCHANGED <<file, pend, clock>>
    BY DEF retryBlock
  <1>2. pend[d][e][q] \in Item
    BY DEF retryBlock, Unanswered, Inv, TypeOK, Pending
  <1>3. m \in Message
    <2>1. pend[d][e][q].entry.content \in Content
      BY <1>2 DEF Item, Entry
    <2> QED  BY <2>1, MessageTypes
  <1>4. chan \in [Device -> [Device -> Seq(Message)]]
    BY DEF Inv, TypeOK
  <1>5. chan' = [chan EXCEPT ![d][e] = Append(chan[d][e], m)]
    BY <1>4 DEF retryBlock
  <1>6. \A x, y \in Device : Announceable(x, y, p, m)
    BY DEF Announceable, BlockRequest
  <1> HIDE DEF m
  <1>7. \A x, y \in Device : chan'[x][y] \in {chan[x][y], Append(chan[x][y], m)}
    BY <1>4, <1>5
  <1>8. \A x, y \in Device : Range(Append(chan[x][y], m)) \subseteq Range(chan[x][y]) \cup {m}
    BY <1>3, <1>4, RangeOfAppend
  <1>9. \A x, y \in Device : \A n \in Range(chan'[x][y]) :
              n \in Range(chan[x][y]) \/ Announceable(x, y, p, n)
    <2> SUFFICES ASSUME NEW x \in Device, NEW y \in Device, NEW n \in Range(chan'[x][y]),
                        n \notin Range(chan[x][y])
                 PROVE  n = m
      BY <1>6
    <2>1. chan'[x][y] = Append(chan[x][y], m)
      BY <1>7
    <2> QED  BY <1>8, <2>1
  <1> QED  BY <1>1, <1>9, CalmSame

LEMMA DropPath ==
    ASSUME OneAuthor, Inv, NEW d \in Device, NEW e \in Device, NEW q \in Path,
           dropIfUnservable(d, e, q), NEW p \in Path, PathInv(p)
    PROVE  PathStep(p)
  <1>1. UNCHANGED <<file, chan, clock>>
    BY DEF dropIfUnservable
  <1>2. pend \in [Device -> [Device -> [Path -> Pending]]]
    BY DEF Inv, TypeOK
  <1>3. pend' = [pend EXCEPT ![d][e][q] = NoPending]
    BY DEF dropIfUnservable
  <1>4. \A x, y \in Device : pend'[x][y][p] = pend[x][y][p] \/ pend'[x][y][p] = NoPending
    BY <1>2, <1>3
  <1> QED  BY <1>1, <1>4, CalmSame

LEMMA ResponsePath ==
    ASSUME OneAuthor, Inv, NEW d \in Device, NEW e \in Device, onBlockResponse(d, e),
           NEW p \in Path, \A q \in Path : PathInv(q)
    PROVE  PathStep(p)
  <1> DEFINE m == Head(chan[e][d])
             q == m.path
             item == pend[d][e][q]
             accepted == item # NoPending /\ m.hash = item.entry.content /\ m.data = m.hash
             none == <<>>
  <1>1. UNCHANGED clock /\ Deliver(d, e, none, none)
    BY ZenonT(60) DEF onBlockResponse
  <1>2. chan[e][d] # <<>> /\ m \in Message /\ m.type = "block-response"
    BY ReceivedFacts, Zenon DEF onBlockResponse, Received
  <1>3. q \in Path
    BY <1>2 DEF Message
  <1>4. /\ file \in [Device -> [Path -> FileState]]
        /\ pend \in [Device -> [Device -> [Path -> Pending]]]
    BY DEF Inv, TypeOK
  <1>5. /\ accepted => /\ file' = [file EXCEPT ![d][q] = Land(file[d][q], item)]
                       /\ pend' = [pend EXCEPT ![d][e][q] = NoPending]
        /\ ~accepted => file' = file /\ pend' = pend
    BY <1>3, <1>4, Zenon DEF onBlockResponse
  <1>6. m.data \in Served(e, d, q)
    <2>1. m \in Range(chan[e][d])
      BY <1>2, FirstMessage
    <2> HIDE DEF m
    <2> QED  BY <1>2, <2>1, MessageParts
  <1>7. \A x, y \in Device : \A n \in Range(chan'[x][y]) :
              n \in Range(chan[x][y]) \/ Announceable(x, y, p, n)
    <2>1. Range(none) = {}
      BY RangeOfOne
    <2>2. none \in Seq(Message)
      OBVIOUS
    <2>3. chan[e][d] # <<>> /\ Deliver(d, e, none, none)
      BY <1>1, <1>2
    <2> HIDE DEF none, m, q, item, accepted
    <2>4. \A x, y \in Device : \A n \in Range(chan'[x][y]) :
              \/ n \in Range(chan[x][y])
              \/ x = d /\ y = e /\ n \in Range(none)
              \/ x = d /\ y # e /\ y \in Neighbour(d) /\ n \in Range(none)
      BY <2>2, <2>3, DeliverRange
    <2> QED  BY <2>1, <2>4
  <1> HIDE DEF m, q, none
  <1>8. CASE ~accepted
    BY <1>1, <1>5, <1>7, <1>8, CalmSame
  <1>9. CASE accepted
    <2> DEFINE b == item.entry
               f == file[d][q]
    <2>1. PathInv(q) /\ item # NoPending
      BY <1>3, <1>9
    <2>2. /\ d # Author /\ e = Upstream[d] /\ item.kind = "receive"
          /\ ~b.deleted /\ Stamp(b) > StampOf(d, q)
      BY <2>1 DEF PathInv, ReceivesNewer
    <2>3. b \in Known(q)
      <3>1. b # NoEntry
        BY <1>3, <1>4, <2>1, EntryIsNoGap DEF Pending, Item
      <3> QED  BY <1>3, <2>1, <3>1, KnownParts
    <2>4. b.content # Empty /\ b.content \in Served(e, d, q)
      <3>1. Authored(b)
        BY <2>1, <2>3 DEF PathInv, AuthorFirst
      <3>2. b.content = m.data
        BY <1>9
      <3> QED  BY <1>6, <2>2, <3>1, <3>2 DEF Authored
    <2>5. Stamp(b) <= StampOf(Upstream[d], q)
      BY <2>1, <2>2, <2>3, <2>4 DEF PathInv, UpstreamLeads
    <2>6. Land(f, item) = finalizeReceive(f, b)
      BY <2>2 DEF Land
    <2>7. f \in FileState
      BY <1>3, <1>4
    <2>8. finalizeReceive(f, b).index = b /\ finalizeReceive(f, b).disk = Blocks(b)
      BY <2>7 DEF finalizeReceive, snapshotVersion, preserveLocalAsConflict, FileState
    <2>9. \A x \in Device, r \in Path :
             file'[x][r] = IF x = d /\ r = q THEN finalizeReceive(f, b) ELSE file[x][r]
      <3> DEFINE landed == finalizeReceive(f, b)
      <3>1. file' = [file EXCEPT ![d][q] = landed]
        BY <1>5, <1>9, <2>6
      <3> HIDE DEF landed
      <3>2. \A x \in Device, r \in Path :
             file'[x][r] = IF x = d /\ r = q THEN landed ELSE file[x][r]
        BY <1>3, <1>4, <3>1
      <3> QED  BY <3>2 DEF landed
    <2>10. \A x, y \in Device, r \in Path :
              pend'[x][y][r] = IF x = d /\ y = e /\ r = q THEN NoPending ELSE pend[x][y][r]
      <3>1. pend' = [pend EXCEPT ![d][e][q] = NoPending]
        BY <1>5, <1>9
      <3> HIDE DEF item, accepted
      <3> QED  BY <1>3, <1>4, <3>1
    <2>11. CASE p # q
      <3>1. \A x \in Device : file'[x][p] = file[x][p]
        BY <2>9, <2>11
      <3>2. \A x, y \in Device : pend[x][y][p]' = pend[x][y][p] /\ file'[x][p] = file[x][p]
        BY <2>10, <2>11, <3>1
      <3> HIDE DEF item, accepted
      <3> QED  BY <1>1, <1>7, <3>1, <3>2, CalmRest
    <2>12. CASE p = q
      <3>1. \A x \in Device \ {d} : file'[x][p] = file[x][p]
        BY <2>9
      <3>2. file'[d][p].index = b /\ file'[d][p].disk = b.content
        BY <2>2, <2>8, <2>9, <2>12 DEF Blocks
      <3>3. Adopts(d, p)
        BY <2>2, <2>3, <2>5, <2>12, <3>2 DEF Adopts, Honest
      <3>4. ASSUME NEW x \in Device, NEW y \in Device
            PROVE  \/ pend[x][y][p]' = NoPending
                   \/ pend[x][y][p]' = pend[x][y][p] /\ file'[x][p] = file[x][p]
        <4>1. CASE x # d
          BY <2>9, <2>10, <4>1
        <4>2. CASE x = d /\ y = e
          BY <2>10, <2>12, <4>2
        <4>3. CASE x = d /\ y # e
          <5>1. pend[x][y][p] = NoPending
            BY <2>1, <2>2, <2>12, <4>3 DEF PathInv, ReceivesNewer
          <5> QED  BY <2>10, <4>3, <5>1
        <4> QED  BY <4>1, <4>2, <4>3
      <3>5. d # Author
        BY <2>2
      <3> HIDE DEF item, accepted
      <3> QED  BY <1>1, <1>7, <3>1, <3>3, <3>4, <3>5, CalmRest
    <2> QED  BY <2>11, <2>12
  <1> QED  BY <1>8, <1>9

----------------------------------------------------------------------------
(* Only the author's scan ever finds something. *)
LEMMA AuthorScans ==
    ASSUME OneAuthor, Inv, NEW d \in Device, scanOnce(d), \A q \in Path : PathInv(q)
    PROVE  d = Author
  <1> SUFFICES ASSUME d # Author PROVE FALSE
    OBVIOUS
  <1>1. file \in [Device -> [Path -> FileState]]
    BY DEF Inv, TypeOK
  <1>2. ASSUME NEW q \in Path
        PROVE  ~Changed(file[d][q]) /\ ~Gone(file[d][q])
    <2>1. /\ Honest(file[d][q])
          /\ file[d][q].index = NoEntry => file[d][q].disk = NoFile
      BY DEF PathInv, CopiesHonest
    <2>2. ASSUME file[d][q].index # NoEntry, ~file[d][q].index.deleted
          PROVE  file[d][q].index.content # NoFile
      <3>1. file[d][q].index \in Entry
        BY <1>1, <2>2 DEF FileState, MaybeEntry
      <3>2. file[d][q].index.content \in Nat
        BY <3>1, BoundAssumption DEF Entry, Content
      <3> QED  BY <3>2, FileAssumption
    <2> QED  BY <2>1, <2>2 DEF Changed, Gone, Honest
  <1>3. Records(d) = NoEntries
    BY <1>2 DEF Records, NoEntries
  <1> QED  BY <1>3 DEF scanOnce

(* The author's scan records what it finds truly. *)
LEMMA ScanPath ==
    ASSUME OneAuthor, Inv, NEW d \in Device, scanOnce(d),
           NEW p \in Path, \A q \in Path : PathInv(q)
    PROVE  PathStep(p)
  <1> DEFINE rec == Records(d)
             m == IndexMessage(Sends(d), FALSE, FALSE)
             f == file[d][p]
  <1>1. /\ file \in [Device -> [Path -> FileState]]
        /\ chan \in [Device -> [Device -> Seq(Message)]]
    BY DEF Inv, TypeOK
  <1>2. UNCHANGED <<pend, clock>>
    BY DEF scanOnce
  <1>3. rec = [q \in Path |-> IF Changed(file[d][q]) \/ Gone(file[d][q])
                              THEN Scanned(d, file[d][q]) ELSE NoEntry]
    BY DEF Records
  <1>4. d = Author
    BY AuthorScans
  <1>5. /\ \A x \in Device \ {d}, q \in Path : file'[x][q] = file[x][q]
        /\ \A q \in Path : file'[d][q] = IF rec[q] # NoEntry THEN [file[d][q] EXCEPT !.index = rec[q]]
                                                             ELSE file[d][q]
    <2> DEFINE g == [q \in Path |-> IF rec[q] # NoEntry THEN [file[d][q] EXCEPT !.index = rec[q]]
                                                        ELSE file[d][q]]
    <2>1. file' = [file EXCEPT ![d] = g]
      BY <1>1 DEF scanOnce
    <2>2. \A q \in Path : g[q] = IF rec[q] # NoEntry THEN [file[d][q] EXCEPT !.index = rec[q]]
                                                    ELSE file[d][q]
      OBVIOUS
    <2> HIDE DEF g, rec
    <2> QED  BY <1>1, <2>1, <2>2
  <1>6. \A x, y \in Device : \A n \in Range(chan'[x][y]) :
              n \in Range(chan[x][y]) \/ (x = d /\ n = m)
    <2>1. chan' = [chan EXCEPT ![d] = [y \in Device |->
                    IF y \in Listeners(d) THEN Append(chan[d][y], m) ELSE chan[d][y]]]
      BY <1>1 DEF scanOnce
    <2>2. m \in Message
      <3>1. rec \in [Path -> MaybeEntry]
        <4>1. ASSUME NEW q \in Path
              PROVE  file'[d][q].index \in MaybeEntry
          <5>1. Inv'
            BY ScanGood DEF GoodStep
          <5> QED  BY <5>1 DEF Inv, TypeOK, FileState
        <4>2. ASSUME NEW q \in Path, rec[q] # NoEntry
              PROVE  rec[q] = file'[d][q].index
          <5>1. file[d][q] \in FileState
            BY <1>1
          <5> HIDE DEF rec
          <5> QED  BY <1>5, <4>2, <5>1 DEF FileState
        <4>3. ASSUME NEW q \in Path
              PROVE  rec[q] \in MaybeEntry
          BY <4>1, <4>2 DEF MaybeEntry
        <4>4. rec = [q \in Path |-> rec[q]]
          BY <1>3
        <4> HIDE DEF rec
        <4> QED  BY <4>3, <4>4
      <3> QED  BY <3>1, MessageTypes DEF Sends
    <2> HIDE DEF m
    <2>3. \A y \in Device : Range(Append(chan[d][y], m)) \subseteq Range(chan[d][y]) \cup {m}
      BY <1>1, <2>2, RangeOfAppend
    <2>4. /\ \A x \in Device \ {d} : chan'[x] = chan[x]
          /\ \A y \in Device : chan'[d][y] \in {chan[d][y], Append(chan[d][y], m)}
      BY <1>1, <2>1
    <2> SUFFICES ASSUME NEW x \in Device, NEW y \in Device, NEW n \in Range(chan'[x][y]),
                        n \notin Range(chan[x][y])
                 PROVE  x = d /\ n = m
      OBVIOUS
    <2>5. x = d
      BY <2>4
    <2>6. n \in Range(Append(chan[d][y], m))
      BY <2>4, <2>5
    <2> QED  BY <2>3, <2>5, <2>6
  <1>7. m.type = "index" /\ m.entries[p] = rec[p]
    BY DEF IndexMessage, Sends
  <1> HIDE DEF m
  <1>8. f \in FileState /\ PathInv(p)
    BY <1>1
  <1>9. CASE rec[p] = NoEntry
    <2>1. \A x \in Device : file'[x][p] = file[x][p]
      BY <1>5, <1>9
    <2>2. \A x, y \in Device : \A n \in Range(chan'[x][y]) :
              n \in Range(chan[x][y]) \/ Announceable(x, y, p, n)
      BY <1>6, <1>7, <1>9 DEF Announceable
    <2>3. \A x, y \in Device : pend[x][y][p]' = pend[x][y][p] /\ file'[x][p] = file[x][p]
      BY <1>2, <2>1
    <2> HIDE DEF rec, f
    <2> QED  BY <1>2, <2>1, <2>2, <2>3, CalmRest
  <1>10. CASE rec[p] # NoEntry
    <2> DEFINE b == rec[p]
               previous == IF f.index = NoEntry THEN createVersionVector ELSE f.index.version
               next == incrementVersion(previous, d)
    <2>1. (Changed(f) \/ Gone(f)) /\ b = Scanned(d, f)
      BY <1>3, <1>10
    <2>2. /\ b.version = next
          /\ IF b.deleted THEN Gone(f) /\ b.content = Empty ELSE Changed(f) /\ b.content = f.disk
      <3>1. Scanned(d, f) = CASE Changed(f) -> [version |-> next, deleted |-> FALSE, content |-> f.disk]
                              [] Gone(f)    -> [version |-> next, deleted |-> TRUE, content |-> Empty]
        BY DEF Scanned
      <3>2. ~(Changed(f) /\ Gone(f))
        BY DEF Changed, Gone
      <3> HIDE DEF next, f, rec
      <3> QED  BY <2>1, <3>1, <3>2
    <2>3. file'[d][p].index = b /\ file'[d][p].disk = f.disk
      BY <1>5, <1>8, <1>10 DEF FileState
    <2>4. b \in Entry /\ b # NoEntry
      <3>1. Inv'
        BY ScanGood DEF GoodStep
      <3>2. file'[d][p].index \in MaybeEntry
        BY <3>1 DEF Inv, TypeOK, FileState
      <3> HIDE DEF rec
      <3> QED  BY <1>10, <2>3, <3>2 DEF MaybeEntry
    <2>5. /\ previous \in Version /\ previous[Author] = StampOf(Author, p)
          /\ \A x \in Device \ {Author} : previous[x] = 0
      <3>1. CASE f.index = NoEntry
        BY <1>4, <3>1 DEF createVersionVector, Version, StampOf, Stamp
      <3>2. CASE f.index # NoEntry
        <4>1. f.index \in Known(p)
          BY <3>2, KnownParts
        <4>2. f.index \in Entry /\ Authored(f.index)
          BY <1>8, <4>1, KnownTyped DEF PathInv, AuthorFirst
        <4> QED  BY <1>4, <3>2, <4>2 DEF Entry, Authored, StampOf, Stamp
      <3> QED  BY <3>1, <3>2
    <2>6. StampOf(Author, p) \in Nat
      BY <1>4, <1>8, StampFacts DEF PathInv
    <2>7. /\ next[Author] = StampOf(Author, p) + 1
          /\ \A x \in Device \ {Author} : next[x] = 0
      <3> HIDE DEF previous
      <3> QED  BY <1>4, <2>5 DEF incrementVersion, Version
    <2>8. b.deleted <=> b.content = Empty
      <3>1. f.disk # NoFile => f.disk # Empty
        BY <1>4, <1>8 DEF PathInv, EditFresh, Empty
      <3> HIDE DEF next
      <3> QED  BY <2>2, <3>1 DEF Changed
    <2>9. Authored(b) /\ Stamp(b) = StampOf(Author, p) + 1
      <3> HIDE DEF next, rec
      <3> QED  BY <2>2, <2>4, <2>6, <2>7, <2>8 DEF Authored, Stamp
    <2>10. \A x, y \in Device : \A c \in Announced(x, y, p)' :
              c \in Announced(x, y, p) \/ c = NoEntry \/ (c = b /\ x = Author)
      <3> SUFFICES ASSUME NEW x \in Device, NEW y \in Device, NEW c \in Announced(x, y, p)',
                          c \notin Announced(x, y, p)
                   PROVE  c = b /\ x = Author
        OBVIOUS
      <3>1. PICK n \in Range(chan'[x][y]) : n.type = "index" /\ c = n.entries[p]
        BY DEF Announced
      <3>2. n \notin Range(chan[x][y])
        BY <3>1 DEF Announced
      <3> HIDE DEF rec
      <3> QED  BY <1>4, <1>6, <1>7, <3>1, <3>2
    <2>11. \A x, y \in Device : Served(x, y, p)' \subseteq Served(x, y, p)
      <3> SUFFICES ASSUME NEW x \in Device, NEW y \in Device, NEW c \in Served(x, y, p)'
                   PROVE  c \in Served(x, y, p)
        OBVIOUS
      <3>1. PICK n \in Range(chan'[x][y]) : n.type = "block-response" /\ n.path = p /\ c = n.data
        BY DEF Served
      <3>2. n \in Range(chan[x][y])
        BY <1>6, <1>7, <3>1
      <3> QED  BY <3>1, <3>2 DEF Served
    <2>12. Edits(p)
      <3>1. clock \in Nat
        BY ClockIsNat
      <3>2. IF b.deleted THEN f.disk = NoFile ELSE Changed(f) /\ b.content = f.disk
        BY <2>2 DEF Gone
      <3> HIDE DEF rec
      <3> QED
        BY <1>2, <1>4, <1>5, <2>3, <2>4, <2>9, <2>10, <2>11, <3>1, <3>2 DEF Edits
    <2> QED  BY <2>12 DEF PathStep
  <1> QED  BY <1>9, <1>10

LEMMA IndexPath ==
    ASSUME OneAuthor, Inv, NEW d \in Device, NEW e \in Device, onPeerIndex(d, e),
           NEW p \in Path, PathInv(p)
    PROVE  PathStep(p)
  <1> DEFINE m == Head(chan[e][d])
             remote == m.entries[p]
  <1>1. /\ chan[e][d] # <<>> /\ m \in Message /\ m.type = "index"
        /\ m.entries \in [Path -> MaybeEntry] /\ clock' = clock
    BY IndexEffect, Zenon
  <1>2. PICK outcome, reply, relay :
                     /\ \A q \in Path :
                           /\ GoodOutcome(d, e, q, m.entries[q], outcome[q])
                           /\ \E action \in {"none", planPath(file[d][q].index, m.entries[q])} :
                                 outcome[q] = Outcome(d, e, q, action, m.entries[q], m.full, m.relayed)
                     /\ file' = [file EXCEPT ![d] = [q \in Path |-> outcome[q].file]]
                     /\ pend' = [pend EXCEPT ![d][e] = [q \in Path |-> outcome[q].pend]]
                     /\ claim' = [claim EXCEPT ![d] = [q \in Path |-> outcome[q].claim]]
                     /\ Deliver(d, e, reply, relay)
                     /\ reply \in Seq(Message) /\ relay \in Seq(Message)
                     /\ \A n \in Range(reply) :
                           \/ n.type = "block-request"
                           \/ n = IndexMessage([q \in Path |-> outcome[q].send], FALSE, FALSE)
                     /\ \A n \in Range(relay) :
                           n = IndexMessage([q \in Path |-> outcome[q].landed], FALSE, TRUE)
    BY IndexEffect, Zenon
  <1> DEFINE o == outcome[p]
  <1>3. m \in Range(chan[e][d]) /\ {d, e} \in Link
    BY <1>1, FirstMessage, Zenon
  <1> HIDE DEF m
  <1>4. remote \in Announced(e, d, p)
    BY <1>1, <1>3, MessageParts
  <1>5. remote \in Known(p) \cup {NoEntry}
    BY <1>4, KnownParts
  <1>6. Quiet(d, e, p, o) \/ Deletes(d, p, remote, o) \/ Receives(d, p, remote, o)
    <2>1. PICK action \in {"none", planPath(file[d][p].index, remote)} :
              o = Outcome(d, e, p, action, remote, m.full, m.relayed)
      BY <1>2
    <2> HIDE DEF o, remote
    <2> QED  BY <1>5, <2>1, OutcomeCases
  <1>7. /\ file \in [Device -> [Path -> FileState]]
        /\ pend \in [Device -> [Device -> [Path -> Pending]]]
    BY DEF Inv, TypeOK
  <1>8. \A x \in Device : file'[x][p] = IF x = d THEN o.file ELSE file[x][p]
    BY <1>2, <1>7
  <1>9. \A x, y \in Device : pend'[x][y][p] = IF x = d /\ y = e THEN o.pend ELSE pend[x][y][p]
    <2> DEFINE pends == [q \in Path |-> outcome[q].pend]
    <2>1. pend' = [pend EXCEPT ![d][e] = pends] /\ pends[p] = o.pend
      BY <1>2
    <2> HIDE DEF pends, o
    <2> QED  BY <1>7, <2>1
  <1>10. \A x, y \in Device : \A n \in Range(chan'[x][y]) :
            \/ n \in Range(chan[x][y])
            \/ x = d /\ y = e /\ n.type = "block-request"
            \/ x = d /\ y = e /\ n.type = "index" /\ n.entries[p] = o.send
            \/ x = d /\ y # e /\ y \in Neighbour(d) /\ n.type = "index" /\ n.entries[p] = o.landed
    <2>1. \A n \in Range(reply) :
             n.type = "block-request" \/ (n.type = "index" /\ n.entries[p] = o.send)
      BY <1>2 DEF IndexMessage
    <2>2. \A n \in Range(relay) : n.type = "index" /\ n.entries[p] = o.landed
      BY <1>2 DEF IndexMessage
    <2>3. Deliver(d, e, reply, relay) /\ reply \in Seq(Message) /\ relay \in Seq(Message)
      BY <1>2
    <2>4. \A x, y \in Device : \A n \in Range(chan'[x][y]) :
              \/ n \in Range(chan[x][y])
              \/ x = d /\ y = e /\ n \in Range(reply)
              \/ x = d /\ y # e /\ y \in Neighbour(d) /\ n \in Range(relay)
      <3> HIDE DEF o
      <3> QED  BY <1>1, <2>3, DeliverRange, ZenonT(40)
    <2> HIDE DEF o
    <2> QED  BY <2>1, <2>2, <2>4
  <1> HIDE DEF o, remote
  <1>11. \A x : Stamp(x)' = Stamp(x)
    BY DEF Stamp
  <1>12. /\ \A x \in Device : StampOf(x, p) \in Nat
         /\ \A b \in Known(p) : b # NoEntry /\ b \in Entry /\ Stamp(b) \in Nat
    BY StampFacts DEF PathInv
  <1>13. CASE Quiet(d, e, p, o)
    <2>1. \A x \in Device : file'[x][p] = file[x][p]
      BY <1>8, <1>13 DEF Quiet
    <2>2. \A x, y \in Device : \/ pend[x][y][p]' = NoPending
                               \/ pend[x][y][p]' = pend[x][y][p] /\ file'[x][p] = file[x][p]
      BY <1>9, <1>13, <2>1 DEF Quiet
    <2>3. StampOf(d, p)' = StampOf(d, p)
      BY <1>11, <2>1 DEF StampOf
    <2>4. o.send # NoEntry => News(d, e, p, o.send)
      <3> SUFFICES ASSUME o.send # NoEntry PROVE News(d, e, p, o.send)
        OBVIOUS
      <3>1. o.send = file[d][p].index /\ o.send \in Known(p) /\ Stamp(o.send) = StampOf(d, p)
        BY <1>13, KnownParts DEF Quiet, StampOf
      <3>2. d # Author /\ e = Upstream[d] => StampOf(d, p) <= StampOf(e, p)
        BY DEF PathInv, UpstreamLeads
      <3> QED  BY <1>12, <2>3, <3>1, <3>2 DEF News
    <2>5. \A x, y \in Device : \A n \in Range(chan'[x][y]) :
              n \in Range(chan[x][y]) \/ Announceable(x, y, p, n)
      BY <1>10, <1>13, <2>4 DEF Announceable, Quiet
    <2> QED  BY <1>1, <2>1, <2>2, <2>5, CalmRest
  <1>14. CASE Deletes(d, p, remote, o) \/ Receives(d, p, remote, o)
    <2>1. remote \in Known(p) /\ Stamp(remote) > StampOf(d, p) /\ o.landed = remote /\ o.send = NoEntry
      BY <1>14 DEF Deletes, Receives
    <2>2. d # Author /\ e = Upstream[d]
      <3>1. ~(e # Author /\ d = Upstream[e])
        <4> SUFFICES ASSUME e # Author, d = Upstream[e] PROVE FALSE
          OBVIOUS
        <4>1. Stamp(remote) <= StampOf(d, p)
          BY <1>4 DEF PathInv, UpstreamLeads
        <4> QED  BY <1>12, <2>1, <4>1
      <3> QED  BY <1>3, <3>1, LinkDirection
    <2>3. \A x \in Device \ {d} : file'[x][p] = file[x][p]
      BY <1>8
    <2>4. remote.deleted => StampOf(d, p)' = Stamp(remote) /\ Adopts(d, p)
      <3> SUFFICES ASSUME remote.deleted
                   PROVE  StampOf(d, p)' = Stamp(remote) /\ Adopts(d, p)
        OBVIOUS
      <3>1. o.file = applyDelete(file[d][p], remote)
        BY <1>14 DEF Deletes, Receives
      <3>2. file[d][p] \in FileState
        BY <1>7
      <3>3. file'[d][p].index = remote /\ file'[d][p].disk = NoFile
        BY <1>8, <3>1, <3>2 DEF applyDelete, FileState
      <3>4. Stamp(remote) <= StampOf(Upstream[d], p)
        BY <1>4, <1>12, <2>1, <2>2 DEF PathInv, UpstreamLeads
      <3> QED  BY <1>11, <2>1, <3>3, <3>4 DEF Adopts, Honest, StampOf
    <2>5. ~remote.deleted => file'[d][p] = file[d][p]
      BY <1>8, <1>14 DEF Deletes, Receives
    <2>6. ASSUME NEW x \in Device, NEW y \in Device
          PROVE  LET item == pend[x][y][p]'
                 IN  \/ item = NoPending
                     \/ item = pend[x][y][p] /\ file'[x][p] = file[x][p]
                     \/ /\ x # Author /\ y = Upstream[x] /\ item.kind = "receive"
                        /\ item.entry \in Known(p) /\ ~item.entry.deleted
                        /\ Stamp(item.entry) > StampOf(x, p)'
      <3>1. CASE x # d
        BY <1>9, <2>3, <3>1
      <3>2. CASE x = d /\ y # e
        <4>1. pend[x][y][p] = NoPending
          BY <2>2, <3>2 DEF PathInv, ReceivesNewer
        <4> QED  BY <1>9, <3>2, <4>1
      <3>3. CASE x = d /\ y = e /\ remote.deleted
        BY <1>9, <1>14, <3>3 DEF Deletes, Receives
      <3>4. CASE x = d /\ y = e /\ ~remote.deleted
        <4>1. pend'[x][y][p] = [kind |-> "receive", entry |-> remote]
          BY <1>9, <1>14, <3>4 DEF Deletes, Receives
        <4>2. StampOf(x, p)' = StampOf(x, p)
          BY <1>11, <2>5, <3>4 DEF StampOf
        <4> QED  BY <2>1, <2>2, <3>4, <4>1, <4>2
      <3> QED  BY <3>1, <3>2, <3>3, <3>4
    <2>7. ASSUME NEW y \in Device, y # e
          PROVE  News(d, y, p, remote)
      <3>1. StampOf(d, p)' \in Nat /\ (remote.deleted => Stamp(remote) <= StampOf(d, p)')
        <4>1. CASE remote.deleted
          BY <1>12, <2>1, <2>4, <4>1
        <4>2. CASE ~remote.deleted
          BY <1>11, <1>12, <2>5, <4>2 DEF StampOf
        <4> QED  BY <4>1, <4>2
      <3> QED  BY <2>1, <2>2, <2>7, <3>1 DEF News
    <2>8. \A x, y \in Device : \A n \in Range(chan'[x][y]) :
              n \in Range(chan[x][y]) \/ Announceable(x, y, p, n)
      BY <1>10, <2>1, <2>7 DEF Announceable
    <2>9. file'[d][p] = file[d][p] \/ (d # Author /\ Adopts(d, p))
      BY <2>2, <2>4, <2>5
    <2> QED  BY <1>1, <2>3, <2>6, <2>8, <2>9, CalmRest
  <1> QED  BY <1>6, <1>13, <1>14

----------------------------------------------------------------------------
LEMMA AuthorInit ==
    ASSUME OneAuthor, Init
    PROVE  AuthorInv /\ \A p \in Path : Promise(p)!Init
  <1> SUFFICES ASSUME NEW p \in Path PROVE PathInv(p) /\ Promise(p)!Init
    BY DEF AuthorInv
  <1>1. /\ \A d \in Device : /\ file[d][p].index = NoEntry
                             /\ file[d][p].disk \in {NoFile, 1}
                             /\ d # Author => file[d][p].disk = NoFile
        /\ \A d, e \in Device : pend[d][e][p] = NoPending /\ chan[d][e] = <<>>
        /\ clock = 1
    <2>1. ASSUME NEW d \in Device
          PROVE  file[d][p].index = NoEntry /\ file[d][p].disk \in {NoFile, 1}
      BY DEF Init
    <2>2. ASSUME NEW d \in Device, d # Author
          PROVE  file[d][p].disk = NoFile
      BY <2>2 DEF Init, OneAuthor
    <2>3. \A d, e \in Device : pend[d][e][p] = NoPending /\ chan[d][e] = <<>>
      BY DEF Init
    <2> QED  BY <2>1, <2>2, <2>3 DEF Init
  <1>2. \A d, e \in Device : Announced(d, e, p) = {} /\ Served(d, e, p) = {}
    BY <1>1, RangeOfOne DEF Announced, Served
  <1>3. Known(p) = {}
    BY <1>1, <1>2 DEF Known, Entries, Pended
  <1>4. \A d \in Device : StampOf(d, p) = 0
    BY <1>1 DEF StampOf, Stamp
  <1>5. AuthorFirst(p) /\ Identified(p)
    BY <1>3 DEF AuthorFirst, Identified
  <1>6. CopiesHonest(p)
    BY <1>1 DEF CopiesHonest, Honest
  <1>7. EditFresh(p)
    BY <1>1, <1>2, <1>3 DEF EditFresh, OneAuthor
  <1>8. ReceivesNewer(p)
    BY <1>1 DEF ReceivesNewer
  <1>9. UpstreamLeads(p)
    <2>1. \A d \in Device : Upstream[d] \in Device
      BY DEF OneAuthor
    <2>2. \A d, e \in Device : StampOf(d, p) <= StampOf(e, p)
      BY <1>4
    <2> QED  BY <1>2, <1>3, <2>1, <2>2 DEF UpstreamLeads
  <1>10. Promise(p)!Init
    <2>1. Afloat(p) = {}
      BY <1>3 DEF Afloat, Known
    <2>2. Copies(p) = [r \in Device |-> Promise(p)!Blank]
      BY <1>1 DEF Copies, Register0, Promise!Blank
    <2> QED  BY <2>1, <2>2 DEF Promise!Init
  <1> QED  BY <1>5, <1>6, <1>7, <1>8, <1>9, <1>10 DEF PathInv

LEMMA AuthorNext ==
    ASSUME OneAuthor, Inv, AuthorInv, Next
    PROVE  \A p \in Path : PathStep(p)
  <1> SUFFICES ASSUME NEW p \in Path PROVE PathStep(p)
    OBVIOUS
  <1>1. \A q \in Path : PathInv(q)
    BY DEF AuthorInv
  <1>2. CASE \E d \in Device, q \in Path : Write(d, q) \/ Unlink(d, q)
    BY <1>2, UserPath
  <1>3. CASE \E d \in Device : scanOnce(d)
    BY <1>1, <1>3, ScanPath
  <1>4. CASE \E d, e \in Device : Connect(d, e)
    BY <1>1, <1>4, ConnectPath
  <1>5. CASE \E d, e \in Device : Disconnect(d, e)
    BY <1>1, <1>5, DisconnectPath
  <1>6. CASE \E d, e \in Device : onPeerIndex(d, e)
    BY <1>1, <1>6, IndexPath
  <1>7. CASE \E d, e \in Device : handleBlockRequest(d, e)
    BY <1>1, <1>7, RequestPath
  <1>8. CASE \E d, e \in Device : onBlockResponse(d, e)
    BY <1>1, <1>8, ResponsePath
  <1>9. CASE \E d, e \in Device, q \in Path : retryBlock(d, e, q)
    BY <1>1, <1>9, RetryPath
  <1>10. CASE \E d, e \in Device, q \in Path : dropIfUnservable(d, e, q)
    BY <1>1, <1>10, DropPath
  <1>11. CASE \E d \in Device, q \in Path : expireClaim(d, q)
    BY <1>11, CalmSame DEF expireClaim
  <1> QED
    BY <1>2, <1>3, <1>4, <1>5, <1>6, <1>7, <1>8, <1>9, <1>10, <1>11, Zenon DEF Next, Handle

LEMMA AuthorStep ==
    ASSUME OneAuthor, Inv, AuthorInv, [Next]_vars
    PROVE  /\ AuthorInv'
           /\ \A p \in Path : Kept(p)
           /\ Next => \A d \in Device, p \in Path : StaysTrue(d, p)
  <1>1. CASE Next
    <2>1. Inv'
      BY <1>1, NextGood DEF GoodStep
    <2>2. ASSUME NEW p \in Path
          PROVE  PathInv(p)' /\ Kept(p) /\ \A d \in Device : StaysTrue(d, p)
      <3>1. PathInv(p) /\ PathStep(p)
        BY <1>1, AuthorNext DEF AuthorInv
      <3>2. CASE Edits(p)
        BY <2>1, <3>1, <3>2, EditsKeep, EditsPromise, EditsTrue
      <3>3. CASE Untouched(p)
        BY <2>1, <3>1, <3>3, UserKeeps, UserPromise, UserTrue
      <3>4. CASE Calm(p) /\ OneMoves(p)
        BY <2>1, <3>1, <3>4, CalmKeeps, CalmPromise, CalmTrue
      <3> QED  BY <3>1, <3>2, <3>3, <3>4 DEF PathStep
    <2> QED  BY <1>1, <2>2 DEF AuthorInv
  <1>2. CASE UNCHANGED vars
    <2>1. ASSUME NEW p \in Path
          PROVE  PathInv(p)' <=> PathInv(p)
      BY <1>2 DEF vars, PathInv, AuthorFirst, Identified, CopiesHonest, EditFresh, ReceivesNewer,
         UpstreamLeads, Known, Entries, Pended, Announced, Served, StampOf, Stamp, Authored, Honest,
         Changed
    <2>2. ASSUME NEW p \in Path
          PROVE  Kept(p)
      BY <1>2 DEF vars, Kept, Promise!vars, Copies, Afloat, Entries, Pended, Announced, Register0, Register
    <2>3. Next => \A d \in Device, p \in Path : StaysTrue(d, p)
      <3> SUFFICES ASSUME NEW d \in Device, NEW p \in Path PROVE StaysTrue(d, p)
        OBVIOUS
      <3>1. file[d][p].index # NoEntry => Dominates(file[d][p].index.version, file[d][p].index.version)
        BY KnownParts, KnownTyped, SelfDominates
      <3> QED  BY <1>2, <3>1 DEF vars, StaysTrue, Honest
    <2> QED  BY <2>1, <2>2, <2>3 DEF AuthorInv
  <1> QED  BY <1>1, <1>2

AuthorSpecInv == Inv /\ AuthorInv

(* With one author every path of the folder is a replicated register: each *)
(* step of the program is a step of Replication or changes nothing of it,  *)
(* for any tree of devices, any paths, policies and bounds.                *)
THEOREM OneAuthorReplicates == OneAuthor /\ Spec => ImplementsReplication
  <1>1. OneAuthor /\ Init => AuthorSpecInv /\ \A p \in Path : Promise(p)!Init
    BY InitGood, AuthorInit DEF AuthorSpecInv
  <1>2. OneAuthor /\ AuthorSpecInv /\ [Next]_vars
           => AuthorSpecInv' /\ \A p \in Path : Promise(p)!Next \/ UNCHANGED Promise(p)!vars
    BY AuthorStep, NextGood DEF AuthorSpecInv, Kept, GoodStep
  <1>3. OneAuthor => OneAuthor'
    BY DEF OneAuthor
  <1> QED  BY <1>1, <1>2, <1>3, PTL DEF Spec, ImplementsReplication

LEMMA AuthorStays == OneAuthor /\ AuthorSpecInv /\ [Next]_vars => AuthorSpecInv' /\ OneAuthor'
  <1> SUFFICES ASSUME OneAuthor, AuthorSpecInv, [Next]_vars PROVE AuthorSpecInv' /\ OneAuthor'
    OBVIOUS
  <1>1. Inv' /\ AuthorInv'
    BY AuthorStep, NextGood DEF AuthorSpecInv, GoodStep
  <1> QED  BY <1>1 DEF AuthorSpecInv, OneAuthor

(* With one author, two devices whose entries of a path have one version   *)
(* have one content, so comparing versions (compareFileState) is enough.   *)
THEOREM OneAuthorIdentifies == OneAuthor /\ Spec => []VersionIdentifiesContent
  <1>1. OneAuthor /\ Init => AuthorSpecInv
    BY InitGood, AuthorInit DEF AuthorSpecInv
  <1>2. OneAuthor /\ AuthorSpecInv => VersionIdentifiesContent
    <2> SUFFICES ASSUME OneAuthor, Inv, AuthorInv, NEW d \in Device, NEW e \in Device, NEW p \in Path,
                        file[d][p].index # NoEntry, file[e][p].index # NoEntry,
                        file[d][p].index.version = file[e][p].index.version
                 PROVE  file[d][p].index = file[e][p].index
      BY DEF AuthorSpecInv, VersionIdentifiesContent
    <2>1. file[d][p].index \in Known(p) /\ file[e][p].index \in Known(p)
      BY KnownParts
    <2>2. Stamp(file[d][p].index) = Stamp(file[e][p].index)
      BY DEF Stamp
    <2> QED  BY <2>1, <2>2 DEF AuthorInv, PathInv, Identified
  <1> QED  BY <1>1, <1>2, AuthorStays, PTL DEF Spec

(* What StaysTrue says of every device and path is what three of the       *)
(* properties say of a step.                                               *)
LEMMA AuthorTruth ==
    ASSUME OneAuthor, AuthorSpecInv, [Next]_vars
    PROVE  UNCHANGED vars \/ \A d \in Device, p \in Path : StaysTrue(d, p)
  BY AuthorStep DEF AuthorSpecInv

(* With one author, who may delete as well, no step of the program makes   *)
(* an index that told the truth about the disk stop telling it.            *)
THEOREM OneAuthorStaysHonest == OneAuthor /\ Spec => IndexStaysHonest
  <1>1. OneAuthor /\ Init => AuthorSpecInv
    BY InitGood, AuthorInit DEF AuthorSpecInv
  <1>2. OneAuthor /\ AuthorSpecInv /\ [Next]_vars
          => [\A d \in Device, p \in Path :
                UserStep \/ (Honest(file[d][p]) => Honest(file'[d][p]))]_vars
    BY AuthorTruth DEF StaysTrue
  <1> QED  BY <1>1, <1>2, AuthorStays, PTL DEF Spec, IndexStaysHonest

(* With one author, no landing, late index or relay puts an entry of a     *)
(* device back to one that knows less.                                     *)
THEOREM OneAuthorNeverBack == OneAuthor /\ Spec => IndexNeverGoesBack
  <1>1. OneAuthor /\ Init => AuthorSpecInv
    BY InitGood, AuthorInit DEF AuthorSpecInv
  <1>2. OneAuthor /\ AuthorSpecInv /\ [Next]_vars
          => [\A d \in Device, p \in Path :
                file[d][p].index # NoEntry =>
                  /\ file'[d][p].index # NoEntry
                  /\ Dominates(file'[d][p].index.version, file[d][p].index.version)]_vars
    BY AuthorTruth DEF StaysTrue
  <1> QED  BY <1>1, <1>2, AuthorStays, PTL DEF Spec, IndexNeverGoesBack

(* With one author, a tombstone that a device takes over or records leaves *)
(* no file at the path.                                                    *)
THEOREM OneAuthorBuries == OneAuthor /\ Spec => TombstoneLeavesNoFile
  <1>1. OneAuthor /\ Init => AuthorSpecInv
    BY InitGood, AuthorInit DEF AuthorSpecInv
  <1>2. OneAuthor /\ AuthorSpecInv /\ [Next]_vars
          => [\A d \in Device, p \in Path :
                LET applied == /\ ~UserStep /\ file'[d][p].index # file[d][p].index
                               /\ file'[d][p].index # NoEntry /\ file'[d][p].index.deleted
                IN  applied => file'[d][p].disk = NoFile]_vars
    BY AuthorTruth DEF StaysTrue
  <1> QED  BY <1>1, <1>2, AuthorStays, PTL DEF Spec, TombstoneLeavesNoFile

----------------------------------------------------------------------------
(* Where entries come from, and what the ledger knows: the outcome o of an *)
(* index message opens a receive only of the entry announced, sends and    *)
(* relays only that entry or the one of its own index, and leaves no claim *)
(* without its receive.                                                    *)
Accounted(d, e, p, remote, o) ==
    /\ o.pend \in {pend[d][e][p], NoPending} \/ (o.pend.entry = remote /\ remote # NoEntry)
    /\ o.send \in {NoEntry, file[d][p].index, o.file.index}
    /\ o.landed \in {NoEntry, remote}
    /\ o.claim # NoClaim =>
          \/ /\ o.claim.holder = e /\ o.pend # NoPending
             /\ versionKey(o.pend.entry) = o.claim.key
          \/ o.claim.holder # e /\ o.claim = claim[d][p]

LEMMA IdleAccounted ==
    ASSUME Inv, ClaimServed, NEW d \in Device, NEW e \in Device, NEW p \in Path, NEW remote
    PROVE  /\ Accounted(d, e, p, remote, Idle(d, e, p))
           /\ Accounted(d, e, p, remote, Send(d, e, p))
  <1>1. claim[d][p] # NoClaim /\ claim[d][p].holder = e =>
           pend[d][e][p] # NoPending /\ versionKey(pend[d][e][p].entry) = claim[d][p].key
    BY DEF ClaimServed
  <1>2. Accounted(d, e, p, remote, Idle(d, e, p))
    BY <1>1 DEF Accounted, Idle
  <1>3. Accounted(d, e, p, remote, Send(d, e, p))
    BY <1>1 DEF Accounted, Idle, Send
  <1> QED  BY <1>2, <1>3

LEMMA ItemIsNoGap == NoPending \notin Item
  <1>1. Item \subseteq [kind  : {"receive", "conflict"},
                       entry : [version : Version, deleted : BOOLEAN, content : Nat]]
    BY BoundAssumption DEF Item, Entry, Content
  <1> QED  BY <1>1, PendingAssumption

LEMMA OpenAccounted ==
    ASSUME Inv, NEW d \in Device, NEW e \in Device, NEW p \in Path,
           NEW remote \in Entry, NEW kind \in {"receive", "conflict"}
    PROVE  Accounted(d, e, p, remote, Open(d, e, p, kind, remote))
  <1> DEFINE f == file[d][p]
             item == [kind |-> kind, entry |-> remote]
             taken == [holder |-> e, key |-> versionKey(remote)]
             done == [file |-> Land(f, item), pend |-> NoPending, claim |-> NoClaim, live |-> TRUE,
                      request |-> FALSE, send |-> NoEntry, landed |-> remote]
             asked == [file |-> f, pend |-> item, claim |-> taken, live |-> TRUE,
                       request |-> TRUE, send |-> NoEntry, landed |-> remote]
  <1>1. Open(d, e, p, kind, remote) \in {done, asked}
    BY DEF Open, Idle
  <1>2. remote # NoEntry
    BY EntryIsNoGap
  <1>3. Accounted(d, e, p, remote, done)
    BY DEF Accounted
  <1>4. /\ asked.pend = item /\ asked.claim = taken /\ asked.send = NoEntry
        /\ asked.landed = remote /\ taken.holder = e /\ taken.key = versionKey(remote)
        /\ item.entry = remote
    OBVIOUS
  <1>5. item # NoPending
    BY ItemIsNoGap DEF Item
  <1> HIDE DEF done, asked, item, taken
  <1>6. Accounted(d, e, p, remote, asked)
    BY <1>2, <1>4, <1>5 DEF Accounted
  <1> QED  BY <1>1, <1>3, <1>6

LEMMA DeleteAccounted ==
    ASSUME Inv, ClaimServed, NEW d \in Device, NEW e \in Device, NEW p \in Path, NEW remote
    PROVE  Accounted(d, e, p, remote, Delete(d, e, p, remote))
  <1> DEFINE gone == applyDelete(file[d][p], remote)
             freed == Released(claim[d][p], e)
             done == [file |-> gone, pend |-> NoPending, claim |-> freed, live |-> FALSE,
                      request |-> FALSE, send |-> NoEntry, landed |-> remote]
  <1>1. Delete(d, e, p, remote) \in {Idle(d, e, p), Send(d, e, p), done}
    BY DEF Delete, Idle
  <1>2. freed # NoClaim => freed.holder # e /\ freed = claim[d][p]
    BY DEF Released
  <1>3. Accounted(d, e, p, remote, done)
    <2> HIDE DEF freed, gone
    <2> QED  BY <1>2 DEF Accounted
  <1> HIDE DEF done
  <1> QED  BY <1>1, <1>3, IdleAccounted

LEMMA KeepLocalAccounted ==
    ASSUME Inv, NEW d \in Device, NEW e \in Device, NEW p \in Path, NEW remote
    PROVE  /\ Accounted(d, e, p, remote, KeepLocal(d, e, p, remote))
           /\ Accounted(d, e, p, remote, KeepLocalAndSend(d, e, p, remote))
  <1> DEFINE kept == applyConflictKeepLocal(file[d][p], remote)
             quiet == [file |-> kept, pend |-> pend[d][e][p], claim |-> NoClaim, live |-> FALSE,
                       request |-> FALSE, send |-> NoEntry, landed |-> NoEntry]
             loud == [file |-> kept, pend |-> pend[d][e][p], claim |-> NoClaim, live |-> FALSE,
                      request |-> FALSE, send |-> kept.index, landed |-> NoEntry]
  <1>1. KeepLocal(d, e, p, remote) = quiet
    <2>1. KeepLocal(d, e, p, remote) =
             [Idle(d, e, p) EXCEPT !.file = kept, !.claim = NoClaim]
      BY DEF KeepLocal, Idle
    <2> HIDE DEF kept
    <2> QED  BY <2>1 DEF Idle
  <1>2. KeepLocalAndSend(d, e, p, remote) = loud
    <2> DEFINE index == kept.index
    <2>1. quiet.file.index = index /\ KeepLocalAndSend(d, e, p, remote) = [quiet EXCEPT !.send = quiet.file.index]
      BY <1>1 DEF KeepLocalAndSend
    <2> HIDE DEF kept, index
    <2> QED  BY <2>1 DEF index
  <1>3. Accounted(d, e, p, remote, quiet)
    <2> HIDE DEF kept
    <2> QED  BY DEF Accounted
  <1>4. Accounted(d, e, p, remote, loud)
    <2> HIDE DEF kept
    <2> QED  BY DEF Accounted
  <1> HIDE DEF quiet, loud
  <1> QED  BY <1>1, <1>2, <1>3, <1>4

LEMMA ConflictAccounted ==
    ASSUME Inv, NEW d \in Device, NEW e \in Device, NEW p \in Path, NEW remote \in Entry,
           NEW relayed
    PROVE  Accounted(d, e, p, remote, Conflict(d, e, p, remote, relayed))
  <1>1. /\ Accounted(d, e, p, remote, Open(d, e, p, "receive", remote))
        /\ Accounted(d, e, p, remote, Open(d, e, p, "conflict", remote))
        /\ Accounted(d, e, p, remote, KeepLocal(d, e, p, remote))
        /\ Accounted(d, e, p, remote, KeepLocalAndSend(d, e, p, remote))
    BY OpenAccounted, KeepLocalAccounted
  <1>2. PolicyWinner(d, file[d][p].index, remote) \in {"none", "local", "remote"}
    BY PolicyAssumption DEF PolicyWinner
  <1> QED  BY <1>1, <1>2 DEF Conflict

LEMMA OutcomeAccounted ==
    ASSUME Inv, ClaimServed, NEW d \in Device, NEW e \in Device, NEW p \in Path,
           NEW remote \in MaybeEntry, NEW full, NEW relayed,
           NEW action \in {"none", planPath(file[d][p].index, remote)}
    PROVE  Accounted(d, e, p, remote, Outcome(d, e, p, action, remote, full, relayed))
  <1> DEFINE o == Chosen(d, e, p, action, remote, relayed)
  <1>1. action \in {"none", "send", "delete", "receive", "conflict"}
    BY PlanActions
  <1>2. Accounted(d, e, p, remote, o)
    <2>1. CASE action = "none"
      BY <2>1, IdleAccounted DEF Chosen
    <2>2. CASE action = "send"
      BY <2>2, IdleAccounted DEF Chosen
    <2>3. CASE action = "delete"
      BY <2>3, DeleteAccounted DEF Chosen
    <2>4. CASE action = "receive"
      <3>1. remote \in Entry
        BY <2>4, PlanFacts DEF MaybeEntry
      <3>2. Accounted(d, e, p, remote, Open(d, e, p, "receive", remote))
        BY <3>1, OpenAccounted
      <3> QED  BY <2>4, <3>2, IdleAccounted DEF Chosen
    <2>5. CASE action = "conflict"
      <3>1. remote \in Entry
        BY <2>5, PlanFacts DEF MaybeEntry
      <3>2. Accounted(d, e, p, remote, Conflict(d, e, p, remote, relayed))
        BY <3>1, ConflictAccounted
      <3> QED  BY <2>5, <3>2, IdleAccounted DEF Chosen
    <2> QED  BY <1>1, <2>1, <2>2, <2>3, <2>4, <2>5
  <1>3. Outcome(d, e, p, action, remote, full, relayed) = DropStale(o, e, full)
    BY DEF Outcome, Chosen
  <1>4. o \in OutcomeType
    BY ChosenTyped
  <1> HIDE DEF o
  <1>5. Accounted(d, e, p, remote, DropStale(o, e, full))
    <2>1. CASE DropStale(o, e, full) = o
      BY <1>2, <2>1
    <2>2. CASE DropStale(o, e, full) =
                 [o EXCEPT !.pend = NoPending, !.claim = Released(o.claim, e)]
      <3> DEFINE freed == Released(o.claim, e)
                 dropped == [o EXCEPT !.pend = NoPending, !.claim = freed]
      <3>1. freed # NoClaim => freed.holder # e /\ freed = o.claim
        BY DEF Released
      <3>2. freed # NoClaim => freed.holder # e /\ freed = claim[d][p]
        BY <1>2, <3>1 DEF Accounted
      <3> HIDE DEF freed
      <3>3. /\ dropped.pend = NoPending /\ dropped.claim = freed /\ dropped.send = o.send
            /\ dropped.landed = o.landed /\ dropped.file = o.file
        BY <1>4 DEF OutcomeType
      <3>4. Accounted(d, e, p, remote, dropped)
        <4> HIDE DEF dropped
        <4> QED  BY <1>2, <3>2, <3>3 DEF Accounted
      <3> QED  BY <2>2, <3>4 DEF freed
    <2> QED  BY <2>1, <2>2 DEF DropStale
  <1> QED  BY <1>3, <1>5

(* A step that changes no claim, or changes one receive and releases the   *)
(* claim its connection held.                                              *)
LEMMA ClaimsKept ==
    ASSUME Inv, ClaimServed, UNCHANGED <<pend, claim>>
    PROVE  ClaimServed'
  BY DEF ClaimServed

LEMMA ClaimReleased ==
    ASSUME Inv, ClaimServed, NEW d \in Device, NEW e \in Device, NEW q \in Path,
           pend' = [pend EXCEPT ![d][e][q] = NoPending],
           claim' = [claim EXCEPT ![d][q] = Released(claim[d][q], e)]
    PROVE  ClaimServed'
  <1> DEFINE freed == Released(claim[d][q], e)
  <1>1. /\ pend \in [Device -> [Device -> [Path -> Pending]]]
        /\ claim \in [Device -> [Path -> Claim]]
    BY DEF Inv, TypeOK
  <1>2. freed # NoClaim => freed = claim[d][q] /\ freed.holder # e
    BY DEF Released
  <1>3. claim' = [claim EXCEPT ![d][q] = freed]
    OBVIOUS
  <1> HIDE DEF freed
  <1> SUFFICES ASSUME NEW x \in Device, NEW r \in Path, claim'[x][r] # NoClaim
               PROVE  /\ pend'[x][claim'[x][r].holder][r] # NoPending
                      /\ versionKey(pend'[x][claim'[x][r].holder][r].entry) = claim'[x][r].key
    BY Zenon DEF ClaimServed, versionKey, Blocks
  <1>4. claim'[x][r] = claim[x][r] /\ (x = d /\ r = q => claim[x][r].holder # e)
    BY <1>1, <1>2, <1>3
  <1>5. claim[x][r].holder \in Device
    BY <1>1, <1>4 DEF Claim
  <1>6. pend'[x][claim[x][r].holder][r] = pend[x][claim[x][r].holder][r]
    BY <1>1, <1>4, <1>5
  <1>7. LET item == pend[x][claim[x][r].holder][r]
        IN  item # NoPending /\ versionKey(item.entry) = claim[x][r].key
    BY <1>4, Zenon DEF ClaimServed
  <1> QED  BY <1>4, <1>6, <1>7, Zenon

LEMMA ClaimsOfLink ==
    ASSUME Inv, ClaimServed, NEW d \in Device, NEW e \in Device, Disconnect(d, e)
    PROVE  ClaimServed'
  <1> DEFINE none == [p \in Path |-> NoPending]
             ofD == [p \in Path |-> Released(claim[d][p], e)]
             ofE == [p \in Path |-> Released(claim[e][p], d)]
  <1>1. /\ pend \in [Device -> [Device -> [Path -> Pending]]]
        /\ claim \in [Device -> [Path -> Claim]]
    BY DEF Inv, TypeOK
  <1>2. d # e
    BY DEF Disconnect
  <1>3. /\ pend' = [pend EXCEPT ![d][e] = none, ![e][d] = none]
        /\ claim' = [claim EXCEPT ![d] = ofD, ![e] = ofE]
    BY <1>1, <1>2 DEF Disconnect
  <1>4. /\ \A p \in Path : ofD[p] # NoClaim => ofD[p] = claim[d][p] /\ ofD[p].holder # e
        /\ \A p \in Path : ofE[p] # NoClaim => ofE[p] = claim[e][p] /\ ofE[p].holder # d
    BY DEF Released
  <1> HIDE DEF none, ofD, ofE
  <1> SUFFICES ASSUME NEW x \in Device, NEW r \in Path, claim'[x][r] # NoClaim
               PROVE  /\ pend'[x][claim'[x][r].holder][r] # NoPending
                      /\ versionKey(pend'[x][claim'[x][r].holder][r].entry) = claim'[x][r].key
    BY Zenon DEF ClaimServed, versionKey, Blocks
  <1>5. claim'[x][r] = IF x = d THEN ofD[r] ELSE IF x = e THEN ofE[r] ELSE claim[x][r]
    BY <1>1, <1>2, <1>3
  <1>6. /\ claim'[x][r] = claim[x][r]
        /\ x = d => claim[x][r].holder # e
        /\ x = e => claim[x][r].holder # d
    BY <1>2, <1>4, <1>5
  <1>7. claim[x][r].holder \in Device
    BY <1>1, <1>6 DEF Claim
  <1>8. pend'[x][claim[x][r].holder] = pend[x][claim[x][r].holder]
    BY <1>1, <1>2, <1>3, <1>6, <1>7
  <1> QED  BY <1>6, <1>8 DEF ClaimServed

LEMMA ClaimsOfResponse ==
    ASSUME Inv, ClaimServed, NEW d \in Device, NEW e \in Device, onBlockResponse(d, e)
    PROVE  ClaimServed'
  <1> DEFINE m == Head(chan[e][d])
             q == m.path
             item == pend[d][e][q]
             accepted == item # NoPending /\ m.hash = item.entry.content /\ m.data = m.hash
  <1>1. chan[e][d] # <<>> /\ m \in Message /\ m.type = "block-response"
    BY ReceivedFacts, Zenon DEF onBlockResponse, Received
  <1>2. q \in Path
    BY <1>1 DEF Message
  <1>3. /\ pend \in [Device -> [Device -> [Path -> Pending]]]
        /\ claim \in [Device -> [Path -> Claim]]
    BY DEF Inv, TypeOK
  <1>4. /\ accepted => /\ pend' = [pend EXCEPT ![d][e][q] = NoPending]
                       /\ claim' = [claim EXCEPT ![d][q] = Released(claim[d][q], e)]
        /\ ~accepted => pend' = pend /\ claim' = claim
    BY <1>2, <1>3, Zenon DEF onBlockResponse
  <1> HIDE DEF q, accepted
  <1>5. CASE accepted
    BY <1>2, <1>4, <1>5, ClaimReleased
  <1>6. CASE ~accepted
    BY <1>4, <1>6, ClaimsKept
  <1> QED  BY <1>5, <1>6

LEMMA ClaimsOfIndex ==
    ASSUME Inv, ClaimServed, NEW d \in Device, NEW e \in Device, onPeerIndex(d, e)
    PROVE  ClaimServed'
  <1> DEFINE m == Head(chan[e][d])
  <1>1. /\ chan[e][d] # <<>> /\ m \in Message /\ m.type = "index"
        /\ m.entries \in [Path -> MaybeEntry]
    BY IndexEffect, Zenon
  <1>2. PICK outcome, reply, relay :
                     /\ \A q \in Path :
                           /\ GoodOutcome(d, e, q, m.entries[q], outcome[q])
                           /\ \E action \in {"none", planPath(file[d][q].index, m.entries[q])} :
                                 outcome[q] = Outcome(d, e, q, action, m.entries[q], m.full, m.relayed)
                     /\ file' = [file EXCEPT ![d] = [q \in Path |-> outcome[q].file]]
                     /\ pend' = [pend EXCEPT ![d][e] = [q \in Path |-> outcome[q].pend]]
                     /\ claim' = [claim EXCEPT ![d] = [q \in Path |-> outcome[q].claim]]
                     /\ Deliver(d, e, reply, relay)
                     /\ reply \in Seq(Message) /\ relay \in Seq(Message)
                     /\ \A n \in Range(reply) :
                           \/ n.type = "block-request"
                           \/ n = IndexMessage([q \in Path |-> outcome[q].send], FALSE, FALSE)
                     /\ \A n \in Range(relay) :
                           n = IndexMessage([q \in Path |-> outcome[q].landed], FALSE, TRUE)
    BY IndexEffect, Zenon
  <1> HIDE DEF m
  <1>3. ASSUME NEW q \in Path
        PROVE  Accounted(d, e, q, m.entries[q], outcome[q])
    <2>1. PICK action \in {"none", planPath(file[d][q].index, m.entries[q])} :
              outcome[q] = Outcome(d, e, q, action, m.entries[q], m.full, m.relayed)
      BY <1>2
    <2>2. m.entries[q] \in MaybeEntry
      BY <1>1
    <2> QED  BY <2>1, <2>2, OutcomeAccounted
  <1>4. /\ pend \in [Device -> [Device -> [Path -> Pending]]]
        /\ claim \in [Device -> [Path -> Claim]]
    BY DEF Inv, TypeOK
  <1>5. \A x, y \in Device, q \in Path :
           pend'[x][y][q] = IF x = d /\ y = e THEN outcome[q].pend ELSE pend[x][y][q]
    <2> DEFINE pends == [r \in Path |-> outcome[r].pend]
    <2>1. pend' = [pend EXCEPT ![d][e] = pends] /\ \A q \in Path : pends[q] = outcome[q].pend
      BY <1>2
    <2> HIDE DEF pends
    <2> QED  BY <1>4, <2>1
  <1>6. \A x \in Device, q \in Path :
           claim'[x][q] = IF x = d THEN outcome[q].claim ELSE claim[x][q]
    BY <1>2, <1>4
  <1> SUFFICES ASSUME NEW x \in Device, NEW r \in Path, claim'[x][r] # NoClaim
               PROVE  /\ pend'[x][claim'[x][r].holder][r] # NoPending
                      /\ versionKey(pend'[x][claim'[x][r].holder][r].entry) = claim'[x][r].key
    BY DEF ClaimServed, versionKey, Blocks
  <1>7. CASE x = d /\ outcome[r].claim.holder = e
    <2>1. claim'[x][r] = outcome[r].claim /\ pend'[x][e][r] = outcome[r].pend
      BY <1>5, <1>6, <1>7
    <2>2. /\ outcome[r].pend # NoPending
          /\ versionKey(outcome[r].pend.entry) = outcome[r].claim.key
      BY <1>3, <1>7, <2>1 DEF Accounted
    <2> QED  BY <1>7, <2>1, <2>2
  <1>8. CASE ~(x = d /\ outcome[r].claim.holder = e)
    <2>1. claim'[x][r] = claim[x][r] /\ (x = d => claim[x][r].holder # e)
      BY <1>3, <1>6, <1>8 DEF Accounted
    <2>2. claim[x][r].holder \in Device
      BY <1>4, <2>1 DEF Claim
    <2>3. pend'[x][claim[x][r].holder][r] = pend[x][claim[x][r].holder][r]
      BY <1>5, <2>1, <2>2
    <2> QED  BY <2>1, <2>3 DEF ClaimServed
  <1> QED  BY <1>7, <1>8

LEMMA ClaimsNext ==
    ASSUME Inv, ClaimServed, [Next]_vars
    PROVE  ClaimServed'
  <1>1. ASSUME NEW d \in Device, NEW p \in Path, Write(d, p) \/ Unlink(d, p)
        PROVE  ClaimServed'
    BY <1>1, ClaimsKept DEF Write, Unlink
  <1>2. ASSUME NEW d \in Device, scanOnce(d)
        PROVE  ClaimServed'
    BY <1>2, ClaimsKept DEF scanOnce
  <1>3. ASSUME NEW d \in Device, NEW e \in Device, Connect(d, e)
        PROVE  ClaimServed'
    BY <1>3, ClaimsKept DEF Connect
  <1>4. ASSUME NEW d \in Device, NEW e \in Device, Disconnect(d, e)
        PROVE  ClaimServed'
    BY <1>4, ClaimsOfLink
  <1>5. ASSUME NEW d \in Device, NEW e \in Device, Handle(d, e)
        PROVE  ClaimServed'
    <2>1. CASE handleBlockRequest(d, e)
      BY <2>1, ClaimsKept DEF handleBlockRequest
    <2> QED  BY <1>5, <2>1, ClaimsOfIndex, ClaimsOfResponse DEF Handle
  <1>6. ASSUME NEW d \in Device, NEW e \in Device, NEW p \in Path, retryBlock(d, e, p)
        PROVE  ClaimServed'
    BY <1>6, ClaimsKept DEF retryBlock
  <1>7. ASSUME NEW d \in Device, NEW e \in Device, NEW p \in Path, dropIfUnservable(d, e, p)
        PROVE  ClaimServed'
    <2>1. /\ pend' = [pend EXCEPT ![d][e][p] = NoPending]
          /\ claim' = [claim EXCEPT ![d][p] = Released(claim[d][p], e)]
      BY <1>7 DEF dropIfUnservable, Inv, TypeOK
    <2> QED  BY <2>1, ClaimReleased
  <1>8. ASSUME NEW d \in Device, NEW p \in Path, expireClaim(d, p)
        PROVE  ClaimServed'
    <2>1. UNCHANGED pend /\ claim' = [claim EXCEPT ![d][p] = NoClaim]
      BY <1>8 DEF expireClaim
    <2>2. claim \in [Device -> [Path -> Claim]]
      BY DEF Inv, TypeOK
    <2>3. \A x \in Device, q \in Path : claim'[x][q] \in {claim[x][q], NoClaim}
      BY <2>1, <2>2
    <2> QED  BY <2>1, <2>3 DEF ClaimServed
  <1>9. CASE UNCHANGED vars
    BY <1>9, ClaimsKept DEF vars
  <1> QED  BY <1>1, <1>2, <1>3, <1>4, <1>5, <1>6, <1>7, <1>8, <1>9, Zenon DEF Next

(* With any users, links, deletions and policies, the receive ledger holds *)
(* the claim of a path only for a receive under way of that version: a     *)
(* lost connection, a dropped or replaced receive, a landing and a deletion*)
(* all give the claim back (receiveLedger, src/peer.ts).                   *)
THEOREM ClaimsAreServed == Spec => []ClaimServed
  <1> DEFINE CInv == Inv /\ ClaimServed
  <1>1. Init => CInv
    BY InitGood DEF Init, ClaimServed
  <1>2. CInv /\ [Next]_vars => CInv'
    BY ClaimsNext, NextGood DEF GoodStep
  <1>3. CInv => ClaimServed
    OBVIOUS
  <1> HIDE DEF CInv
  <1> QED  BY <1>1, <1>2, <1>3, PTL DEF Spec
----------------------------------------------------------------------------
(* Entries are made by scans and merges only: whatever a step starts to    *)
(* receive was known, and whatever it announces was known or is the entry  *)
(* of the device that announces it.                                        *)
NewsIsKnown(x, m) ==
    m.type = "index" =>
       \A p \in Path : m.entries[p] \in Known(p) \cup {NoEntry, file'[x][p].index}

Sourced ==
    /\ \A d, e \in Device, p \in Path :
          \/ pend'[d][e][p] \in {pend[d][e][p], NoPending}
          \/ pend'[d][e][p].entry \in Known(p)
    /\ \A x, y \in Device : \A m \in Range(chan'[x][y]) :
          m \in Range(chan[x][y]) \/ NewsIsKnown(x, m)

LEMMA SourcedKnown ==
    ASSUME Sourced, NEW p \in Path
    PROVE  Known(p)' \subseteq Known(p) \cup {file'[d][p].index : d \in Device}
  <1> SUFFICES ASSUME NEW b \in Known(p)', \A d \in Device : b # file'[d][p].index
               PROVE  b \in Known(p)
    OBVIOUS
  <1>1. /\ b # NoEntry
        /\ \/ \E d, e \in Device : pend[d][e][p]' # NoPending /\ b = pend[d][e][p].entry'
           \/ \E d, e \in Device : b \in Announced(d, e, p)'
    BY DEF Known, Entries, Pended
  <1>2. CASE \E d, e \in Device : pend[d][e][p]' # NoPending /\ b = pend[d][e][p].entry'
    <2>1. PICK d \in Device, e \in Device : pend'[d][e][p] # NoPending /\ b = pend'[d][e][p].entry
      BY <1>2
    <2>2. \/ pend'[d][e][p] \in {pend[d][e][p], NoPending}
          \/ pend'[d][e][p].entry \in Known(p)
      BY DEF Sourced
    <2> QED  BY <1>1, <2>1, <2>2, KnownParts
  <1>3. CASE \E d, e \in Device : b \in Announced(d, e, p)'
    <2>1. PICK x \in Device, y \in Device : b \in Announced(x, y, p)'
      BY <1>3
    <2>2. PICK m \in Range(chan'[x][y]) : m.type = "index" /\ b = m.entries[p]
      BY <2>1 DEF Announced
    <2>3. CASE m \in Range(chan[x][y])
      <3>1. b \in Announced(x, y, p)
        BY <2>2, <2>3 DEF Announced
      <3> QED  BY <1>1, <3>1, KnownParts
    <2>4. CASE m \notin Range(chan[x][y])
      <3>1. NewsIsKnown(x, m)
        BY <2>4 DEF Sourced
      <3> QED  BY <1>1, <2>2, <3>1 DEF NewsIsKnown
    <2> QED  BY <2>3, <2>4
  <1> QED  BY <1>1, <1>2, <1>3

LEMMA SourcedScan ==
    ASSUME Inv, NEW d \in Device, scanOnce(d)
    PROVE  Sourced
  <1> DEFINE rec == Records(d)
             m == IndexMessage(Sends(d), FALSE, FALSE)
  <1>1. /\ file \in [Device -> [Path -> FileState]]
        /\ chan \in [Device -> [Device -> Seq(Message)]]
    BY DEF Inv, TypeOK
  <1>2. UNCHANGED pend
    BY DEF scanOnce
  <1>3. m.entries = rec
    BY DEF IndexMessage, Sends
  <1>4. \A q \in Path : rec[q] \in {NoEntry, file'[d][q].index}
    <2> DEFINE g == [q \in Path |-> IF rec[q] # NoEntry THEN [file[d][q] EXCEPT !.index = rec[q]]
                                                        ELSE file[d][q]]
    <2>1. file' = [file EXCEPT ![d] = g]
      BY <1>1 DEF scanOnce
    <2> HIDE DEF rec
    <2>2. \A q \in Path : g[q] = IF rec[q] # NoEntry THEN [file[d][q] EXCEPT !.index = rec[q]]
                                                    ELSE file[d][q]
      OBVIOUS
    <2>3. \A q \in Path : file[d][q] \in FileState
      BY <1>1
    <2>4. \A q \in Path : rec[q] # NoEntry => g[q].index = rec[q]
      BY <2>2, <2>3 DEF FileState
    <2> HIDE DEF g
    <2>5. file'[d] = g
      BY <1>1, <2>1
    <2> QED  BY <2>4, <2>5
  <1> HIDE DEF rec
  <1>5. NewsIsKnown(d, m)
    BY <1>3, <1>4 DEF NewsIsKnown
  <1>6. ASSUME NEW x \in Device, NEW y \in Device, NEW n \in Range(chan'[x][y])
        PROVE  n \in Range(chan[x][y]) \/ NewsIsKnown(x, n)
    <2>1. chan' = [chan EXCEPT ![d] = [z \in Device |->
                    IF z \in Listeners(d) THEN Append(chan[d][z], m) ELSE chan[d][z]]]
      BY <1>1 DEF scanOnce
    <2>2. m \in Message \/ chan' = chan
      <3>1. Inv'
        BY ScanGood DEF GoodStep
      <3>2. ASSUME NEW z \in Device, z \in Listeners(d)
            PROVE  m \in Message
        <4>1. chan'[d][z] = Append(chan[d][z], m) /\ chan[d][z] \in Seq(Message)
          BY <1>1, <2>1, <3>2
        <4>2. chan'[d][z] \in Seq(Message)
          BY <3>1 DEF Inv, TypeOK
        <4> HIDE DEF m
        <4>3. Len(chan[d][z]) + 1 \in 1..Len(Append(chan[d][z], m))
          BY <4>1
        <4>4. Append(chan[d][z], m)[Len(chan[d][z]) + 1] = m
          BY <4>1
        <4> QED  BY <4>1, <4>2, <4>3, <4>4
      <3>3. CASE Listeners(d) \cap Device = {}
        BY <1>1, <2>1, <3>3
      <3> QED  BY <3>2, <3>3
    <2> HIDE DEF m
    <2>3. CASE chan' = chan
      BY <1>6, <2>3
    <2>4. CASE m \in Message
      <3>1. \A z \in Device : Range(Append(chan[d][z], m)) \subseteq Range(chan[d][z]) \cup {m}
        BY <1>1, <2>4, RangeOfAppend
      <3>2. chan'[x][y] \in {chan[x][y], Append(chan[x][y], m)} /\ (x # d => chan'[x][y] = chan[x][y])
        BY <1>1, <2>1
      <3>3. CASE chan'[x][y] = chan[x][y]
        BY <1>6, <3>3
      <3>4. CASE chan'[x][y] = Append(chan[x][y], m) /\ x = d
        BY <1>5, <1>6, <3>1, <3>4
      <3> QED  BY <3>2, <3>3, <3>4
    <2> QED  BY <2>2, <2>3, <2>4
  <1> QED  BY <1>2, <1>6 DEF Sourced

LEMMA SourcedLink ==
    ASSUME Inv, NEW d \in Device, NEW e \in Device, Connect(d, e) \/ Disconnect(d, e)
    PROVE  Sourced
  <1>1. UNCHANGED file
    BY DEF Connect, Disconnect
  <1>2. /\ chan \in [Device -> [Device -> Seq(Message)]]
        /\ pend \in [Device -> [Device -> [Path -> Pending]]]
    BY DEF Inv, TypeOK
  <1>3. \A x, y \in Device, p \in Path : pend'[x][y][p] \in {pend[x][y][p], NoPending}
    <2> DEFINE none == [q \in Path |-> NoPending]
    <2>1. pend' = pend \/ pend' = [pend EXCEPT ![d][e] = none, ![e][d] = none]
      BY DEF Connect, Disconnect
    <2>2. \A q \in Path : none[q] = NoPending
      OBVIOUS
    <2> HIDE DEF none
    <2>3. d # e
      BY DEF Connect, Disconnect
    <2>4. ASSUME NEW x \in Device, NEW y \in Device
          PROVE  pend'[x][y] = none \/ pend'[x][y] = pend[x][y]
      <3>1. CASE pend' = pend
        BY <3>1
      <3>2. CASE pend' = [pend EXCEPT ![d][e] = none, ![e][d] = none]
        BY <1>2, <2>3, <3>2
      <3> QED  BY <2>1, <3>1, <3>2
    <2> QED  BY <2>2, <2>4
  <1>4. ASSUME NEW x \in Device, NEW y \in Device, NEW m \in Range(chan'[x][y])
        PROVE  m \in Range(chan[x][y]) \/ NewsIsKnown(x, m)
    <2> DEFINE first(z) == IndexMessage(LocalIndex(z), TRUE, FALSE)
               empty == <<>>
    <2>1. \/ chan' = [chan EXCEPT ![d][e] = <<first(d)>>, ![e][d] = <<first(e)>>]
          \/ chan' = [chan EXCEPT ![d][e] = empty, ![e][d] = empty]
      BY DEF Connect, Disconnect
    <2>2. \A z \in Device : NewsIsKnown(z, first(z))
      BY <1>1 DEF NewsIsKnown, IndexMessage, LocalIndex
    <2>3. Range(empty) = {} /\ \A z : Range(<<first(z)>>) = {first(z)}
      BY RangeOfOne
    <2> HIDE DEF first, empty
    <2>4. d # e
      BY DEF Connect, Disconnect
    <2>5. \/ chan'[x][y] = chan[x][y] \/ chan'[x][y] = empty
          \/ x = d /\ chan'[x][y] = <<first(d)>>
          \/ x = e /\ chan'[x][y] = <<first(e)>>
      <3>1. CASE chan' = [chan EXCEPT ![d][e] = <<first(d)>>, ![e][d] = <<first(e)>>]
        BY <1>2, <2>4, <3>1
      <3>2. CASE chan' = [chan EXCEPT ![d][e] = empty, ![e][d] = empty]
        BY <1>2, <2>4, <3>2
      <3> QED  BY <2>1, <3>1, <3>2
    <2> QED  BY <1>4, <2>2, <2>3, <2>5
  <1> QED  BY <1>3, <1>4 DEF Sourced

(* Requests and answers bring no index. *)
LEMMA TransferNews ==
    ASSUME Inv, NEW d \in Device, NEW e \in Device, NEW q \in Path,
           \/ handleBlockRequest(d, e)
           \/ retryBlock(d, e, q)
           \/ dropIfUnservable(d, e, q)
    PROVE  \A x, y \in Device : \A n \in Range(chan'[x][y]) :
              n \in Range(chan[x][y]) \/ n.type # "index"
  <1>2. /\ chan \in [Device -> [Device -> Seq(Message)]]
        /\ pend \in [Device -> [Device -> [Path -> Pending]]]
    BY DEF Inv, TypeOK
  <1>3. ASSUME NEW x \in Device, NEW y \in Device, NEW n \in Range(chan'[x][y])
        PROVE  n \in Range(chan[x][y]) \/ n.type # "index"
    <2>1. CASE handleBlockRequest(d, e)
      <3> DEFINE m == Head(chan[e][d])
                 data == file[d][m.path].disk
                 answer == BlockResponse(m.path, m.hash, data)
                 reply == IF data = NoFile THEN <<>> ELSE <<answer>>
                 none == <<>>
      <3>1. chan[e][d] # <<>> /\ m \in Message /\ m.type = "block-request"
        BY <2>1, ReceivedFacts, Zenon DEF handleBlockRequest, Received
      <3>2. m.path \in Path /\ m.hash \in Content
        BY <3>1 DEF Message
      <3>3. data \in Content \cup {NoFile}
        <4>1. file[d][m.path] \in FileState
          <5> HIDE DEF m
          <5> QED  BY <3>2 DEF Inv, TypeOK
        <4> HIDE DEF m
        <4> QED  BY <4>1 DEF FileState
      <3>4. data # NoFile => answer \in Message
        <4> HIDE DEF m, data
        <4> QED  BY <3>2, <3>3, MessageTypes
      <3>5. reply \in Seq(Message) /\ \A k \in Range(reply) : k = answer
        <4> HIDE DEF answer, data
        <4>1. reply \in Seq(Message)
          BY <3>4
        <4>2. \A k \in Range(reply) : k = answer
          BY RangeOfOne
        <4> QED  BY <4>1, <4>2
      <3>6. Deliver(d, e, reply, none)
        BY <2>1, Zenon DEF handleBlockRequest
      <3>7. none \in Seq(Message)
        OBVIOUS
      <3>8. Range(none) = {} /\ answer.type = "block-response"
        BY RangeOfOne DEF BlockResponse
      <3> HIDE DEF reply, data, answer, none, m
      <3>9. \/ n \in Range(chan[x][y])
            \/ x = d /\ y = e /\ n \in Range(reply)
            \/ x = d /\ y # e /\ y \in Neighbour(d) /\ n \in Range(none)
        BY <1>3, <3>1, <3>5, <3>6, <3>7, DeliverRange
      <3> QED  BY <3>5, <3>8, <3>9
    <2>2. CASE retryBlock(d, e, q)
      <3> DEFINE m == BlockRequest(q, pend[d][e][q].entry.content)
      <3>1. pend[d][e][q] \in Item
        BY <2>2 DEF retryBlock, Unanswered, Inv, TypeOK, Pending
      <3>2. m \in Message /\ m.type # "index"
        <4>1. pend[d][e][q].entry.content \in Content
          BY <3>1 DEF Item, Entry
        <4> QED  BY <4>1, MessageTypes DEF BlockRequest
      <3>3. chan' = [chan EXCEPT ![d][e] = Append(chan[d][e], m)]
        BY <1>2, <2>2 DEF retryBlock
      <3> HIDE DEF m
      <3>4. chan'[x][y] \in {chan[x][y], Append(chan[x][y], m)}
        BY <1>2, <3>3
      <3>5. Range(Append(chan[x][y], m)) \subseteq Range(chan[x][y]) \cup {m}
        BY <1>2, <3>2, RangeOfAppend
      <3> QED  BY <1>3, <3>2, <3>4, <3>5
    <2>3. CASE dropIfUnservable(d, e, q)
      BY <1>3, <2>3 DEF dropIfUnservable
    <2> QED  BY <2>1, <2>2, <2>3
  <1> QED  BY <1>3

LEMMA SourcedTransfer ==
    ASSUME Inv, NEW d \in Device, NEW e \in Device, NEW q \in Path,
           \/ handleBlockRequest(d, e)
           \/ retryBlock(d, e, q)
           \/ dropIfUnservable(d, e, q)
    PROVE  Sourced
  <1>2. pend \in [Device -> [Device -> [Path -> Pending]]]
    BY DEF Inv, TypeOK
  <1>3. \A x, y \in Device, p \in Path : pend'[x][y][p] \in {pend[x][y][p], NoPending}
    <2>1. pend' = pend \/ pend' = [pend EXCEPT ![d][e][q] = NoPending]
      BY DEF handleBlockRequest, retryBlock, dropIfUnservable
    <2>2. CASE pend' = pend
      BY <2>2
    <2>3. CASE pend' = [pend EXCEPT ![d][e][q] = NoPending]
      BY <1>2, <2>3
    <2> QED  BY <2>1, <2>2, <2>3
  <1> QED  BY <1>3, TransferNews DEF Sourced, NewsIsKnown

(* An answer taken brings nothing. *)
LEMMA ResponseNews ==
    ASSUME Inv, NEW d \in Device, NEW e \in Device, onBlockResponse(d, e)
    PROVE  \A x, y \in Device : \A n \in Range(chan'[x][y]) : n \in Range(chan[x][y])
  <1> DEFINE none == <<>>
  <1>1. Deliver(d, e, none, none)
    BY ZenonT(60) DEF onBlockResponse
  <1>2. Range(none) = {}
    BY RangeOfOne
  <1>3. none \in Seq(Message)
    OBVIOUS
  <1>4. chan[e][d] # <<>> /\ Deliver(d, e, none, none)
    BY <1>1, Zenon DEF onBlockResponse, Received
  <1> HIDE DEF none
  <1> SUFFICES ASSUME NEW x \in Device, NEW y \in Device, NEW n \in Range(chan'[x][y])
               PROVE  n \in Range(chan[x][y])
    OBVIOUS
  <1>5. \/ n \in Range(chan[x][y])
        \/ x = d /\ y = e /\ n \in Range(none)
        \/ x = d /\ y # e /\ y \in Neighbour(d) /\ n \in Range(none)
    BY <1>3, <1>4, DeliverRange
  <1> QED  BY <1>2, <1>5

LEMMA SourcedResponse ==
    ASSUME Inv, NEW d \in Device, NEW e \in Device, onBlockResponse(d, e)
    PROVE  Sourced
  <1> DEFINE m == Head(chan[e][d])
             q == m.path
             item == pend[d][e][q]
             accepted == item # NoPending /\ m.hash = item.entry.content /\ m.data = m.hash
  <1>2. chan[e][d] # <<>> /\ m \in Message /\ m.type = "block-response"
    BY ReceivedFacts, Zenon DEF onBlockResponse, Received
  <1>3. q \in Path
    BY <1>2 DEF Message
  <1>4. /\ file \in [Device -> [Path -> FileState]]
        /\ pend \in [Device -> [Device -> [Path -> Pending]]]
    BY DEF Inv, TypeOK
  <1>5. pend' = [pend EXCEPT ![d][e][q] = NoPending] \/ pend' = pend
    BY <1>3, <1>4, Zenon DEF onBlockResponse
  <1> HIDE DEF m, q, item, accepted
  <1>7. \A x, y \in Device, r \in Path : pend'[x][y][r] \in {pend[x][y][r], NoPending}
    <2>1. CASE pend' = pend
      BY <2>1
    <2>2. CASE pend' = [pend EXCEPT ![d][e][q] = NoPending]
      BY <1>3, <1>4, <2>2
    <2> QED  BY <1>5, <2>1, <2>2
  <1> QED  BY <1>7, ResponseNews DEF Sourced

LEMMA SourcedIndex ==
    ASSUME Inv, ClaimServed, NEW d \in Device, NEW e \in Device, onPeerIndex(d, e)
    PROVE  Sourced
  <1> DEFINE m == Head(chan[e][d])
  <1>1. /\ chan[e][d] # <<>> /\ m \in Message /\ m.type = "index"
        /\ m.entries \in [Path -> MaybeEntry]
    BY IndexEffect, Zenon
  <1>2. PICK outcome, reply, relay :
                     /\ \A q \in Path :
                           /\ GoodOutcome(d, e, q, m.entries[q], outcome[q])
                           /\ \E action \in {"none", planPath(file[d][q].index, m.entries[q])} :
                                 outcome[q] = Outcome(d, e, q, action, m.entries[q], m.full, m.relayed)
                     /\ file' = [file EXCEPT ![d] = [q \in Path |-> outcome[q].file]]
                     /\ pend' = [pend EXCEPT ![d][e] = [q \in Path |-> outcome[q].pend]]
                     /\ claim' = [claim EXCEPT ![d] = [q \in Path |-> outcome[q].claim]]
                     /\ Deliver(d, e, reply, relay)
                     /\ reply \in Seq(Message) /\ relay \in Seq(Message)
                     /\ \A n \in Range(reply) :
                           \/ n.type = "block-request"
                           \/ n = IndexMessage([q \in Path |-> outcome[q].send], FALSE, FALSE)
                     /\ \A n \in Range(relay) :
                           n = IndexMessage([q \in Path |-> outcome[q].landed], FALSE, TRUE)
    BY IndexEffect, Zenon
  <1>3. m \in Range(chan[e][d])
    BY <1>1, FirstMessage, Zenon
  <1> HIDE DEF m
  <1>4. \A q \in Path : m.entries[q] \in Known(q) \cup {NoEntry}
    BY <1>1, <1>3, MessageParts, KnownParts
  <1>5. ASSUME NEW q \in Path
        PROVE  Accounted(d, e, q, m.entries[q], outcome[q])
    <2>1. PICK action \in {"none", planPath(file[d][q].index, m.entries[q])} :
              outcome[q] = Outcome(d, e, q, action, m.entries[q], m.full, m.relayed)
      BY <1>2
    <2>2. m.entries[q] \in MaybeEntry
      BY <1>1
    <2> QED  BY <2>1, <2>2, OutcomeAccounted
  <1>6. /\ file \in [Device -> [Path -> FileState]]
        /\ pend \in [Device -> [Device -> [Path -> Pending]]]
    BY DEF Inv, TypeOK
  <1>7. \A q \in Path : file'[d][q] = outcome[q].file
    BY <1>2, <1>6
  <1>8. ASSUME NEW x \in Device, NEW y \in Device, NEW q \in Path
        PROVE  \/ pend'[x][y][q] \in {pend[x][y][q], NoPending}
               \/ pend'[x][y][q].entry \in Known(q)
    <2>1. pend'[x][y][q] = IF x = d /\ y = e THEN outcome[q].pend ELSE pend[x][y][q]
      <3> DEFINE pends == [r \in Path |-> outcome[r].pend]
      <3>1. pend' = [pend EXCEPT ![d][e] = pends] /\ pends[q] = outcome[q].pend
        BY <1>2
      <3> HIDE DEF pends
      <3> QED  BY <1>6, <3>1
    <2>2. outcome[q].pend \in {pend[d][e][q], NoPending} \/ outcome[q].pend.entry \in Known(q)
      BY <1>4, <1>5 DEF Accounted
    <2> QED  BY <2>1, <2>2
  <1>9. ASSUME NEW x \in Device, NEW y \in Device, NEW n \in Range(chan'[x][y]),
               n \notin Range(chan[x][y])
        PROVE  NewsIsKnown(x, n)
    <2>1. x = d /\ (n \in Range(reply) \/ n \in Range(relay))
      BY <1>1, <1>2, <1>9, DeliverRange DEF m
    <2> SUFFICES ASSUME n.type = "index", NEW q \in Path
                 PROVE  n.entries[q] \in Known(q) \cup {NoEntry, file'[x][q].index}
      BY DEF NewsIsKnown
    <2>2. outcome[q].send \in Known(q) \cup {NoEntry, file'[d][q].index}
      BY <1>5, <1>7, KnownParts DEF Accounted
    <2>3. outcome[q].landed \in Known(q) \cup {NoEntry}
      BY <1>4, <1>5 DEF Accounted
    <2>4. n.entries[q] \in {outcome[q].send, outcome[q].landed}
      BY <1>2, <1>9, <2>1 DEF IndexMessage
    <2> QED  BY <2>1, <2>2, <2>3, <2>4
  <1> QED  BY <1>8, <1>9 DEF Sourced

LEMMA SourcedNext ==
    ASSUME Inv, ClaimServed, [Next]_vars
    PROVE  Sourced
  <1>1. CASE UNCHANGED <<pend, chan>>
    BY <1>1 DEF Sourced
  <1>2. ASSUME NEW d \in Device, NEW p \in Path, Write(d, p) \/ Unlink(d, p)
        PROVE  Sourced
    BY <1>1, <1>2 DEF Write, Unlink
  <1>3. ASSUME NEW d \in Device, scanOnce(d)
        PROVE  Sourced
    BY <1>3, SourcedScan
  <1>4. ASSUME NEW d \in Device, NEW e \in Device, Connect(d, e) \/ Disconnect(d, e)
        PROVE  Sourced
    BY <1>4, SourcedLink
  <1>5. ASSUME NEW d \in Device, NEW e \in Device, NEW p \in Path,
               retryBlock(d, e, p) \/ dropIfUnservable(d, e, p)
        PROVE  Sourced
    BY <1>5, SourcedTransfer
  <1>6. ASSUME NEW d \in Device, NEW e \in Device, Handle(d, e)
        PROVE  Sourced
    <2>1. CASE onPeerIndex(d, e)
      BY <2>1, SourcedIndex
    <2>2. CASE onBlockResponse(d, e)
      BY <2>2, SourcedResponse
    <2>3. CASE handleBlockRequest(d, e)
      <3>1. CASE Path = {}
        <4>1. chan[e][d] # <<>> /\ Head(chan[e][d]) \in Message
              /\ Head(chan[e][d]).type = "block-request"
          BY <2>3, ReceivedFacts DEF handleBlockRequest, Received
        <4> QED  BY <3>1, <4>1 DEF Message
      <3>2. CASE Path # {}
        BY <2>3, <3>2, SourcedTransfer
      <3> QED  BY <3>1, <3>2
    <2> QED  BY <1>6, <2>1, <2>2, <2>3 DEF Handle
  <1>7. ASSUME NEW d \in Device, NEW p \in Path, expireClaim(d, p)
        PROVE  Sourced
    BY <1>1, <1>7 DEF expireClaim
  <1>8. CASE UNCHANGED vars
    BY <1>1, <1>8 DEF vars
  <1> QED  BY <1>2, <1>3, <1>4, <1>5, <1>6, <1>7, <1>8, Zenon DEF Next

----------------------------------------------------------------------------
(* Folders in which nothing is ever deleted, on any number of devices with *)
(* users, under any policy: no entry is a tombstone, and an indexed file   *)
(* is there.                                                               *)
Alive(entry) == entry # NoEntry => ~entry.deleted
Present(f) == f.index # NoEntry => ~f.index.deleted /\ f.disk # NoFile

NoTombstone ==
    \A p \in Path : /\ \A b \in Known(p) : ~b.deleted
                    /\ \A d \in Device : Present(file[d][p])

(* What a step of the program makes of a file. *)
Truthful(f, g) == Present(g) /\ (Honest(f) => Honest(g))

LEMMA LandTruthful ==
    ASSUME NEW f \in FileState, NEW item \in Item, Present(f), ~item.entry.deleted,
           item.kind = "conflict" => f.index # NoEntry
    PROVE  Truthful(f, Land(f, item))
  <1> DEFINE remote == item.entry
  <1>1. /\ remote \in Entry /\ remote.content \in Nat /\ Blocks(remote) = remote.content
        /\ remote.content # NoFile
    BY BoundAssumption, FileAssumption DEF Item, Entry, Content, Blocks
  <1>2. CASE item.kind = "conflict"
    <2> DEFINE merged == mergeVersions(f.index.version, remote.version)
               joined == [remote EXCEPT !.version = merged]
               saved  == f.copies \cup OnDisk(f)
    <2>1. Land(f, item) = [f EXCEPT !.copies = saved, !.disk = Blocks(remote), !.index = joined]
      BY <1>2 DEF Land, applyConflict
    <2>2. joined.deleted = remote.deleted /\ joined.content = remote.content
      BY <1>1 DEF Entry
    <2> HIDE DEF joined, saved, remote
    <2>3. Land(f, item).index = joined /\ Land(f, item).disk = Blocks(remote)
      BY <2>1 DEF FileState
    <2> QED  BY <1>1, <2>2, <2>3 DEF Truthful, Present, Honest, remote
  <1>3. CASE item.kind # "conflict"
    <2>1. Land(f, item).index = remote /\ Land(f, item).disk = Blocks(remote)
      BY <1>3 DEF Land, finalizeReceive, snapshotVersion, preserveLocalAsConflict, FileState
    <2> QED  BY <1>1, <2>1 DEF Truthful, Present, Honest
  <1> QED  BY <1>2, <1>3

LEMMA KeepLocalTruthful ==
    ASSUME NEW f \in FileState, f.index # NoEntry, Present(f), NEW remote \in Entry
    PROVE  Truthful(f, applyConflictKeepLocal(f, remote))
  <1> DEFINE merged == mergeVersions(f.index.version, remote.version)
             kept == [f.index EXCEPT !.version = merged]
  <1>1. f.index \in Entry
    BY DEF FileState, MaybeEntry
  <1>2. kept.deleted = f.index.deleted /\ kept.content = f.index.content /\ kept # NoEntry
    <2>1. kept \in Entry
      <3>1. merged \in Version
        BY <1>1, MergeType DEF Entry
      <3> HIDE DEF merged
      <3> QED  BY <1>1, <3>1 DEF Entry
    <2>2. kept # NoEntry
      BY <2>1, EntryIsNoGap
    <2> QED  BY <1>1, <2>2 DEF Entry
  <1>3. applyConflictKeepLocal(f, remote) = [f EXCEPT !.index = kept]
    BY DEF applyConflictKeepLocal
  <1> HIDE DEF kept
  <1>4. /\ applyConflictKeepLocal(f, remote).index = kept
        /\ applyConflictKeepLocal(f, remote).disk = f.disk
    BY <1>3 DEF FileState
  <1> QED  BY <1>2, <1>4 DEF Truthful, Present, Honest

LEMMA OpenTruthful ==
    ASSUME Inv, NoTombstone, NEW d \in Device, NEW e \in Device, NEW p \in Path,
           NEW remote \in Entry, ~remote.deleted, NEW kind \in {"receive", "conflict"},
           kind = "conflict" => file[d][p].index # NoEntry
    PROVE  Truthful(file[d][p], Open(d, e, p, kind, remote).file)
  <1> DEFINE f == file[d][p]
             item == [kind |-> kind, entry |-> remote]
             landed == Land(f, item)
  <1>1. f \in FileState /\ item \in Item /\ Present(f)
    BY DEF Inv, TypeOK, Item, NoTombstone
  <1>2. Truthful(f, landed) /\ Truthful(f, f)
    BY <1>1, LandTruthful DEF Truthful
  <1>3. Open(d, e, p, kind, remote).file \in {landed, f}
    <2> HIDE DEF landed
    <2>1. Open(d, e, p, kind, remote) =
             IF Ready(d, p, remote)
             THEN [Idle(d, e, p) EXCEPT !.file = landed, !.pend = NoPending, !.claim = NoClaim,
                                        !.live = TRUE, !.landed = remote]
             ELSE [Idle(d, e, p) EXCEPT !.pend = item,
                                        !.claim = [holder |-> e, key |-> versionKey(remote)],
                                        !.live = TRUE, !.request = TRUE, !.landed = remote]
      BY DEF Open, Idle, landed
    <2> QED  BY <2>1 DEF Idle
  <1> QED  BY <1>2, <1>3

LEMMA QuietTruthful ==
    ASSUME Inv, NoTombstone, NEW d \in Device, NEW e \in Device, NEW p \in Path
    PROVE  /\ Truthful(file[d][p], Idle(d, e, p).file)
           /\ Truthful(file[d][p], Send(d, e, p).file)
           /\ \A remote \in Entry : file[d][p].index # NoEntry =>
                 /\ Truthful(file[d][p], KeepLocal(d, e, p, remote).file)
                 /\ Truthful(file[d][p], KeepLocalAndSend(d, e, p, remote).file)
  <1>1. file[d][p] \in FileState /\ Present(file[d][p])
    BY DEF Inv, TypeOK, NoTombstone
  <1>2. Truthful(file[d][p], file[d][p])
    BY <1>1 DEF Truthful
  <1>3. ASSUME NEW remote \in Entry, file[d][p].index # NoEntry
        PROVE  /\ Truthful(file[d][p], KeepLocal(d, e, p, remote).file)
               /\ Truthful(file[d][p], KeepLocalAndSend(d, e, p, remote).file)
    <2> DEFINE kept == applyConflictKeepLocal(file[d][p], remote)
    <2>1. KeepLocal(d, e, p, remote) = [Idle(d, e, p) EXCEPT !.file = kept, !.claim = NoClaim]
      BY DEF KeepLocal, Idle
    <2>2. Truthful(file[d][p], kept)
      BY <1>1, <1>3, KeepLocalTruthful
    <2> HIDE DEF kept
    <2>3. KeepLocal(d, e, p, remote).file = kept
      BY <2>1 DEF Idle
    <2>4. KeepLocalAndSend(d, e, p, remote).file = kept
      BY <2>1 DEF KeepLocalAndSend, Idle
    <2> QED  BY <2>2, <2>3, <2>4
  <1> QED  BY <1>2, <1>3 DEF Idle, Send

LEMMA OutcomeTruthful ==
    ASSUME Inv, NoTombstone, NEW d \in Device, NEW e \in Device, NEW p \in Path,
           NEW remote \in MaybeEntry, Alive(remote), NEW full, NEW relayed,
           NEW action \in {"none", planPath(file[d][p].index, remote)}
    PROVE  Truthful(file[d][p], Outcome(d, e, p, action, remote, full, relayed).file)
  <1> DEFINE o == Chosen(d, e, p, action, remote, relayed)
  <1>1. Truthful(file[d][p], o.file)
    <2>1. CASE action = "none"
      BY <2>1, QuietTruthful DEF Chosen
    <2>2. CASE action = "send"
      BY <2>2, QuietTruthful DEF Chosen
    <2>3. action # "delete"
      <3>1. file[d][p].index # NoEntry => ~file[d][p].index.deleted
        BY DEF NoTombstone, Present
      <3>2. compareFileState(file[d][p].index, remote) = "local-newer"
               => file[d][p].index # NoEntry
        BY DEF compareFileState
      <3>3. compareFileState(file[d][p].index, remote) = "remote-newer" => remote # NoEntry
        BY DEF compareFileState
      <3>4. compareFileState(file[d][p].index, remote)
               \in {"equal", "local-newer", "remote-newer", "conflict"}
        BY DEF compareFileState, compareVersions
      <3>5. planPath(file[d][p].index, remote) # "delete"
        BY <3>1, <3>2, <3>3, <3>4 DEF planPath, Alive
      <3> QED  BY <3>5
    <2>4. CASE action = "receive"
      <3>1. remote \in Entry /\ ~remote.deleted
        BY <2>4, PlanFacts DEF MaybeEntry, Alive
      <3>2. Truthful(file[d][p], Open(d, e, p, "receive", remote).file)
        BY <3>1, OpenTruthful
      <3> QED  BY <2>4, <3>2, QuietTruthful DEF Chosen
    <2>5. CASE action = "conflict"
      <3>1. remote \in Entry /\ ~remote.deleted /\ file[d][p].index # NoEntry
        BY <2>5, PlanFacts DEF MaybeEntry, Alive
      <3>2. /\ Truthful(file[d][p], Open(d, e, p, "receive", remote).file)
            /\ Truthful(file[d][p], Open(d, e, p, "conflict", remote).file)
            /\ Truthful(file[d][p], KeepLocal(d, e, p, remote).file)
            /\ Truthful(file[d][p], KeepLocalAndSend(d, e, p, remote).file)
        BY <3>1, OpenTruthful, QuietTruthful
      <3>3. PolicyWinner(d, file[d][p].index, remote) \in {"none", "local", "remote"}
        BY PolicyAssumption DEF PolicyWinner
      <3>4. Truthful(file[d][p], Conflict(d, e, p, remote, relayed).file)
        BY <3>2, <3>3 DEF Conflict
      <3> QED  BY <2>5, <3>4, QuietTruthful DEF Chosen
    <2> QED  BY <2>1, <2>2, <2>3, <2>4, <2>5, PlanActions
  <1>2. Outcome(d, e, p, action, remote, full, relayed) = DropStale(o, e, full)
    BY DEF Outcome, Chosen
  <1>3. o \in OutcomeType
    BY ChosenTyped
  <1> HIDE DEF o
  <1>4. DropStale(o, e, full).file = o.file
    BY <1>3 DEF DropStale, OutcomeType
  <1> QED  BY <1>1, <1>2, <1>4

(* A step that keeps files true adds no tombstone to what is carried,      *)
(* because entries are made nowhere else.                                  *)
TruthKept ==
    /\ NoTombstone'
    /\ \A d \in Device, p \in Path :
          UserStep \/ (Honest(file[d][p]) => Honest(file'[d][p]))

LEMMA TruthSourced ==
    ASSUME NoTombstone, Sourced, \A d \in Device, p \in Path : Present(file'[d][p])
    PROVE  NoTombstone'
  <1>1. ASSUME NEW p \in Path, NEW b \in Known(p)'
        PROVE  ~b.deleted
    <2>1. b # NoEntry
      BY DEF Known
    <2>2. b \in Known(p) \cup {file'[d][p].index : d \in Device}
      BY SourcedKnown
    <2> QED  BY <2>1, <2>2 DEF NoTombstone, Present
  <1>2. \A d \in Device, p \in Path : Present(file[d][p])'
    BY DEF Present
  <1> QED  BY <1>1, <1>2 DEF NoTombstone

LEMMA TruthParts ==
    ASSUME NoTombstone, Sourced,
           \A d \in Device, p \in Path :
              \/ file'[d][p] = file[d][p]
              \/ Truthful(file[d][p], file'[d][p])
    PROVE  TruthKept
  <1>1. \A d \in Device, p \in Path : Present(file'[d][p]) /\ (Honest(file[d][p]) => Honest(file'[d][p]))
    BY DEF NoTombstone, Truthful
  <1> QED  BY <1>1, TruthSourced DEF TruthKept

LEMMA WriteTruth ==
    ASSUME Inv, Sourced, NoTombstone, NEW d \in Device, NEW q \in Path, Write(d, q)
    PROVE  TruthKept
  <1>1. file \in [Device -> [Path -> FileState]] /\ clock \in Nat
    BY ClockIsNat DEF Inv, TypeOK
  <1>2. clock + 1 # NoFile
    BY <1>1, FileAssumption
  <1>3. UserStep
    BY <1>1 DEF Write, UserStep
  <1> DEFINE x == clock + 1
  <1>4. file' = [file EXCEPT ![d][q].disk = x] /\ x # NoFile
    BY <1>2 DEF Write
  <1> HIDE DEF x
  <1>5. ASSUME NEW y \in Device, NEW r \in Path
        PROVE  Present(file'[y][r])
    <2>1. Present(file[y][r]) /\ file[y][r] \in FileState
      BY <1>1 DEF NoTombstone
    <2>2. CASE y = d /\ r = q
      <3>1. file'[y][r] = [file[y][r] EXCEPT !.disk = x]
        BY <1>1, <1>4, <2>2
      <3>2. file'[y][r].index = file[y][r].index /\ file'[y][r].disk = x
        BY <2>1, <3>1 DEF FileState
      <3> QED  BY <1>4, <2>1, <3>2 DEF Present
    <2>3. CASE ~(y = d /\ r = q)
      <3>1. file'[y][r] = file[y][r]
        BY <1>1, <1>4, <2>3
      <3> QED  BY <2>1, <3>1
    <2> QED  BY <2>2, <2>3
  <1> QED  BY <1>3, <1>5, TruthSourced DEF TruthKept

LEMMA ScanTruth ==
    ASSUME Inv, Sourced, NoTombstone, NEW d \in Device, scanOnce(d)
    PROVE  TruthKept
  <1> DEFINE rec == Records(d)
  <1>1. file \in [Device -> [Path -> FileState]]
    BY DEF Inv, TypeOK
  <1>3. ASSUME NEW q \in Path
        PROVE  /\ ~Gone(file[d][q])
               /\ rec[q] # NoEntry => /\ Changed(file[d][q]) /\ ~rec[q].deleted
                                      /\ rec[q].content = file[d][q].disk
    <2>1. ~Gone(file[d][q])
      BY DEF NoTombstone, Present, Gone
    <2>2. rec[q] = IF Changed(file[d][q]) THEN Scanned(d, file[d][q]) ELSE NoEntry
      BY <2>1 DEF Records
    <2>3. ASSUME Changed(file[d][q])
          PROVE  ~Scanned(d, file[d][q]).deleted /\ Scanned(d, file[d][q]).content = file[d][q].disk
      BY <2>1, <2>3 DEF Scanned
    <2> HIDE DEF rec
    <2> QED  BY <2>1, <2>2, <2>3
  <1>4. /\ \A x \in Device \ {d}, q \in Path : file'[x][q] = file[x][q]
        /\ \A q \in Path : file'[d][q] = IF rec[q] # NoEntry THEN [file[d][q] EXCEPT !.index = rec[q]]
                                                             ELSE file[d][q]
    <2> DEFINE g == [q \in Path |-> IF rec[q] # NoEntry THEN [file[d][q] EXCEPT !.index = rec[q]]
                                                        ELSE file[d][q]]
    <2>1. file' = [file EXCEPT ![d] = g]
      BY <1>1 DEF scanOnce
    <2>2. \A q \in Path : g[q] = IF rec[q] # NoEntry THEN [file[d][q] EXCEPT !.index = rec[q]]
                                                    ELSE file[d][q]
      OBVIOUS
    <2> HIDE DEF g, rec
    <2> QED  BY <1>1, <2>1, <2>2
  <1> HIDE DEF rec
  <1>5. ASSUME NEW x \in Device, NEW q \in Path
        PROVE  file'[x][q] = file[x][q] \/ Truthful(file[x][q], file'[x][q])
    <2>1. CASE x # d \/ rec[q] = NoEntry
      BY <1>4, <2>1
    <2>2. CASE x = d /\ rec[q] # NoEntry
      <3>1. file[x][q] \in FileState
        BY <1>1
      <3>2. file'[x][q].index = rec[q] /\ file'[x][q].disk = file[x][q].disk
        BY <1>4, <2>2, <3>1 DEF FileState
      <3> QED  BY <1>3, <2>2, <3>2 DEF Truthful, Present, Honest, Changed
    <2> QED  BY <2>1, <2>2
  <1> QED  BY <1>5, TruthParts

LEMMA ResponseTruth ==
    ASSUME Inv, Sourced, NoTombstone, NEW d \in Device, NEW e \in Device, onBlockResponse(d, e)
    PROVE  TruthKept
  <1> DEFINE m == Head(chan[e][d])
             q == m.path
             item == pend[d][e][q]
             accepted == item # NoPending /\ m.hash = item.entry.content /\ m.data = m.hash
  <1>2. chan[e][d] # <<>> /\ m \in Message /\ m.type = "block-response"
    BY ReceivedFacts, Zenon DEF onBlockResponse, Received
  <1>3. q \in Path
    BY <1>2 DEF Message
  <1>4. /\ file \in [Device -> [Path -> FileState]]
        /\ pend \in [Device -> [Device -> [Path -> Pending]]]
    BY DEF Inv, TypeOK
  <1>5. /\ accepted => /\ file' = [file EXCEPT ![d][q] = Land(file[d][q], item)]
                       /\ pend' = [pend EXCEPT ![d][e][q] = NoPending]
        /\ ~accepted => file' = file /\ pend' = pend
    BY <1>3, <1>4, Zenon DEF onBlockResponse
  <1> HIDE DEF m, q
  <1>7. CASE ~accepted
    BY <1>5, <1>7, TruthParts
  <1>8. CASE accepted
    <2> DEFINE landed == Land(file[d][q], item)
    <2>1. /\ item \in Item /\ (item.kind = "conflict" => file[d][q].index # NoEntry)
          /\ ~item.entry.deleted
      <3>1. item \in Item
        BY <1>3, <1>4, <1>8 DEF Pending
      <3>2. item.entry # NoEntry
        BY <3>1, EntryIsNoGap DEF Item
      <3>3. item.entry \in Known(q)
        BY <1>3, <1>8, <3>2, KnownParts
      <3> QED  BY <1>3, <1>8, <3>1, <3>2, <3>3 DEF Inv, ConflictsIndexed, NoTombstone
    <2>2. Truthful(file[d][q], landed)
      <3>1. file[d][q] \in FileState /\ Present(file[d][q])
        BY <1>3, <1>4 DEF NoTombstone
      <3> QED  BY <2>1, <3>1, LandTruthful
    <2>3. file' = [file EXCEPT ![d][q] = landed] /\ pend' = [pend EXCEPT ![d][e][q] = NoPending]
      BY <1>5, <1>8
    <2> HIDE DEF landed, item, accepted
    <2>4. \A x \in Device, r \in Path :
             file'[x][r] = file[x][r] \/ Truthful(file[x][r], file'[x][r])
      BY <1>3, <1>4, <2>2, <2>3
    <2> QED  BY <2>4, TruthParts
  <1> QED  BY <1>7, <1>8

LEMMA IndexTruth ==
    ASSUME Inv, Sourced, NoTombstone, NEW d \in Device, NEW e \in Device, onPeerIndex(d, e)
    PROVE  TruthKept
  <1> DEFINE m == Head(chan[e][d])
  <1>1. /\ chan[e][d] # <<>> /\ m \in Message /\ m.type = "index"
        /\ m.entries \in [Path -> MaybeEntry]
    BY IndexEffect, Zenon
  <1>2. PICK outcome, reply, relay :
                     /\ \A q \in Path :
                           /\ GoodOutcome(d, e, q, m.entries[q], outcome[q])
                           /\ \E action \in {"none", planPath(file[d][q].index, m.entries[q])} :
                                 outcome[q] = Outcome(d, e, q, action, m.entries[q], m.full, m.relayed)
                     /\ file' = [file EXCEPT ![d] = [q \in Path |-> outcome[q].file]]
                     /\ pend' = [pend EXCEPT ![d][e] = [q \in Path |-> outcome[q].pend]]
                     /\ claim' = [claim EXCEPT ![d] = [q \in Path |-> outcome[q].claim]]
                     /\ Deliver(d, e, reply, relay)
                     /\ reply \in Seq(Message) /\ relay \in Seq(Message)
                     /\ \A n \in Range(reply) :
                           \/ n.type = "block-request"
                           \/ n = IndexMessage([q \in Path |-> outcome[q].send], FALSE, FALSE)
                     /\ \A n \in Range(relay) :
                           n = IndexMessage([q \in Path |-> outcome[q].landed], FALSE, TRUE)
    BY IndexEffect, Zenon
  <1>3. m \in Range(chan[e][d])
    BY <1>1, FirstMessage, Zenon
  <1> HIDE DEF m
  <1>4. \A q \in Path : Alive(m.entries[q])
    BY <1>1, <1>3, MessageParts, KnownParts DEF NoTombstone, Alive
  <1>5. ASSUME NEW q \in Path
        PROVE  Truthful(file[d][q], outcome[q].file)
    <2>1. PICK action \in {"none", planPath(file[d][q].index, m.entries[q])} :
              outcome[q] = Outcome(d, e, q, action, m.entries[q], m.full, m.relayed)
      BY <1>2
    <2>2. m.entries[q] \in MaybeEntry
      BY <1>1
    <2> QED  BY <1>4, <2>1, <2>2, OutcomeTruthful
  <1>6. file \in [Device -> [Path -> FileState]]
    BY DEF Inv, TypeOK
  <1>7. ASSUME NEW x \in Device, NEW q \in Path
        PROVE  file'[x][q] = file[x][q] \/ Truthful(file[x][q], file'[x][q])
    <2>1. file'[x][q] = IF x = d THEN outcome[q].file ELSE file[x][q]
      BY <1>2, <1>6
    <2> QED  BY <1>5, <2>1
  <1> QED  BY <1>7, TruthParts

LEMMA TruthNext ==
    ASSUME Deleter = {}, Inv, ClaimServed, NoTombstone, [Next]_vars
    PROVE  TruthKept
  <1>0. Sourced
    BY SourcedNext
  <1>1. ASSUME NEW d \in Device, NEW p \in Path, Write(d, p) \/ Unlink(d, p)
        PROVE  TruthKept
    BY <1>0, <1>1, WriteTruth DEF Unlink
  <1>2. ASSUME NEW d \in Device, scanOnce(d)
        PROVE  TruthKept
    BY <1>0, <1>2, ScanTruth
  <1>3. CASE UNCHANGED file
    BY <1>0, <1>3, TruthParts
  <1>4. ASSUME NEW d \in Device, NEW e \in Device,
               Connect(d, e) \/ Disconnect(d, e) \/ Handle(d, e)
        PROVE  TruthKept
    <2>1. CASE Connect(d, e) \/ Disconnect(d, e) \/ handleBlockRequest(d, e)
      BY <1>3, <2>1 DEF Connect, Disconnect, handleBlockRequest
    <2> QED  BY <1>0, <1>4, <2>1, IndexTruth, ResponseTruth DEF Handle
  <1>5. ASSUME NEW d \in Device, NEW e \in Device, NEW p \in Path,
               retryBlock(d, e, p) \/ dropIfUnservable(d, e, p)
        PROVE  TruthKept
    BY <1>3, <1>5 DEF retryBlock, dropIfUnservable
  <1>6. ASSUME NEW d \in Device, NEW p \in Path, expireClaim(d, p)
        PROVE  TruthKept
    BY <1>3, <1>6 DEF expireClaim
  <1>7. CASE UNCHANGED vars
    BY <1>3, <1>7 DEF vars
  <1> QED  BY <1>1, <1>2, <1>4, <1>5, <1>6, <1>7, Zenon DEF Next

(* Where nothing is deleted, with any users, links and policies, no step   *)
(* of the program makes an index that told the truth stop telling it.      *)
THEOREM UndeletedStaysHonest == Deleter = {} /\ Spec => IndexStaysHonest
  <1> DEFINE TInv == Inv /\ ClaimServed /\ NoTombstone
             None == Deleter = {}
  <1>1. None /\ Init => TInv
    <2> SUFFICES ASSUME Init PROVE NoTombstone
      BY InitGood DEF Init, ClaimServed
    <2>1. \A d, e \in Device, p \in Path : Announced(d, e, p) = {}
      BY RangeOfOne DEF Init, Announced
    <2>2. \A d \in Device, p \in Path : file[d][p].index = NoEntry
      BY DEF Init
    <2>3. \A d, e \in Device, p \in Path : Pended(d, e, p) = NoEntry
      BY DEF Init, Pended
    <2> QED  BY <2>1, <2>2, <2>3 DEF NoTombstone, Present, Known, Entries
  <1>2. None /\ TInv /\ [Next]_vars => TInv' /\ None' /\
          [\A d \in Device, p \in Path :
                UserStep \/ (Honest(file[d][p]) => Honest(file'[d][p]))]_vars
    BY TruthNext, ClaimsNext, NextGood DEF TruthKept, GoodStep
  <1> HIDE DEF TInv, None
  <1>3. None /\ Spec => IndexStaysHonest
    BY <1>1, <1>2, PTL DEF Spec, IndexStaysHonest
  <1> QED  BY <1>3 DEF None

----------------------------------------------------------------------------
(* One change in all: one user writes one file of a new folder, once. *)
OneEdit == Existing = {} /\ Deleter = {} /\ MaxContent <= 2

(* All there is of the path is one file with one entry. *)
OneFile(p) ==
    /\ \A b, c \in Known(p) : b = c
    /\ \A b \in Known(p) : ~b.deleted /\ b.content = 2
    /\ \A d \in Device :
          /\ file[d][p].disk \in {NoFile, 2}
          /\ file[d][p].index # NoEntry => file[d][p].disk = 2
          /\ file[d][p].disk = 2 /\ file[d][p].index = NoEntry =>
                /\ Known(p) = {}
                /\ \A e \in Device \ {d} : file[e][p].disk = NoFile

(* Device d may receive the path over its connection to e: it does not have *)
(* the file and the connection holds the claim, unless a claim expired.     *)
Flies(d, e, p) ==
    <<d, p>> \in expired
       \/ (file[d][p].disk = NoFile /\ claim[d][p] # NoClaim /\ claim[d][p].holder = e)

FlightClaimed(p) ==
    \A d, e \in Device :
       pend[d][e][p] # NoPending => pend[d][e][p].kind = "receive" /\ Flies(d, e, p)

FlightInv ==
    /\ \A p \in Path : OneFile(p) /\ FlightClaimed(p)
    /\ clock = 1 => \A d \in Device, p \in Path : Known(p) = {} /\ file[d][p].disk = NoFile

LEMMA OneFileKept ==
    ASSUME Inv, NEW p \in Path, OneFile(p), Known(p)' \subseteq Known(p),
           \A d \in Device :
              \/ file'[d][p] = file[d][p]
              \/ file'[d][p].index \in Known(p) /\ file'[d][p].disk = 2
    PROVE  OneFile(p)'
  <1>1. \A b, c \in Known(p)' : b = c
    BY DEF OneFile
  <1>2. \A b \in Known(p)' : ~b.deleted /\ b.content = 2
    BY DEF OneFile
  <1>3. ASSUME NEW d \in Device
        PROVE  /\ file'[d][p].disk \in {NoFile, 2}
               /\ file'[d][p].index # NoEntry => file'[d][p].disk = 2
               /\ file'[d][p].disk = 2 /\ file'[d][p].index = NoEntry =>
                     /\ Known(p)' = {}
                     /\ \A e \in Device \ {d} : file'[e][p].disk = NoFile
    <2>1. CASE file'[d][p] = file[d][p] /\ file'[d][p].disk = 2 /\ file'[d][p].index = NoEntry
      <3>1. Known(p) = {} /\ \A e \in Device \ {d} : file[e][p].disk = NoFile
        BY <2>1 DEF OneFile
      <3>2. \A e \in Device : file'[e][p] = file[e][p]
        BY <3>1
      <3> QED  BY <2>1, <3>1, <3>2
    <2>2. CASE file'[d][p] = file[d][p] /\ ~(file'[d][p].disk = 2 /\ file'[d][p].index = NoEntry)
      BY <2>2 DEF OneFile
    <2>3. CASE file'[d][p].index \in Known(p) /\ file'[d][p].disk = 2
      BY <2>3 DEF Known
    <2> QED  BY <2>1, <2>2, <2>3
  <1> QED  BY <1>1, <1>2, <1>3 DEF OneFile

(* A step that indexes nothing new and puts no new file on a disk but for  *)
(* known entries.                                                          *)
LEMMA NothingNew ==
    ASSUME Inv, Sourced, NEW p \in Path,
           \A d \in Device :
              \/ file'[d][p] = file[d][p]
              \/ file'[d][p].index \in Known(p) /\ file'[d][p].disk = 2
    PROVE  Known(p)' \subseteq Known(p)
  <1>1. \A d \in Device : file'[d][p].index \in Known(p) \cup {NoEntry}
    BY KnownParts
  <1>2. NoEntry \notin Known(p)'
    BY DEF Known
  <1> QED  BY <1>1, <1>2, SourcedKnown

LEMMA FlightFiles ==
    ASSUME Inv, Sourced, FlightInv, clock' = clock,
           \A d \in Device, p \in Path :
              \/ file'[d][p] = file[d][p]
              \/ file'[d][p].index \in Known(p) /\ file'[d][p].disk = 2,
           \A p \in Path : FlightClaimed(p)'
    PROVE  FlightInv'
  <1>1. \A p \in Path : Known(p)' \subseteq Known(p)
    BY NothingNew
  <1>2. \A p \in Path : OneFile(p)'
    BY <1>1, OneFileKept DEF FlightInv
  <1>3. ASSUME clock' = 1, NEW d \in Device, NEW p \in Path
        PROVE  Known(p)' = {} /\ file'[d][p].disk = NoFile
    <2>1. Known(p) = {} /\ file[d][p].disk = NoFile
      BY <1>3 DEF FlightInv
    <2> QED  BY <1>1, <2>1
  <1> QED  BY <1>2, <1>3 DEF FlightInv

LEMMA FlightSame ==
    ASSUME Inv, Sourced, FlightInv, UNCHANGED <<file, pend, claim, clock, expired>>
    PROVE  FlightInv'
  <1>1. \A p \in Path : FlightClaimed(p)'
    BY DEF FlightInv, FlightClaimed, Flies
  <1> QED  BY <1>1, FlightFiles

LEMMA FlightWrite ==
    ASSUME OneEdit, Inv, FlightInv, NEW d \in Device, NEW q \in Path, Write(d, q)
    PROVE  FlightInv'
  <1>1. clock = 1
    <2>1. clock \in 1..MaxContent /\ clock < MaxContent /\ MaxContent \in Nat
      BY BoundAssumption DEF Write, Inv, TypeOK
    <2> QED  BY <2>1 DEF OneEdit
  <1>2. /\ clock' = 2 /\ UNCHANGED <<pend, chan, claim>>
        /\ file' = [file EXCEPT ![d][q].disk = 2]
    BY <1>1 DEF Write
  <1>3. \A x \in Device, p \in Path : Known(p) = {} /\ file[x][p].disk = NoFile
    BY <1>1 DEF FlightInv
  <1>4. file \in [Device -> [Path -> FileState]]
    BY DEF Inv, TypeOK
  <1>5. \A x \in Device, p \in Path :
           /\ file[x][p].index = NoEntry
           /\ file'[x][p].index = NoEntry
           /\ file'[x][p].disk = IF x = d /\ p = q THEN 2 ELSE NoFile
    <2>1. \A x \in Device, p \in Path : file[x][p].index = NoEntry /\ file[x][p] \in FileState
      BY <1>3, <1>4, KnownParts
    <2>2. \A x \in Device, p \in Path :
             file'[x][p] = IF x = d /\ p = q THEN [file[x][p] EXCEPT !.disk = 2] ELSE file[x][p]
      BY <1>2, <1>4
    <2>3. [file[d][q] EXCEPT !.disk = 2].disk = 2 /\ [file[d][q] EXCEPT !.disk = 2].index = NoEntry
      BY <2>1 DEF FileState
    <2> SUFFICES ASSUME NEW x \in Device, NEW p \in Path
                 PROVE  /\ file[x][p].index = NoEntry /\ file'[x][p].index = NoEntry
                        /\ file'[x][p].disk = IF x = d /\ p = q THEN 2 ELSE NoFile
      OBVIOUS
    <2>4. CASE x = d /\ p = q
      BY <2>1, <2>2, <2>3, <2>4
    <2>5. CASE ~(x = d /\ p = q)
      <3>1. file'[x][p] = file[x][p]
        BY <2>2, <2>5
      <3> QED  BY <1>3, <2>1, <2>5, <3>1
    <2> QED  BY <2>4, <2>5
  <1>6. \A p \in Path, x, y \in Device : pend[x][y][p] = NoPending
    <2>1. ASSUME NEW p \in Path, NEW x \in Device, NEW y \in Device, pend[x][y][p] # NoPending
          PROVE  FALSE
      <3>1. pend[x][y][p] \in Item
        BY <2>1 DEF Inv, TypeOK, Pending
      <3>2. pend[x][y][p].entry # NoEntry
        BY <3>1, EntryIsNoGap DEF Item
      <3> QED  BY <1>3, <2>1, <3>2, KnownParts
    <2> QED  BY <2>1
  <1>7. \A p \in Path : Known(p)' = {}
    <2> SUFFICES ASSUME NEW p \in Path, NEW b \in Known(p)'
                 PROVE  FALSE
      OBVIOUS
    <2>1. Sourced
      BY <1>2 DEF Sourced
    <2>2. b \in Known(p) \cup {file'[x][p].index : x \in Device}
      BY <2>1, SourcedKnown
    <2>3. b # NoEntry
      BY DEF Known
    <2> QED  BY <1>3, <1>5, <2>2, <2>3
  <1>8. ASSUME NEW p \in Path
        PROVE  OneFile(p)' /\ FlightClaimed(p)'
    <2>1. OneFile(p)'
      BY <1>5, <1>7, FileAssumption DEF OneFile
    <2>2. FlightClaimed(p)'
      BY <1>2, <1>6 DEF FlightClaimed
    <2> QED  BY <2>1, <2>2
  <1> QED  BY <1>2, <1>8 DEF FlightInv

LEMMA FlightScan ==
    ASSUME Inv, Sourced, FlightInv, NEW d \in Device, scanOnce(d)
    PROVE  FlightInv'
  <1> DEFINE rec == Records(d)
  <1>1. file \in [Device -> [Path -> FileState]]
    BY DEF Inv, TypeOK
  <1>2. UNCHANGED <<pend, claim, clock, expired>>
    BY DEF scanOnce, history
  <1>3. ASSUME NEW p \in Path
        PROVE  /\ ~Gone(file[d][p])
               /\ Changed(file[d][p]) => file[d][p].index = NoEntry /\ file[d][p].disk = 2
    <2>1. OneFile(p)
      BY DEF FlightInv
    <2>2. file[d][p].index # NoEntry => ~file[d][p].index.deleted /\ file[d][p].index.content = 2
                                        /\ file[d][p].disk = 2
      BY <2>1, KnownParts DEF OneFile
    <2>3. file[d][p].disk \in {NoFile, 2} /\ NoFile # 2
      BY <2>1, FileAssumption DEF OneFile
    <2> QED  BY <2>2, <2>3 DEF Gone, Changed
  <1>4. ASSUME NEW p \in Path, rec[p] # NoEntry
        PROVE  /\ Changed(file[d][p]) /\ ~rec[p].deleted /\ rec[p].content = 2
    <2>1. rec[p] = IF Changed(file[d][p]) THEN Scanned(d, file[d][p]) ELSE NoEntry
      BY <1>3 DEF Records
    <2>2. Changed(file[d][p])
      BY <1>4, <2>1
    <2>3. ~Scanned(d, file[d][p]).deleted /\ Scanned(d, file[d][p]).content = file[d][p].disk
      BY <1>3, <2>2 DEF Scanned
    <2> HIDE DEF rec
    <2> QED  BY <1>3, <2>1, <2>2, <2>3
  <1>5. /\ \A x \in Device \ {d}, p \in Path : file'[x][p] = file[x][p]
        /\ \A p \in Path : file'[d][p] = IF rec[p] # NoEntry THEN [file[d][p] EXCEPT !.index = rec[p]]
                                                             ELSE file[d][p]
    <2> DEFINE g == [p \in Path |-> IF rec[p] # NoEntry THEN [file[d][p] EXCEPT !.index = rec[p]]
                                                        ELSE file[d][p]]
    <2>1. file' = [file EXCEPT ![d] = g]
      BY <1>1 DEF scanOnce
    <2>2. \A p \in Path : g[p] = IF rec[p] # NoEntry THEN [file[d][p] EXCEPT !.index = rec[p]]
                                                    ELSE file[d][p]
      OBVIOUS
    <2> HIDE DEF g, rec
    <2> QED  BY <1>1, <2>1, <2>2
  <1> HIDE DEF rec
  <1>6. \A p \in Path : file[d][p] \in FileState
    BY <1>1
  <1>7. \A x \in Device, p \in Path : file'[x][p].disk = file[x][p].disk
    <2>1. \A x \in Device \ {d}, p \in Path : file'[x][p].disk = file[x][p].disk
      BY <1>5
    <2>2. \A p \in Path : file'[d][p].disk = file[d][p].disk
      BY <1>5, <1>6 DEF FileState
    <2> QED  BY <2>1, <2>2
  <1>8. ASSUME NEW p \in Path
        PROVE  OneFile(p)' /\ (clock' = 1 => Known(p)' = {})
    <2>1. OneFile(p)
      BY DEF FlightInv
    <2>2. CASE rec[p] = NoEntry
      <3>1. \A x \in Device : file'[x][p] = file[x][p]
        BY <1>5, <2>2
      <3>2. Known(p)' \subseteq Known(p)
        BY <3>1, NothingNew
      <3> QED  BY <1>2, <2>1, <3>1, <3>2, OneFileKept DEF FlightInv
    <2>3. CASE rec[p] # NoEntry
      <3>1. /\ file[d][p].index = NoEntry /\ file[d][p].disk = 2
            /\ ~rec[p].deleted /\ rec[p].content = 2
        BY <1>3, <1>4, <2>3
      <3>2. /\ Known(p) = {}
            /\ \A x \in Device \ {d} : file[x][p].disk = NoFile /\ file[x][p].index = NoEntry
        BY <2>1, <3>1, FileAssumption DEF OneFile
      <3>3. file'[d][p].index = rec[p]
        BY <1>5, <1>6, <2>3 DEF FileState
      <3>4. Known(p)' \subseteq {rec[p]}
        <4>1. \A x \in Device \ {d} : file'[x][p].index = NoEntry
          BY <1>5, <3>2
        <4>2. NoEntry \notin Known(p)'
          BY DEF Known
        <4> QED  BY <3>2, <3>3, <4>1, <4>2, SourcedKnown
      <3>5. clock' # 1
        BY <1>2, <3>1, FileAssumption DEF FlightInv
      <3>6. ASSUME NEW x \in Device
            PROVE  /\ file'[x][p].disk \in {NoFile, 2}
                   /\ file'[x][p].index # NoEntry => file'[x][p].disk = 2
                   /\ ~(file'[x][p].disk = 2 /\ file'[x][p].index = NoEntry)
        <4>1. CASE x = d
          BY <1>7, <2>3, <3>1, <3>3, <4>1
        <4>2. CASE x # d
          BY <1>5, <3>2, <4>2, FileAssumption
        <4> QED  BY <4>1, <4>2
      <3>7. \A b \in Known(p)' : b = rec[p]
        BY <3>4
      <3>8. OneFile(p)'
        BY <3>1, <3>6, <3>7 DEF OneFile
      <3> QED  BY <3>5, <3>8
    <2> QED  BY <2>2, <2>3
  <1>9. \A p \in Path : FlightClaimed(p)'
    BY <1>2, <1>7 DEF FlightInv, FlightClaimed, Flies
  <1> QED  BY <1>2, <1>7, <1>8, <1>9 DEF FlightInv

LEMMA FlightReleased ==
    ASSUME Inv, FlightInv, NEW d \in Device, NEW e \in Device, NEW q \in Path,
           pend' = [pend EXCEPT ![d][e][q] = NoPending],
           claim' = [claim EXCEPT ![d][q] = Released(claim[d][q], e)],
           pend[d][e][q] # NoPending, expired' = expired,
           \A x \in Device, p \in Path : file'[x][p] = file[x][p] \/ (x = d /\ p = q)
    PROVE  \A p \in Path : FlightClaimed(p)'
  <1> DEFINE freed == Released(claim[d][q], e)
  <1>1. /\ pend \in [Device -> [Device -> [Path -> Pending]]]
        /\ claim \in [Device -> [Path -> Claim]]
    BY DEF Inv, TypeOK
  <1>2. claim' = [claim EXCEPT ![d][q] = freed]
    OBVIOUS
  <1> HIDE DEF freed
  <1> SUFFICES ASSUME NEW p \in Path, NEW x \in Device, NEW y \in Device, pend'[x][y][p] # NoPending
               PROVE  pend'[x][y][p].kind = "receive" /\ Flies(x, y, p)'
    BY DEF FlightClaimed
  <1>3. pend'[x][y][p] = pend[x][y][p] /\ ~(x = d /\ y = e /\ p = q)
    BY <1>1
  <1>4. pend[x][y][p].kind = "receive" /\ Flies(x, y, p) /\ Flies(d, e, q)
    BY <1>3 DEF FlightInv, FlightClaimed
  <1>5. <<x, p>> \in expired \/ ~(x = d /\ p = q)
    BY <1>3, <1>4 DEF Flies
  <1>6. ~(x = d /\ p = q) => claim'[x][p] = claim[x][p] /\ file'[x][p] = file[x][p]
    BY <1>1, <1>2
  <1>7. Flies(x, y, p)'
    BY <1>4, <1>5, <1>6 DEF Flies
  <1> QED  BY <1>3, <1>4, <1>7

LEMMA FlightDisconnect ==
    ASSUME Inv, Sourced, FlightInv, NEW d \in Device, NEW e \in Device, Disconnect(d, e)
    PROVE  FlightInv'
  <1> DEFINE none == [p \in Path |-> NoPending]
             ofD == [p \in Path |-> Released(claim[d][p], e)]
             ofE == [p \in Path |-> Released(claim[e][p], d)]
  <1>1. /\ pend \in [Device -> [Device -> [Path -> Pending]]]
        /\ claim \in [Device -> [Path -> Claim]]
    BY DEF Inv, TypeOK
  <1>2. d # e /\ UNCHANGED <<file, clock, expired>>
    BY DEF Disconnect, history
  <1>3. /\ pend' = [pend EXCEPT ![d][e] = none, ![e][d] = none]
        /\ claim' = [claim EXCEPT ![d] = ofD, ![e] = ofE]
    BY <1>1, <1>2 DEF Disconnect
  <1>4. /\ \A p \in Path : claim[d][p] # NoClaim /\ claim[d][p].holder # e => ofD[p] = claim[d][p]
        /\ \A p \in Path : claim[e][p] # NoClaim /\ claim[e][p].holder # d => ofE[p] = claim[e][p]
        /\ \A p \in Path : none[p] = NoPending
    BY DEF Released
  <1> HIDE DEF none, ofD, ofE
  <1>5. ASSUME NEW p \in Path, NEW x \in Device, NEW y \in Device, pend'[x][y][p] # NoPending
        PROVE  pend'[x][y][p].kind = "receive" /\ Flies(x, y, p)'
    <2>1. pend'[x][y][p] = pend[x][y][p] /\ ~(x = d /\ y = e) /\ ~(x = e /\ y = d)
      <3>1. pend'[x][y] = IF (x = d /\ y = e) \/ (x = e /\ y = d) THEN none ELSE pend[x][y]
        BY <1>1, <1>2, <1>3
      <3> QED  BY <1>4, <1>5, <3>1
    <2>2. pend[x][y][p].kind = "receive" /\ Flies(x, y, p)
      BY <1>5, <2>1 DEF FlightInv, FlightClaimed
    <2>3. claim'[x][p] = IF x = d THEN ofD[p] ELSE IF x = e THEN ofE[p] ELSE claim[x][p]
      BY <1>1, <1>2, <1>3
    <2>4. <<x, p>> \in expired \/ claim'[x][p] = claim[x][p]
      BY <1>4, <2>1, <2>2, <2>3 DEF Flies
    <2>5. Flies(x, y, p)'
      BY <1>2, <2>2, <2>4 DEF Flies
    <2> QED  BY <2>1, <2>2, <2>5
  <1>6. \A p \in Path : FlightClaimed(p)'
    BY <1>5 DEF FlightClaimed
  <1> QED  BY <1>2, <1>6, FlightFiles

LEMMA FlightDrop ==
    ASSUME Inv, Sourced, FlightInv, NEW d \in Device, NEW e \in Device, NEW q \in Path,
           dropIfUnservable(d, e, q)
    PROVE  FlightInv'
  <1>1. /\ pend' = [pend EXCEPT ![d][e][q] = NoPending]
        /\ claim' = [claim EXCEPT ![d][q] = Released(claim[d][q], e)]
        /\ pend[d][e][q] # NoPending /\ UNCHANGED <<file, clock, expired>>
    BY DEF dropIfUnservable, Unanswered, Inv, TypeOK
  <1>2. \A p \in Path : FlightClaimed(p)'
    BY <1>1, FlightReleased
  <1> QED  BY <1>1, <1>2, FlightFiles

LEMMA FlightResponse ==
    ASSUME Inv, Sourced, FlightInv, NEW d \in Device, NEW e \in Device, onBlockResponse(d, e)
    PROVE  FlightInv'
  <1> DEFINE m == Head(chan[e][d])
             q == m.path
             item == pend[d][e][q]
             accepted == item # NoPending /\ m.hash = item.entry.content /\ m.data = m.hash
             landed == Land(file[d][q], item)
  <1>1. chan[e][d] # <<>> /\ m \in Message /\ m.type = "block-response"
    BY ReceivedFacts, Zenon DEF onBlockResponse, Received
  <1>2. q \in Path
    BY <1>1 DEF Message
  <1>3. /\ file \in [Device -> [Path -> FileState]]
        /\ pend \in [Device -> [Device -> [Path -> Pending]]]
        /\ claim \in [Device -> [Path -> Claim]]
    BY DEF Inv, TypeOK
  <1>4. /\ accepted => /\ file' = [file EXCEPT ![d][q] = landed]
                       /\ pend' = [pend EXCEPT ![d][e][q] = NoPending]
                       /\ claim' = [claim EXCEPT ![d][q] = Released(claim[d][q], e)]
        /\ ~accepted => file' = file /\ pend' = pend /\ claim' = claim
    BY <1>2, <1>3, Zenon DEF onBlockResponse
  <1>5. clock' = clock /\ expired' = expired
    <2>1. clock' = clock /\ history' = history
      BY Zenon DEF onBlockResponse
    <2> QED  BY <2>1 DEF history
  <1> HIDE DEF q, m
  <1>6. CASE accepted
    <2>1. item \in Item /\ item.entry \in Known(q) /\ item.entry \in Entry
      <3>1. item \in Item
        BY <1>2, <1>3, <1>6 DEF Pending
      <3>2. item.entry \in Entry /\ item.entry # NoEntry
        BY <3>1, EntryIsNoGap DEF Item
      <3> QED  BY <1>2, <1>6, <3>1, <3>2, KnownParts
    <2>2. ~item.entry.deleted /\ item.entry.content = 2
      BY <1>2, <2>1 DEF FlightInv, OneFile
    <2>3. item.kind = "receive"
      BY <1>2, <1>6 DEF FlightInv, FlightClaimed
    <2>4. landed.index = item.entry /\ landed.disk = 2
      <3>1. file[d][q] \in FileState
        BY <1>2, <1>3
      <3>2. Land(file[d][q], item) = finalizeReceive(file[d][q], item.entry)
        BY <2>3 DEF Land
      <3>3. Blocks(item.entry) = 2
        BY <2>2 DEF Blocks
      <3> QED
        BY <3>1, <3>2, <3>3 DEF finalizeReceive, snapshotVersion, preserveLocalAsConflict, FileState
    <2>5. /\ file' = [file EXCEPT ![d][q] = landed]
          /\ pend' = [pend EXCEPT ![d][e][q] = NoPending]
          /\ claim' = [claim EXCEPT ![d][q] = Released(claim[d][q], e)]
          /\ pend[d][e][q] # NoPending
      BY <1>4, <1>6
    <2>6. item.entry \in Known(q)
      BY <2>1
    <2> HIDE DEF landed, accepted, item
    <2>7. \A x \in Device, p \in Path :
             file'[x][p] = IF x = d /\ p = q THEN landed ELSE file[x][p]
      BY <1>2, <1>3, <2>5
    <2>8. \A p \in Path : FlightClaimed(p)'
      <3>1. \A x \in Device, p \in Path : file'[x][p] = file[x][p] \/ (x = d /\ p = q)
        BY <2>7
      <3> QED  BY <1>2, <1>5, <2>5, <3>1, FlightReleased
    <2>9. \A x \in Device, p \in Path :
              \/ file'[x][p] = file[x][p]
              \/ file'[x][p].index \in Known(p) /\ file'[x][p].disk = 2
      BY <2>4, <2>6, <2>7
    <2> QED  BY <1>5, <2>8, <2>9, FlightFiles
  <1>7. CASE ~accepted
    BY <1>4, <1>5, <1>7, FlightSame
  <1> QED  BY <1>6, <1>7

LEMMA SamePlan ==
    ASSUME NEW b \in Entry
    PROVE  /\ planPath(b, b) = "none" /\ planPath(NoEntry, NoEntry) = "none"
           /\ ~b.deleted => /\ planPath(b, NoEntry) = "send"
                            /\ planPath(NoEntry, b) = "receive"
  <1>1. Dominates(b.version, b.version)
    BY DEF Dominates, Entry, Version
  <1>2. b # NoEntry
    BY EntryIsNoGap
  <1>3. /\ compareFileState(b, b) = "equal" /\ compareFileState(NoEntry, NoEntry) = "equal"
        /\ compareFileState(b, NoEntry) = "local-newer"
        /\ compareFileState(NoEntry, b) = "remote-newer"
    BY <1>1, <1>2 DEF compareFileState, compareVersions
  <1> QED  BY <1>3 DEF planPath

(* What an index message makes of a path there is one file of: who has it  *)
(* keeps it, who has not receives it unless another connection does.       *)
FlightOutcome(d, e, p, o) ==
    /\ o.file = file[d][p]
    /\ o.pend # NoPending => o.pend.kind = "receive"
    /\ <<d, p>> \notin expired =>
          /\ o.pend # NoPending =>
                file[d][p].disk = NoFile /\ o.claim # NoClaim /\ o.claim.holder = e
          /\ \A y \in Device \ {e} : pend[d][y][p] # NoPending => o.claim = claim[d][p]

LEMMA FlightOutcomes ==
    ASSUME Inv, ClaimServed, FlightInv, NEW d \in Device, NEW e \in Device, NEW p \in Path,
           NEW remote \in Known(p) \cup {NoEntry}, NEW full, NEW relayed,
           NEW action \in {"none", planPath(file[d][p].index, remote)}
    PROVE  FlightOutcome(d, e, p, Outcome(d, e, p, action, remote, full, relayed))
  <1> DEFINE i == file[d][p].index
  <1>1. OneFile(p) /\ FlightClaimed(p)
    BY DEF FlightInv
  <1>2. i \in Known(p) \cup {NoEntry}
    BY KnownParts
  <1>3. \A b \in Known(p) : b \in Entry /\ ~b.deleted /\ b.content = 2 /\ b # NoEntry
    BY <1>1, KnownTyped, EntryIsNoGap DEF OneFile
  <1>4. \/ action = "none"
        \/ action = "send" /\ remote = NoEntry
        \/ action = "receive" /\ i = NoEntry /\ remote \in Known(p)
    <2>1. CASE i = NoEntry /\ remote = NoEntry
      BY <2>1 DEF planPath, compareFileState
    <2>2. CASE i = NoEntry /\ remote \in Known(p)
      BY <1>3, <2>2, SamePlan
    <2>3. CASE i \in Known(p) /\ remote = NoEntry
      BY <1>3, <2>3, SamePlan
    <2>4. CASE i \in Known(p) /\ remote \in Known(p)
      <3>1. i = remote
        BY <1>1, <2>4 DEF OneFile
      <3> QED  BY <1>3, <2>4, <3>1, SamePlan
    <2> QED  BY <1>2, <2>1, <2>2, <2>3, <2>4
  <1>5. \A y \in Device : pend[d][y][p] # NoPending =>
           /\ pend[d][y][p].kind = "receive"
           /\ <<d, p>> \notin expired =>
                 file[d][p].disk = NoFile /\ claim[d][p] # NoClaim /\ claim[d][p].holder = y
    BY <1>1 DEF FlightClaimed, Flies
  <1>6. ASSUME NEW o, o.file = file[d][p], o.pend \in {pend[d][e][p], NoPending},
               o.claim \in {claim[d][p], Released(claim[d][p], e)},
               o.pend # NoPending => o.claim = claim[d][p]
        PROVE  FlightOutcome(d, e, p, o)
    <2>1. ASSUME NEW y \in Device \ {e}, pend[d][y][p] # NoPending, <<d, p>> \notin expired
          PROVE  o.claim = claim[d][p]
      BY <1>5, <1>6, <2>1 DEF Released
    <2> QED  BY <1>5, <1>6, <2>1 DEF FlightOutcome
  <1> DEFINE stale(o) == DropStale(o, e, full)
             dropped(o) == [o EXCEPT !.pend = NoPending, !.claim = Released(o.claim, e)]
             idle == Idle(d, e, p)
             sent == Send(d, e, p)
  <1>7. FlightOutcome(d, e, p, stale(idle)) /\ FlightOutcome(d, e, p, stale(sent))
    <2>1. stale(idle) \in {idle, dropped(idle)} /\ stale(sent) \in {sent, dropped(sent)}
      BY DEF DropStale
    <2>2. /\ idle.file = file[d][p] /\ idle.pend = pend[d][e][p] /\ idle.claim = claim[d][p]
          /\ sent.file = file[d][p] /\ sent.pend = pend[d][e][p] /\ sent.claim = claim[d][p]
      BY DEF Idle, Send
    <2>3. /\ dropped(idle).file = file[d][p] /\ dropped(idle).pend = NoPending
          /\ dropped(idle).claim = Released(claim[d][p], e)
      BY DEF Idle
    <2>4. /\ dropped(sent).file = file[d][p] /\ dropped(sent).pend = NoPending
          /\ dropped(sent).claim = Released(claim[d][p], e)
      BY DEF Idle, Send
    <2> HIDE DEF stale, dropped, idle, sent
    <2>5. /\ FlightOutcome(d, e, p, idle) /\ FlightOutcome(d, e, p, sent)
      BY <1>6, <2>2
    <2>6. /\ FlightOutcome(d, e, p, dropped(idle)) /\ FlightOutcome(d, e, p, dropped(sent))
      BY <1>6, <2>3, <2>4
    <2> QED  BY <2>1, <2>5, <2>6
  <1>8. CASE action = "none"
    <2>1. Outcome(d, e, p, action, remote, full, relayed) = stale(idle)
      BY <1>8 DEF Outcome
    <2> QED  BY <1>7, <2>1
  <1>9. CASE action = "send"
    <2>1. Outcome(d, e, p, action, remote, full, relayed) = stale(sent)
      BY <1>9 DEF Outcome
    <2> QED  BY <1>7, <2>1
  <1>10. CASE action = "receive" /\ ~Claimable(d, e, p, remote)
    <2>1. Outcome(d, e, p, action, remote, full, relayed) = stale(idle)
      BY <1>10 DEF Outcome
    <2> QED  BY <1>7, <2>1
  <1>11. CASE action = "receive" /\ Claimable(d, e, p, remote)
    <2> DEFINE item == [kind |-> "receive", entry |-> remote]
               taken == [holder |-> e, key |-> versionKey(remote)]
               asked == [file |-> file[d][p], pend |-> item, claim |-> taken, live |-> TRUE,
                         request |-> TRUE, send |-> NoEntry, landed |-> remote]
    <2>1. i = NoEntry /\ remote \in Known(p) /\ Blocks(remote) # Empty
      BY <1>3, <1>4, <1>11 DEF Blocks, Empty
    <2>2. ~Ready(d, p, remote)
      BY <2>1 DEF Ready
    <2>3. Open(d, e, p, "receive", remote) = asked
      BY <2>2 DEF Open, Idle
    <2>4. /\ asked.live = TRUE /\ asked.file = file[d][p] /\ asked.claim = taken /\ taken.holder = e
          /\ asked.pend.kind = "receive"
      OBVIOUS
    <2>5. taken # NoClaim
      <3>1. remote \in Entry /\ Blocks(remote) \in Nat
        BY <1>3, <2>1, BoundAssumption DEF Blocks
      <3>2. versionKey(remote) \in BOOLEAN \X Nat
        BY <3>1 DEF versionKey, Entry
      <3> QED  BY <3>2, ClaimAssumption
    <2>6. Outcome(d, e, p, action, remote, full, relayed) = DropStale(asked, e, full)
      BY <1>11, <2>3 DEF Outcome
    <2>7. file[d][p].disk = NoFile
      <3>1. file[d][p].disk # 2
        BY <1>1, <2>1 DEF OneFile
      <3> QED  BY <1>1, <3>1 DEF OneFile
    <2>8. <<d, p>> \notin expired => \A y \in Device \ {e} : pend[d][y][p] = NoPending
      <3> SUFFICES ASSUME NEW y \in Device \ {e}, pend[d][y][p] # NoPending, <<d, p>> \notin expired
                   PROVE  FALSE
        OBVIOUS
      <3>1. claim[d][p] # NoClaim /\ claim[d][p].holder = y
        BY <1>5
      <3>2. claim[d][p].key = versionKey(pend[d][y][p].entry)
        BY <3>1 DEF ClaimServed
      <3>3. pend[d][y][p].entry \in Known(p)
        <4>1. pend[d][y][p] \in Item
          BY DEF Inv, TypeOK, Pending
        <4>2. pend[d][y][p].entry # NoEntry
          BY <4>1, EntryIsNoGap DEF Item
        <4> QED  BY <4>2, KnownParts
      <3>4. pend[d][y][p].entry = remote
        BY <1>1, <2>1, <3>3 DEF OneFile
      <3> QED  BY <1>11, <3>1, <3>2, <3>4 DEF Claimable
    <2> HIDE DEF asked, taken
    <2>9. DropStale(asked, e, full) = asked
      BY <2>4 DEF DropStale
    <2> QED  BY <2>4, <2>5, <2>6, <2>7, <2>8, <2>9 DEF FlightOutcome
  <1> QED  BY <1>4, <1>8, <1>9, <1>10, <1>11

LEMMA FlightIndex ==
    ASSUME Inv, ClaimServed, Sourced, FlightInv,
           NEW d \in Device, NEW e \in Device, onPeerIndex(d, e)
    PROVE  FlightInv'
  <1> DEFINE m == Head(chan[e][d])
  <1>1. /\ chan[e][d] # <<>> /\ m \in Message /\ m.type = "index"
        /\ m.entries \in [Path -> MaybeEntry]
        /\ clock' = clock /\ history' = history
    BY IndexEffect, Zenon
  <1>2. PICK outcome, reply, relay :
                     /\ \A q \in Path :
                           /\ GoodOutcome(d, e, q, m.entries[q], outcome[q])
                           /\ \E action \in {"none", planPath(file[d][q].index, m.entries[q])} :
                                 outcome[q] = Outcome(d, e, q, action, m.entries[q], m.full, m.relayed)
                     /\ file' = [file EXCEPT ![d] = [q \in Path |-> outcome[q].file]]
                     /\ pend' = [pend EXCEPT ![d][e] = [q \in Path |-> outcome[q].pend]]
                     /\ claim' = [claim EXCEPT ![d] = [q \in Path |-> outcome[q].claim]]
                     /\ Deliver(d, e, reply, relay)
                     /\ reply \in Seq(Message) /\ relay \in Seq(Message)
                     /\ \A n \in Range(reply) :
                           \/ n.type = "block-request"
                           \/ n = IndexMessage([q \in Path |-> outcome[q].send], FALSE, FALSE)
                     /\ \A n \in Range(relay) :
                           n = IndexMessage([q \in Path |-> outcome[q].landed], FALSE, TRUE)
    BY IndexEffect, Zenon
  <1>3. m \in Range(chan[e][d])
    BY <1>1, FirstMessage, Zenon
  <1> HIDE DEF m
  <1>4. \A q \in Path : m.entries[q] \in Known(q) \cup {NoEntry}
    BY <1>1, <1>3, MessageParts, KnownParts
  <1>5. ASSUME NEW q \in Path
        PROVE  FlightOutcome(d, e, q, outcome[q])
    <2>1. PICK action \in {"none", planPath(file[d][q].index, m.entries[q])} :
              outcome[q] = Outcome(d, e, q, action, m.entries[q], m.full, m.relayed)
      BY <1>2
    <2> QED  BY <1>4, <2>1, FlightOutcomes
  <1>6. /\ file \in [Device -> [Path -> FileState]]
        /\ pend \in [Device -> [Device -> [Path -> Pending]]]
        /\ claim \in [Device -> [Path -> Claim]]
    BY DEF Inv, TypeOK
  <1>7. \A x \in Device, q \in Path : file'[x][q] = file[x][q]
    <2>1. \A x \in Device, q \in Path : file'[x][q] = IF x = d THEN outcome[q].file ELSE file[x][q]
      BY <1>2, <1>6
    <2> QED  BY <1>5, <2>1 DEF FlightOutcome
  <1>8. \A x, y \in Device, q \in Path :
           pend'[x][y][q] = IF x = d /\ y = e THEN outcome[q].pend ELSE pend[x][y][q]
    <2> DEFINE pends == [r \in Path |-> outcome[r].pend]
    <2>1. pend' = [pend EXCEPT ![d][e] = pends] /\ \A q \in Path : pends[q] = outcome[q].pend
      BY <1>2
    <2> HIDE DEF pends
    <2> QED  BY <1>6, <2>1
  <1>9. \A x \in Device, q \in Path :
           claim'[x][q] = IF x = d THEN outcome[q].claim ELSE claim[x][q]
    BY <1>2, <1>6
  <1>10. ASSUME NEW q \in Path, NEW x \in Device, NEW y \in Device, pend'[x][y][q] # NoPending
         PROVE  pend'[x][y][q].kind = "receive" /\ Flies(x, y, q)'
    <2>0. expired' = expired
      BY <1>1 DEF history
    <2>1. CASE x = d /\ y = e
      <3>1. pend'[x][y][q] = outcome[q].pend /\ claim'[x][q] = outcome[q].claim
        BY <1>8, <1>9, <2>1
      <3>2. FlightOutcome(x, y, q, outcome[q])
        BY <1>5, <2>1
      <3> QED  BY <1>7, <1>10, <2>0, <3>1, <3>2 DEF FlightOutcome, Flies
    <2>2. CASE ~(x = d /\ y = e)
      <3>1. pend'[x][y][q] = pend[x][y][q] /\ pend[x][y][q] # NoPending
        BY <1>8, <1>10, <2>2
      <3>2. pend[x][y][q].kind = "receive" /\ Flies(x, y, q)
        BY <3>1 DEF FlightInv, FlightClaimed
      <3>3. <<x, q>> \in expired \/ claim'[x][q] = claim[x][q]
        BY <1>5, <1>9, <2>2, <3>1 DEF FlightOutcome
      <3> QED  BY <1>7, <2>0, <3>1, <3>2, <3>3 DEF Flies
    <2> QED  BY <2>1, <2>2
  <1>11. \A q \in Path : FlightClaimed(q)'
    BY <1>10 DEF FlightClaimed
  <1> QED  BY <1>1, <1>7, <1>11, FlightFiles

LEMMA FlightExpire ==
    ASSUME Inv, Sourced, FlightInv, NEW d \in Device, NEW q \in Path, expireClaim(d, q)
    PROVE  FlightInv'
  <1>1. /\ UNCHANGED <<file, pend, clock>> /\ expired' = expired \cup {<<d, q>>}
        /\ claim' = [claim EXCEPT ![d][q] = NoClaim]
    BY DEF expireClaim
  <1>2. claim \in [Device -> [Path -> Claim]]
    BY DEF Inv, TypeOK
  <1>3. \A x \in Device, p \in Path : <<x, p>> \notin expired' => claim'[x][p] = claim[x][p]
    BY <1>1, <1>2
  <1>4. \A p \in Path : FlightClaimed(p)'
    BY <1>1, <1>3 DEF FlightInv, FlightClaimed, Flies
  <1> QED  BY <1>1, <1>4, FlightFiles

LEMMA FlightNext ==
    ASSUME OneEdit, Inv, ClaimServed, FlightInv, [Next]_vars
    PROVE  FlightInv'
  <1>0. Sourced
    BY SourcedNext
  <1>1. ASSUME NEW d \in Device, NEW p \in Path, Write(d, p) \/ Unlink(d, p)
        PROVE  FlightInv'
    BY <1>1, FlightWrite DEF Unlink, OneEdit
  <1>2. ASSUME NEW d \in Device, scanOnce(d)
        PROVE  FlightInv'
    BY <1>0, <1>2, FlightScan
  <1>3. ASSUME NEW d \in Device, NEW e \in Device, Connect(d, e)
        PROVE  FlightInv'
    BY <1>0, <1>3, FlightSame DEF Connect, history
  <1>4. ASSUME NEW d \in Device, NEW e \in Device, Disconnect(d, e)
        PROVE  FlightInv'
    BY <1>0, <1>4, FlightDisconnect
  <1>5. ASSUME NEW d \in Device, NEW e \in Device, Handle(d, e)
        PROVE  FlightInv'
    <2>1. CASE handleBlockRequest(d, e)
      BY <1>0, <2>1, FlightSame DEF handleBlockRequest, history
    <2> QED  BY <1>0, <1>5, <2>1, FlightIndex, FlightResponse DEF Handle
  <1>6. ASSUME NEW d \in Device, NEW e \in Device, NEW p \in Path, retryBlock(d, e, p)
        PROVE  FlightInv'
    BY <1>0, <1>6, FlightSame DEF retryBlock, history
  <1>7. ASSUME NEW d \in Device, NEW e \in Device, NEW p \in Path, dropIfUnservable(d, e, p)
        PROVE  FlightInv'
    BY <1>0, <1>7, FlightDrop
  <1>8. ASSUME NEW d \in Device, NEW p \in Path, expireClaim(d, p)
        PROVE  FlightInv'
    BY <1>0, <1>8, FlightExpire
  <1>9. CASE UNCHANGED vars
    BY <1>0, <1>9, FlightSame DEF vars
  <1> QED  BY <1>1, <1>2, <1>3, <1>4, <1>5, <1>6, <1>7, <1>8, <1>9, Zenon DEF Next

LEMMA FlightInit ==
    ASSUME OneEdit, Init
    PROVE  FlightInv
  <1>1. \A d, e \in Device, p \in Path : Announced(d, e, p) = {}
    BY RangeOfOne DEF Init, Announced
  <1>2. \A d \in Device, p \in Path : file[d][p].index = NoEntry /\ file[d][p].disk = NoFile
    BY DEF Init, OneEdit
  <1>3. \A d, e \in Device, p \in Path : pend[d][e][p] = NoPending
    BY DEF Init
  <1>4. \A p \in Path : Known(p) = {}
    BY <1>1, <1>2, <1>3 DEF Known, Entries, Pended
  <1> QED  BY <1>2, <1>3, <1>4, FileAssumption DEF FlightInv, OneFile, FlightClaimed

(* Whatever the links and policies, while sessions come and go: one change *)
(* is never received by a device over two connections at once, although    *)
(* every neighbour that has it announces it, as long as no claim of the    *)
(* path has expired under a receive there (tryClaim, src/peer.ts).         *)
THEOREM OneEditSingleFlight == OneEdit /\ Spec => []SingleFlight
  <1> DEFINE EInv == Inv /\ ClaimServed /\ FlightInv
  <1>1. OneEdit /\ Init => EInv
    BY InitGood, FlightInit DEF Init, ClaimServed
  <1>2. OneEdit /\ EInv /\ [Next]_vars => EInv' /\ OneEdit'
    BY FlightNext, ClaimsNext, NextGood DEF GoodStep, OneEdit
  <1>3. EInv => SingleFlight
    BY DEF FlightInv, FlightClaimed, Flies, SingleFlight
  <1> HIDE DEF EInv
  <1> QED  BY <1>1, <1>2, <1>3, PTL DEF Spec

----------------------------------------------------------------------------
(* With one author a device receives from its upstream alone, so that no   *)
(* version is received over two connections, and no claim outlives its     *)
(* receive (tryClaim and release of the receive ledger, src/peer.ts).      *)
THEOREM OneAuthorSingleFlight == OneAuthor /\ Spec => []SingleFlight
  <1>1. OneAuthor /\ Init => AuthorSpecInv
    BY InitGood, AuthorInit DEF AuthorSpecInv
  <1>2. OneAuthor /\ AuthorSpecInv /\ ClaimServed => SingleFlight
    <2> SUFFICES ASSUME AuthorInv, ClaimServed, NEW d \in Device, NEW e \in Device, NEW x \in Device,
                        NEW p \in Path, pend[d][e][p] # NoPending, pend[d][x][p] # NoPending
                 PROVE  e = x
      BY DEF AuthorSpecInv, SingleFlight
    <2> QED  BY DEF AuthorInv, PathInv, ReceivesNewer
  <1> QED  BY <1>1, <1>2, AuthorStays, ClaimsAreServed, PTL DEF Spec

----------------------------------------------------------------------------
(* What is on its way from the author to a device linked to it.            *)

(* Position i of the channel c is an index that says something of p. *)
Says(c, i, p) == i \in DOMAIN c /\ c[i].type = "index" /\ c[i].entries[p] # NoEntry

(* What the channel c says of p is said in the order of the changes, and   *)
(* nothing older than the receive under way is still to come; a full index *)
(* comes first and finds no receive.                                       *)
InOrder(c, item, p) ==
    /\ \A i, j \in DOMAIN c : Says(c, i, p) /\ Says(c, j, p) /\ i < j
          => Stamp(c[i].entries[p]) <= Stamp(c[j].entries[p])
    /\ \A i \in DOMAIN c : Says(c, i, p) /\ item # NoPending
          => Stamp(item.entry) <= Stamp(c[i].entries[p])
    /\ \A i \in DOMAIN c : c[i].type = "index" /\ c[i].full => i = 1 /\ item = NoPending

(* The author's user has changed a file that the index still lists. *)
Edited(p) ==
    LET f == file[Author][p]
    IN  f.index # NoEntry /\ ~f.index.deleted /\ f.disk # f.index.content

(* The author's entry is at the device, on its way to it, or out of date. *)
Coming(d, p) ==
    LET b == file[Author][p].index
    IN  \/ b = NoEntry \/ b = file[d][p].index
        \/ pend[d][Author][p] # NoPending /\ pend[d][Author][p].entry = b
        \/ b \in Announced(Author, d, p)
        \/ Edited(p)

Follows(d, p) ==
    /\ InOrder(chan[Author][d], pend[d][Author][p], p)
    /\ {d, Author} \in up => Coming(d, p)

Follower == {d \in Device \ {Author} : Upstream[d] = Author}

FollowInv == \A d \in Follower, p \in Path : Follows(d, p)

(* What d receives from the author is still asked for, on its way, or no    *)
(* longer on the author's disk.                                            *)
Asks(m, p, c) == m.type = "block-request" /\ m.path = p /\ m.hash = c
Answers(m, p, c) == m.type = "block-response" /\ m.path = p /\ m.hash = c /\ m.data = c

Asked(d, p) ==
    pend[d][Author][p] # NoPending =>
       LET c == pend[d][Author][p].entry.content
       IN  \/ \E m \in Range(chan[d][Author]) : Asks(m, p, c)
           \/ \E m \in Range(chan[Author][d]) : Answers(m, p, c)
           \/ file[Author][p].disk # c

AskedInv == \A d \in Follower, p \in Path : Asked(d, p)

(* Nothing of the path is under way from the author to the device. *)
AtRest(d, p) ==
    /\ {d, Author} \in up
    /\ chan[Author][d] = <<>> /\ pend[d][Author][p] = NoPending
    /\ ~Changed(file[Author][p]) /\ ~Gone(file[Author][p])

RestAgrees ==
    \A d \in Follower, p \in Path :
       LET source == file[Author][p]
           copy == file[d][p]
       IN  AtRest(d, p) => copy.index = source.index /\ copy.disk = source.disk /\ Honest(copy)

(* Taking the first message, and receiving what it says, keeps the order. *)
LEMMA OrderTail ==
    ASSUME NEW p \in Path, NEW c \in Seq(Message), c # <<>>, NEW item, NEW next,
           InOrder(c, item, p),
           next \in {item, NoPending} \/ (Says(c, 1, p) /\ next.entry = c[1].entries[p])
    PROVE  InOrder(Tail(c), next, p)
  <1> DEFINE t == Tail(c)
  <1>1. /\ Len(c) \in Nat \ {0} /\ DOMAIN c = 1..Len(c)
        /\ DOMAIN t = 1..(Len(c) - 1) /\ \A i \in 1..(Len(c) - 1) : t[i] = c[i + 1]
    OBVIOUS
  <1>2. \A i \in DOMAIN t : i + 1 \in DOMAIN c /\ i + 1 > 1 /\ i \in Nat /\ t[i] = c[i + 1]
    BY <1>1
  <1> HIDE DEF t
  <1>3. \A i \in DOMAIN t : Says(t, i, p) => Says(c, i + 1, p)
    BY <1>2 DEF Says
  <1>4. ASSUME NEW i \in DOMAIN t, NEW j \in DOMAIN t, Says(t, i, p), Says(t, j, p), i < j
        PROVE  Stamp(t[i].entries[p]) <= Stamp(t[j].entries[p])
    <2>1. i + 1 < j + 1
      BY <1>2, <1>4
    <2> QED  BY <1>2, <1>3, <1>4, <2>1 DEF InOrder
  <1>5. ASSUME NEW i \in DOMAIN t, Says(t, i, p), next # NoPending
        PROVE  Stamp(next.entry) <= Stamp(t[i].entries[p])
    <2>1. CASE next = item
      BY <1>2, <1>3, <1>5, <2>1 DEF InOrder
    <2>2. CASE Says(c, 1, p) /\ next.entry = c[1].entries[p]
      <3>1. 1 \in DOMAIN c /\ 1 < i + 1
        BY <1>1, <1>2
      <3> QED  BY <1>2, <1>3, <1>5, <2>2, <3>1 DEF InOrder
    <2> QED  BY <1>5, <2>1, <2>2
  <1>6. ASSUME NEW i \in DOMAIN t, t[i].type = "index", t[i].full
        PROVE  FALSE
    BY <1>2, <1>6 DEF InOrder
  <1> QED  BY <1>4, <1>5, <1>6 DEF InOrder, t

(* So does adding what is as new as anything said before. *)
LEMMA OrderAppend ==
    ASSUME NEW p \in Path, NEW c \in Seq(Message), NEW s \in Seq(Message), NEW item,
           NEW next \in {item, NoPending}, InOrder(c, item, p), NEW top \in Nat,
           item # NoPending => Stamp(item.entry) <= top,
           \A i \in DOMAIN c : Says(c, i, p) => Stamp(c[i].entries[p]) <= top,
           \A n \in Range(s) : n.type = "index"
              => ~n.full /\ (n.entries[p] = NoEntry \/ Stamp(n.entries[p]) = top)
    PROVE  InOrder(c \o s, next, p) /\ Range(c) \subseteq Range(c \o s)
  <1> DEFINE k == c \o s
  <1>1. /\ Len(c) \in Nat /\ DOMAIN c = 1..Len(c) /\ Len(s) \in Nat /\ DOMAIN s = 1..Len(s)
        /\ DOMAIN k = 1..(Len(c) + Len(s))
        /\ \A i \in DOMAIN k : k[i] = IF i <= Len(c) THEN c[i] ELSE s[i - Len(c)]
    OBVIOUS
  <1>2. ASSUME NEW i \in DOMAIN k
        PROVE  \/ i \in DOMAIN c /\ k[i] = c[i]
               \/ i > Len(c) /\ k[i] \in Range(s)
    <2>1. CASE i <= Len(c)
      BY <1>1, <2>1
    <2>2. CASE i > Len(c)
      <3>1. i - Len(c) \in DOMAIN s /\ k[i] = s[i - Len(c)]
        BY <1>1, <2>2
      <3> QED  BY <2>2, <3>1 DEF Range
    <2> QED  BY <1>1, <2>1, <2>2
  <1>3. \A i \in DOMAIN c : i \in DOMAIN k /\ k[i] = c[i]
    BY <1>1
  <1>4. \A i \in DOMAIN k : i \in Nat
    BY <1>1
  <1> HIDE DEF k
  <1>5. ASSUME NEW i \in DOMAIN k, Says(k, i, p)
        PROVE  Stamp(k[i].entries[p]) <= top /\ (i > Len(c) => Stamp(k[i].entries[p]) = top)
    BY <1>1, <1>2, <1>5 DEF Says
  <1>6. ASSUME NEW i \in DOMAIN k, NEW j \in DOMAIN k, Says(k, i, p), Says(k, j, p), i < j
        PROVE  Stamp(k[i].entries[p]) <= Stamp(k[j].entries[p])
    <2>1. CASE j > Len(c)
      BY <1>5, <1>6, <2>1
    <2>2. CASE ~(j > Len(c))
      <3>1. ~(i > Len(c))
        BY <1>1, <1>4, <1>6, <2>2
      <3> QED  BY <1>2, <1>6, <2>2, <3>1 DEF InOrder, Says
    <2> QED  BY <2>1, <2>2
  <1>7. ASSUME NEW i \in DOMAIN k, Says(k, i, p), next # NoPending
        PROVE  Stamp(next.entry) <= Stamp(k[i].entries[p])
    <2>1. next = item
      BY <1>7
    <2>2. CASE i > Len(c)
      BY <1>5, <1>7, <2>1, <2>2
    <2>3. CASE ~(i > Len(c))
      BY <1>2, <1>7, <2>1, <2>3 DEF InOrder, Says
    <2> QED  BY <2>2, <2>3
  <1>8. ASSUME NEW i \in DOMAIN k, k[i].type = "index", k[i].full
        PROVE  i = 1 /\ next = NoPending
    BY <1>2, <1>8 DEF InOrder
  <1>9. Range(c) \subseteq Range(k)
    BY <1>3 DEF Range
  <1> QED  BY <1>6, <1>7, <1>8, <1>9 DEF InOrder, k

(* What a step may do to path p between the author and the device d: it    *)
(* adds to what is on its way, takes the first of it, or begins anew.      *)

Adds(d, p) ==
    LET old == pend[d][Author][p]
        new == pend'[d][Author][p]
        b == file[Author][p].index
        c == file'[Author][p].index
    IN  /\ {d, Author} \in up
        /\ \E s \in Seq(Message) :
              /\ chan'[Author][d] = chan[Author][d] \o s
              /\ \A n \in Range(s) : n.type = "index" => ~n.full /\ n.entries[p] \in {NoEntry, c}
        /\ file'[d][p].index = file[d][p].index
        /\ \/ new = old
           \/ new = NoPending /\ (old.entry = b => Edited(p)')
        /\ \/ b = c /\ (Edited(p) => Edited(p)')
           \/ StampOf(Author, p)' \in Nat /\ StampOf(Author, p) <= StampOf(Author, p)'
              /\ c \in Announced(Author, d, p)'

Takes(d, p) ==
    LET m == Head(chan[Author][d])
        b == m.entries[p]
        old == pend[d][Author][p]
        new == pend'[d][Author][p]
        told == m.type = "index" /\ b # NoEntry /\ Stamp(b) > StampOf(d, p)
    IN  /\ {d, Author} \in up
        /\ chan[Author][d] # <<>> /\ chan'[Author][d] = Tail(chan[Author][d])
        /\ file'[Author][p] = file[Author][p]
        /\ \/ ~told /\ file'[d][p].index = file[d][p].index /\ new = old
           \/ ~told /\ old # NoPending /\ file'[d][p].index = old.entry /\ new = NoPending
           \/ told /\ file'[d][p].index = b /\ new = NoPending
           \/ told /\ file'[d][p].index = file[d][p].index /\ new # NoPending /\ new.entry = b

Begins(d, p) ==
    /\ chan'[Author][d] = <<IndexMessage(LocalIndex(Author), TRUE, FALSE)>>
    /\ pend'[d][Author][p] = NoPending /\ file'[Author][p] = file[Author][p]

FollowStep(d, p) == Adds(d, p) \/ Takes(d, p) \/ Begins(d, p) \/ {d, Author} \notin up'

(* Entries of the author's path, wherever they are, by their stamp.        *)
LEMMA LastWord ==
    ASSUME OneAuthor, Inv, NEW p \in Path, PathInv(p), NEW d \in Device
    PROVE  LET b == file[Author][p].index
               item == pend[d][Author][p]
           IN  /\ StampOf(Author, p) \in Nat /\ Stamp(b) = StampOf(Author, p)
               /\ Stamp(b) <= StampOf(d, p) => b = NoEntry \/ b = file[d][p].index
               /\ \A a \in Announced(Author, d, p) :
                     a # NoEntry => /\ Stamp(a) \in Nat /\ Stamp(a) <= Stamp(b)
                                    /\ Stamp(a) >= Stamp(b) => a = b
               /\ item # NoPending => /\ Stamp(item.entry) \in Nat /\ Stamp(item.entry) <= Stamp(b)
                                      /\ Stamp(item.entry) > StampOf(d, p)
               /\ \A i \in DOMAIN chan[Author][d] : Says(chan[Author][d], i, p)
                     => chan[Author][d][i].entries[p] \in Announced(Author, d, p)
  <1> DEFINE b == file[Author][p].index
             item == pend[d][Author][p]
  <1>0. Author \in Device
    BY DEF OneAuthor
  <1>1. /\ StampOf(Author, p) \in Nat /\ Stamp(b) = StampOf(Author, p)
        /\ \A a \in Known(p) : Stamp(a) \in Nat \ {0} /\ Stamp(a) <= StampOf(Author, p)
    BY <1>0, StampFacts DEF PathInv, AuthorFirst, StampOf
  <1>2. ASSUME NEW a \in Announced(Author, d, p), a # NoEntry
        PROVE  /\ Stamp(a) \in Nat /\ Stamp(a) <= Stamp(b)
               /\ Stamp(a) >= Stamp(b) => a = b
    <2>1. a \in Known(p)
      BY <1>0, <1>2, KnownParts
    <2>2. ASSUME Stamp(a) >= Stamp(b)
          PROVE  a = b
      <3>1. Stamp(a) = Stamp(b)
        BY <1>1, <2>1, <2>2
      <3>2. Stamp(b) # 0
        BY <1>1, <2>1, <3>1
      <3>3. b # NoEntry
        BY <3>2 DEF Stamp
      <3>4. b \in Known(p)
        BY <1>0, <3>3, KnownParts
      <3> QED  BY <2>1, <3>1, <3>4 DEF PathInv, Identified
    <2> QED  BY <1>1, <2>1, <2>2
  <1>3. ASSUME item # NoPending
        PROVE  /\ Stamp(item.entry) \in Nat /\ Stamp(item.entry) <= Stamp(b)
               /\ Stamp(item.entry) > StampOf(d, p)
    <2>1. item \in Item
      BY <1>0, <1>3 DEF Inv, TypeOK, Pending
    <2>2. item.entry # NoEntry
      BY <2>1, EntryIsNoGap DEF Item
    <2>3. item.entry \in Known(p)
      BY <1>0, <1>3, <2>2, KnownParts
    <2>4. Stamp(item.entry) > StampOf(d, p)
      BY <1>0, <1>3 DEF PathInv, ReceivesNewer
    <2> QED  BY <1>1, <2>3, <2>4
  <1>4. ASSUME NEW i \in DOMAIN chan[Author][d], Says(chan[Author][d], i, p)
        PROVE  chan[Author][d][i].entries[p] \in Announced(Author, d, p)
    BY <1>4 DEF Says, Announced, Range
  <1>5. ASSUME Stamp(b) <= StampOf(d, p), b # NoEntry
        PROVE  b = file[d][p].index
    <2>1. /\ StampOf(d, p) \in Nat /\ StampOf(d, p) <= StampOf(Author, p)
          /\ StampOf(d, p) = 0 <=> file[d][p].index = NoEntry
          /\ b \in Known(p)
      BY <1>0, <1>5, StampFacts, KnownParts DEF PathInv
    <2>2. Stamp(b) = StampOf(d, p) /\ Stamp(b) # 0
      BY <1>1, <1>5, <2>1
    <2>3. file[d][p].index \in Known(p) /\ Stamp(file[d][p].index) = Stamp(b)
      BY <2>1, <2>2, KnownParts DEF StampOf
    <2> QED  BY <2>1, <2>3 DEF PathInv, Identified
  <1> QED  BY <1>1, <1>2, <1>3, <1>4, <1>5

(* Each kind of step keeps what is known of the way to d. *)
LEMMA AddsKeep ==
    ASSUME OneAuthor, Inv, NEW p \in Path, PathInv(p), NEW d \in Follower, Follows(d, p),
           Adds(d, p)
    PROVE  Follows(d, p)'
  <1> DEFINE b == file[Author][p].index
             c == file'[Author][p].index
             old == pend[d][Author][p]
             new == pend'[d][Author][p]
             top == StampOf(Author, p)'
             queue == chan[Author][d]
  <1>1. PICK s \in Seq(Message) :
              /\ chan'[Author][d] = queue \o s
              /\ \A n \in Range(s) : n.type = "index" => ~n.full /\ n.entries[p] \in {NoEntry, c}
    BY DEF Adds
  <1>2. d \in Device /\ Author \in Device
    BY DEF OneAuthor, Follower
  <1>3. /\ StampOf(Author, p) \in Nat /\ Stamp(b) = StampOf(Author, p)
        /\ \A a \in Announced(Author, d, p) : a # NoEntry => Stamp(a) \in Nat /\ Stamp(a) <= Stamp(b)
        /\ old # NoPending => Stamp(old.entry) \in Nat /\ Stamp(old.entry) <= Stamp(b)
        /\ \A i \in DOMAIN queue : Says(queue, i, p) => queue[i].entries[p] \in Announced(Author, d, p)
    BY <1>2, LastWord
  <1>4. Stamp(c) = top
    BY DEF StampOf, Stamp
  <1>5. top \in Nat /\ StampOf(Author, p) <= top
    <2>1. CASE b = c
      <3>1. top = StampOf(Author, p)
        BY <1>3, <1>4, <2>1
      <3> QED  BY <1>3, <3>1
    <2>2. CASE b # c
      BY <2>2 DEF Adds
    <2> QED  BY <2>1, <2>2
  <1>6. \A i \in DOMAIN queue : Says(queue, i, p) => Stamp(queue[i].entries[p]) <= top
    <2> SUFFICES ASSUME NEW i \in DOMAIN queue, Says(queue, i, p)
                 PROVE  Stamp(queue[i].entries[p]) <= top
      OBVIOUS
    <2> DEFINE a == queue[i].entries[p]
    <2>1. a \in Announced(Author, d, p) /\ a # NoEntry
      BY <1>3 DEF Says
    <2> HIDE DEF a, top, b
    <2>2. Stamp(a) \in Nat /\ Stamp(a) <= Stamp(b)
      BY <1>3, <2>1 DEF b
    <2>3. Stamp(a) <= top
      BY <1>3, <1>5, <2>2
    <2> QED  BY <2>3 DEF a
  <1>7. old # NoPending => Stamp(old.entry) <= top
    <2> HIDE DEF top, b, old
    <2> QED  BY <1>3, <1>5 DEF b, old
  <1>8. queue \in Seq(Message)
    BY <1>2 DEF Inv, TypeOK
  <1>9. new \in {old, NoPending} /\ InOrder(queue, old, p)
    BY DEF Adds, Follows
  <1>10. \A n \in Range(s) : n.type = "index"
              => ~n.full /\ (n.entries[p] = NoEntry \/ Stamp(n.entries[p]) = top)
    BY <1>1, <1>4
  <1>11. InOrder(chan'[Author][d], new, p) /\ Range(queue) \subseteq Range(chan'[Author][d])
    <2> HIDE DEF old, new, queue, top
    <2>1. InOrder(queue \o s, new, p) /\ Range(queue) \subseteq Range(queue \o s)
      BY <1>5, <1>6, <1>7, <1>8, <1>9, <1>10, OrderAppend
    <2> QED  BY <1>1, <2>1
  <1>12. Announced(Author, d, p) \subseteq Announced(Author, d, p)'
    <2> HIDE DEF queue
    <2> QED  BY <1>11 DEF Announced, queue
  <1>13. Coming(d, p)'
    <2>0. Coming(d, p)
      BY DEF Adds, Follows
    <2>1. CASE c \in Announced(Author, d, p)'
      BY <2>1 DEF Coming
    <2>2. CASE b = c /\ (Edited(p) => Edited(p)')
      <3>1. CASE b = NoEntry \/ b = file[d][p].index
        <4>1. file'[d][p].index = file[d][p].index
          BY DEF Adds
        <4> QED  BY <2>2, <3>1, <4>1 DEF Coming
      <3>2. CASE old # NoPending /\ old.entry = b
        <4>1. new = old \/ Edited(p)'
          BY <3>2 DEF Adds
        <4> QED  BY <2>2, <3>2, <4>1 DEF Coming
      <3>3. CASE b \in Announced(Author, d, p)
        BY <1>12, <2>2, <3>3 DEF Coming
      <3>4. CASE Edited(p)
        BY <2>2, <3>4 DEF Coming
      <3> QED  BY <2>0, <3>1, <3>2, <3>3, <3>4 DEF Coming
    <2> QED  BY <2>1, <2>2 DEF Adds
  <1>14. InOrder(chan[Author][d], pend[d][Author][p], p)' <=> InOrder(chan'[Author][d], new, p)
    BY DEF InOrder, Says, Stamp
  <1> QED  BY <1>11, <1>13, <1>14 DEF Follows

LEMMA TakesKeep ==
    ASSUME OneAuthor, Inv, NEW p \in Path, PathInv(p), NEW d \in Follower, Follows(d, p),
           Takes(d, p)
    PROVE  Follows(d, p)'
  <1> DEFINE queue == chan[Author][d]
             m == Head(queue)
             a == m.entries[p]
             b == file[Author][p].index
             old == pend[d][Author][p]
             new == pend'[d][Author][p]
             told == m.type = "index" /\ a # NoEntry /\ Stamp(a) > StampOf(d, p)
  <1>1. d \in Device /\ Author \in Device
    BY DEF OneAuthor, Follower
  <1>2. /\ StampOf(Author, p) \in Nat /\ Stamp(b) = StampOf(Author, p)
        /\ \A x \in Announced(Author, d, p) :
              x # NoEntry => /\ Stamp(x) \in Nat /\ Stamp(x) <= Stamp(b)
                             /\ Stamp(x) >= Stamp(b) => x = b
        /\ old # NoPending => /\ Stamp(old.entry) \in Nat /\ Stamp(old.entry) <= Stamp(b)
                              /\ Stamp(old.entry) > StampOf(d, p)
    BY <1>1, LastWord
  <1>3. queue \in Seq(Message) /\ queue # <<>> /\ chan'[Author][d] = Tail(queue)
    BY <1>1 DEF Takes, Inv, TypeOK
  <1>4. 1 \in DOMAIN queue /\ m = queue[1]
    BY <1>3
  <1>5. told => Says(queue, 1, p) /\ a \in Announced(Author, d, p)
    <2> HIDE DEF queue
    <2> QED  BY <1>4 DEF Says, Announced, Range, queue
  <1>6. \/ ~told /\ file'[d][p].index = file[d][p].index /\ new = old
        \/ ~told /\ old # NoPending /\ file'[d][p].index = old.entry /\ new = NoPending
        \/ told /\ file'[d][p].index = a /\ new = NoPending
        \/ told /\ file'[d][p].index = file[d][p].index /\ new # NoPending /\ new.entry = a
    BY DEF Takes
  <1>7. InOrder(queue, old, p) /\ Coming(d, p)
    BY DEF Follows, Takes
  <1>8. InOrder(Tail(queue), new, p)
    <2>1. new \in {old, NoPending} \/ (Says(queue, 1, p) /\ new.entry = queue[1].entries[p])
      BY <1>4, <1>5, <1>6
    <2> HIDE DEF queue, old, new, m, told, a, b
    <2> QED  BY <1>3, <1>7, <2>1, OrderTail
  <1>9. InOrder(chan[Author][d], pend[d][Author][p], p)' <=> InOrder(Tail(queue), new, p)
    BY <1>3 DEF InOrder, Says, Stamp
  <1>10. file'[Author][p].index = b /\ (Edited(p) => Edited(p)')
    BY DEF Takes, Edited
  <1>11. StampOf(d, p) \in Nat /\ StampOf(d, p) = Stamp(file[d][p].index)
    BY <1>1, StampFacts DEF PathInv, StampOf
  <1>12. \A x \in Announced(Author, d, p) :
            (x = a /\ m.type = "index") \/ x \in Announced(Author, d, p)'
    <2>1. ASSUME NEW n \in Range(queue)
          PROVE  n = m \/ n \in Range(Tail(queue))
      <3>1. PICK i \in DOMAIN queue : n = queue[i]
        BY DEF Range
      <3>2. CASE i = 1
        BY <1>4, <3>1, <3>2
      <3>3. CASE i # 1
        <4>1. i - 1 \in DOMAIN Tail(queue) /\ Tail(queue)[i - 1] = queue[i]
          BY <1>3, <3>3
        <4> QED  BY <3>1, <4>1 DEF Range
      <3> QED  BY <3>2, <3>3
    <2> SUFFICES ASSUME NEW x \in Announced(Author, d, p), ~(x = a /\ m.type = "index")
                 PROVE  x \in Announced(Author, d, p)'
      OBVIOUS
    <2>2. PICK n \in Range(queue) : n.type = "index" /\ x = n.entries[p]
      BY DEF Announced
    <2>3. n \in Range(chan'[Author][d])
      BY <1>3, <2>1, <2>2
    <2> QED  BY <2>2, <2>3 DEF Announced
  <1>13. Stamp(b) <= StampOf(d, p) => b = NoEntry \/ b = file[d][p].index
    BY <1>1, LastWord
  <1>14. Coming(d, p)'
    <2> HIDE DEF queue, m, told, a, b, old, new
    <2> USE DEF b, old, new
    <2>1. CASE told /\ a = b
      BY <1>6, <1>10, <2>1 DEF Coming
    <2>2. CASE b = NoEntry \/ Edited(p)
      BY <1>10, <2>2 DEF Coming
    <2>3. CASE b = file[d][p].index
      <3>1. ~told
        <4> SUFFICES ASSUME told PROVE FALSE
          OBVIOUS
        <4>1. Stamp(a) \in Nat /\ Stamp(a) <= Stamp(b) /\ Stamp(a) > StampOf(d, p)
          BY <1>2, <1>5 DEF told
        <4> QED  BY <1>2, <1>11, <2>3, <4>1
      <3>2. old = NoPending
        BY <1>2, <1>11, <2>3
      <3> QED  BY <1>6, <1>10, <2>3, <3>1, <3>2 DEF Coming
    <2>4. CASE old # NoPending /\ old.entry = b
      <3>1. CASE ~told
        BY <1>6, <1>10, <2>4, <3>1 DEF Coming
      <3>2. CASE told
        <4>1. Stamp(old.entry) <= Stamp(a)
          BY <1>4, <1>5, <1>7, <2>4, <3>2 DEF InOrder, a
        <4>2. a # NoEntry
          BY <3>2 DEF told
        <4>3. a = b
          BY <1>2, <1>5, <2>4, <3>2, <4>1, <4>2
        <4> QED  BY <2>1, <3>2, <4>3
      <3> QED  BY <3>1, <3>2
    <2>5. CASE b \in Announced(Author, d, p)
      <3>1. CASE b \in Announced(Author, d, p)'
        BY <1>10, <3>1 DEF Coming
      <3>2. CASE b = a /\ m.type = "index" /\ ~told
        <4>1. a = NoEntry \/ Stamp(b) <= StampOf(d, p)
          BY <1>2, <1>5, <1>11, <2>5, <3>2 DEF told
        <4>2. b = NoEntry \/ b = file[d][p].index
          BY <1>13, <3>2, <4>1
        <4> QED  BY <2>2, <2>3, <4>2
      <3> QED  BY <1>12, <2>1, <2>5, <3>1, <3>2
    <2> QED  BY <1>7, <2>2, <2>3, <2>4, <2>5 DEF Coming
  <1> QED  BY <1>8, <1>9, <1>14 DEF Follows

LEMMA BeginsKeep ==
    ASSUME OneAuthor, NEW p \in Path, NEW d \in Follower, Begins(d, p)
    PROVE  Follows(d, p)'
  <1> DEFINE m == IndexMessage(LocalIndex(Author), TRUE, FALSE)
             queue == <<m>>
             b == file[Author][p].index
  <1>1. chan'[Author][d] = queue /\ pend'[d][Author][p] = NoPending /\ file'[Author][p] = file[Author][p]
    BY DEF Begins
  <1>2. m.type = "index" /\ m.entries[p] = b
    BY DEF IndexMessage, LocalIndex
  <1> HIDE DEF m
  <1>3. DOMAIN queue = {1} /\ Range(queue) = {m}
    BY RangeOfOne
  <1> HIDE DEF queue
  <1>4. \A i \in DOMAIN queue : i = 1
    BY <1>3
  <1>5. InOrder(queue, NoPending, p)
    BY <1>4 DEF InOrder
  <1>6. InOrder(chan[Author][d], pend[d][Author][p], p)' <=> InOrder(queue, NoPending, p)
    BY <1>1 DEF InOrder, Says, Stamp
  <1>7. b \in Announced(Author, d, p)'
    BY <1>1, <1>2, <1>3 DEF Announced
  <1> QED  BY <1>1, <1>5, <1>6, <1>7 DEF Follows, Coming

LEMMA EndedKeeps ==
    ASSUME OneAuthor, Inv', NEW p \in Path, NEW d \in Follower, {d, Author} \notin up'
    PROVE  Follows(d, p)'
  <1>1. d \in Device /\ Author \in Device
    BY DEF OneAuthor, Follower
  <1>2. Author \notin Neighbour(d)' /\ d \notin Neighbour(Author)'
    <2>1. {d, Author} = {Author, d}
      OBVIOUS
    <2> QED  BY <2>1 DEF Neighbour
  <1>3. chan'[Author][d] = <<>> /\ pend'[d][Author][p] = NoPending
    BY <1>1, <1>2 DEF Inv, TypeOK
  <1>4. InOrder(chan[Author][d], pend[d][Author][p], p)'
    BY <1>3 DEF InOrder
  <1> QED  BY <1>4 DEF Follows

LEMMA FollowKeeps ==
    ASSUME OneAuthor, Inv, Inv', NEW p \in Path, PathInv(p), NEW d \in Follower, Follows(d, p),
           FollowStep(d, p)
    PROVE  Follows(d, p)'
  BY AddsKeep, TakesKeep, BeginsKeep, EndedKeeps DEF FollowStep

(* What a handled message leaves on its way from the author to d. *)
LEMMA DeliverAt ==
    ASSUME OneAuthor, Inv, NEW d \in Follower, NEW x \in Device, NEW y \in Device, chan[y][x] # <<>>,
           NEW reply \in Seq(Message), NEW relay \in Seq(Message), Deliver(x, y, reply, relay)
    PROVE  /\ x = d /\ y = Author => chan'[Author][d] = Tail(chan[Author][d])
           /\ ~(x = d /\ y = Author) =>
                 \E s \in Seq(Message) :
                    /\ chan'[Author][d] = chan[Author][d] \o s
                    /\ s = <<>> \/ (x = Author /\ (s = reply \/ s = relay))
  <1> DEFINE row == [z \in Device |-> IF z = y THEN chan[x][z] \o reply
                                      ELSE IF z \in Neighbour(x) THEN chan[x][z] \o relay
                                      ELSE chan[x][z]]
             none == <<>>
  <1>1. y # x /\ d \in Device /\ Author \in Device /\ d # Author
    BY ReceivedFacts DEF OneAuthor, Follower
  <1>2. chan \in [Device -> [Device -> Seq(Message)]]
    BY DEF Inv, TypeOK
  <1>3. chan' = [[chan EXCEPT ![y][x] = Tail(chan[y][x])] EXCEPT ![x] = row]
    BY <1>1, <1>2 DEF Deliver
  <1>4. row[d] = IF d = y THEN chan[x][d] \o reply
                 ELSE IF d \in Neighbour(x) THEN chan[x][d] \o relay ELSE chan[x][d]
    BY <1>1
  <1>5. /\ chan'[x] = row
        /\ \A u \in Device \ {x}, v \in Device :
              chan'[u][v] = IF u = y /\ v = x THEN Tail(chan[y][x]) ELSE chan[u][v]
    <2> HIDE DEF row
    <2> QED  BY <1>1, <1>2, <1>3
  <1>6. none \in Seq(Message) /\ chan[Author][d] = chan[Author][d] \o none
    BY <1>1, <1>2
  <1> HIDE DEF row, none
  <1>7. CASE x = Author
    BY <1>1, <1>4, <1>5, <1>6, <1>7 DEF none
  <1>8. CASE x # Author /\ ~(x = d /\ y = Author)
    <2>1. chan'[Author][d] = chan[Author][d]
      BY <1>1, <1>5, <1>8
    <2> QED  BY <1>6, <1>8, <2>1 DEF none
  <1>9. CASE x = d /\ y = Author
    BY <1>1, <1>5, <1>9
  <1> QED  BY <1>7, <1>8, <1>9

(* A step that leaves the author's channel to d and the two files alone.   *)
LEMMA FollowSame ==
    ASSUME OneAuthor, Inv, NEW p \in Path, NEW d \in Follower,
           {d, Author} \in up, chan'[Author][d] = chan[Author][d],
           pend'[d][Author][p] = pend[d][Author][p],
           file'[d][p].index = file[d][p].index,
           file'[Author][p].index = file[Author][p].index, Edited(p) => Edited(p)'
    PROVE  FollowStep(d, p)
  <1> DEFINE none == <<>>
  <1>1. d \in Device /\ Author \in Device
    BY DEF OneAuthor, Follower
  <1>2. chan[Author][d] \in Seq(Message)
    BY <1>1 DEF Inv, TypeOK
  <1>3. none \in Seq(Message) /\ chan'[Author][d] = chan[Author][d] \o none
    BY <1>2
  <1>4. Range(none) = {}
    BY RangeOfOne
  <1> HIDE DEF none
  <1>5. Adds(d, p)
    BY <1>3, <1>4 DEF Adds
  <1> QED  BY <1>5 DEF FollowStep

----------------------------------------------------------------------------
(* One lemma per action says which kind of step it is. *)
LEMMA FollowUser ==
    ASSUME OneAuthor, Inv, NEW p \in Path, PathInv(p), NEW d \in Follower, {d, Author} \in up,
           NEW x \in Device, NEW q \in Path, Write(x, q) \/ Unlink(x, q)
    PROVE  FollowStep(d, p)
  <1>1. d \in Device /\ Author \in Device
    BY DEF OneAuthor, Follower
  <1>2. clock' = clock + 1 /\ clock \in Nat
    BY ClockIsNat DEF Write, Unlink
  <1>3. Untouched(p)
    <2>1. PathStep(p)
      BY UserPath
    <2> QED  BY <1>2, <2>1 DEF PathStep, Edits, Calm
  <1>4. file'[d][p].index = file[d][p].index /\ file'[Author][p].index = file[Author][p].index
    BY <1>1, <1>3 DEF Untouched
  <1>5. chan'[Author][d] = chan[Author][d] /\ pend'[d][Author][p] = pend[d][Author][p]
    BY <1>3 DEF Untouched
  <1>6. ASSUME Edited(p)
        PROVE  Edited(p)'
    <2> DEFINE b == file[Author][p].index
    <2>1. b \in Known(p)
      BY <1>1, <1>6, KnownParts DEF Edited
    <2>2. b.content <= clock /\ b.content \in Nat
      BY <2>1, KnownTyped, BoundAssumption DEF PathInv, AuthorFirst, Entry, Content
    <2>3. file'[Author][p].disk \in {file[Author][p].disk, NoFile, clock + 1}
      BY <1>3 DEF Untouched
    <2>4. file'[Author][p].disk # b.content
      <3> HIDE DEF b
      <3>1. file[Author][p].disk # b.content
        BY <1>6 DEF Edited, b
      <3>2. NoFile # b.content /\ clock + 1 # b.content
        BY <1>2, <2>2, FileAssumption
      <3> QED  BY <2>3, <3>1, <3>2
    <2> QED  BY <1>4, <1>6, <2>4 DEF Edited
  <1> QED  BY <1>4, <1>5, <1>6, FollowSame

LEMMA FollowScan ==
    ASSUME OneAuthor, Author \notin ReceiveOnly, Inv, Inv', NEW p \in Path, \A q \in Path : PathInv(q),
           NEW d \in Follower, {d, Author} \in up, NEW x \in Device, scanOnce(x)
    PROVE  FollowStep(d, p)
  <1> DEFINE rec == Records(Author)
             m == IndexMessage(Sends(Author), FALSE, FALSE)
             s == <<m>>
             c == file'[Author][p].index
             queue == chan[Author][d]
  <1>1. d \in Device /\ Author \in Device /\ d # Author /\ PathInv(p)
    BY DEF OneAuthor, Follower
  <1>2. scanOnce(Author)
    BY AuthorScans
  <1>3. /\ file \in [Device -> [Path -> FileState]]
        /\ chan \in [Device -> [Device -> Seq(Message)]]
        /\ chan' \in [Device -> [Device -> Seq(Message)]]
    BY DEF Inv, TypeOK
  <1>4. d \in Listeners(Author)
    <2>1. {Author, d} \in up
      <3>1. {d, Author} = {Author, d}
        OBVIOUS
      <3> QED  BY <3>1
    <2> QED  BY <1>1, <2>1 DEF Listeners, Neighbour
  <1>5. chan'[Author][d] = Append(queue, m)
    <2>1. chan' = [chan EXCEPT ![Author] = [e \in Device |->
                    IF e \in Listeners(Author) THEN Append(chan[Author][e], m) ELSE chan[Author][e]]]
      BY <1>1, <1>2, <1>3 DEF scanOnce
    <2> HIDE DEF m
    <2> QED  BY <1>1, <1>3, <1>4, <2>1
  <1>6. m.type = "index" /\ ~m.full /\ m.entries[p] = rec[p]
    BY DEF IndexMessage, Sends
  <1>7. /\ file'[d][p] = file[d][p]
        /\ file'[Author][p].disk = file[Author][p].disk
        /\ c = IF rec[p] # NoEntry THEN rec[p] ELSE file[Author][p].index
    <2> DEFINE g == [q \in Path |-> IF rec[q] # NoEntry THEN [file[Author][q] EXCEPT !.index = rec[q]]
                                                        ELSE file[Author][q]]
    <2>1. file' = [file EXCEPT ![Author] = g]
      BY <1>1, <1>2, <1>3 DEF scanOnce
    <2>2. g[p] = IF rec[p] # NoEntry THEN [file[Author][p] EXCEPT !.index = rec[p]]
                                     ELSE file[Author][p]
      OBVIOUS
    <2>3. file[Author][p] \in FileState
      BY <1>1, <1>3
    <2>4. file'[Author][p] = g[p] /\ file'[d][p] = file[d][p]
      <3> HIDE DEF g, rec
      <3> QED  BY <1>1, <1>3, <2>1
    <2> HIDE DEF g, rec
    <2> QED  BY <2>2, <2>3, <2>4 DEF FileState
  <1>8. UNCHANGED <<pend, clock>> /\ clock \in Nat
    BY <1>2, ClockIsNat DEF scanOnce
  <1> HIDE DEF m, rec
  <1>9. m \in Message
    <2> DEFINE k == Append(queue, m)
    <2>0. queue \in Seq(Message) /\ chan'[Author][d] \in Seq(Message)
      BY <1>1, <1>3
    <2> HIDE DEF queue
    <2>1. k \in Seq(Message) /\ queue \in Seq(Message)
      BY <1>5, <2>0
    <2>2. Len(queue) + 1 \in DOMAIN k /\ k[Len(queue) + 1] = m
      BY <2>1
    <2> HIDE DEF k
    <2>3. k[Len(queue) + 1] \in Message
      BY <2>1, <2>2
    <2> QED  BY <2>2, <2>3
  <1>10. s \in Seq(Message) /\ chan'[Author][d] = queue \o s
    <2>1. queue \in Seq(Message)
      BY <1>1, <1>3
    <2> QED  BY <1>5, <1>9, <2>1
  <1>11. Range(s) = {m}
    BY RangeOfOne
  <1>12. \A n \in Range(s) : n.type = "index" => ~n.full /\ n.entries[p] \in {NoEntry, c}
    BY <1>6, <1>7, <1>11
  <1>13. \/ file[Author][p].index = c /\ (Edited(p) => Edited(p)')
         \/ StampOf(Author, p)' \in Nat /\ StampOf(Author, p) <= StampOf(Author, p)'
            /\ c \in Announced(Author, d, p)'
    <2>1. CASE rec[p] = NoEntry
      BY <1>7, <2>1 DEF Edited
    <2>2. CASE rec[p] # NoEntry
      <3>1. m \in Range(chan'[Author][d])
        <4>0. queue \in Seq(Message)
          BY <1>1, <1>3
        <4> HIDE DEF queue
        <4>1. Len(queue) \in Nat /\ DOMAIN Append(queue, m) = 1..(Len(queue) + 1)
              /\ Append(queue, m)[Len(queue) + 1] = m
          BY <4>0
        <4> QED  BY <1>5, <4>1 DEF Range
      <3>2. c \in Announced(Author, d, p)'
        BY <1>6, <1>7, <2>2, <3>1 DEF Announced
      <3>3. PathStep(p)
        BY <1>2, <1>1, ScanPath
      <3>4. StampOf(Author, p) \in Nat
        BY <1>1, StampFacts DEF PathInv
      <3>5. Edits(p) \/ Calm(p)
        BY <1>8, <3>3 DEF PathStep, Untouched
      <3>6. CASE Edits(p)
        <4>1. StampOf(Author, p)' = StampOf(Author, p) + 1
          BY <1>1, <3>6, EditsKnown
        <4> QED  BY <3>2, <3>4, <4>1
      <3>7. CASE Calm(p)
        <4>1. file'[Author][p] = file[Author][p]
          BY <1>1, <3>7 DEF Calm
        <4> QED  BY <4>1 DEF Edited
      <3> QED  BY <3>5, <3>6, <3>7
    <2> QED  BY <2>1, <2>2
  <1> HIDE DEF s, c
  <1>14. Adds(d, p)
    BY <1>7, <1>8, <1>10, <1>12, <1>13 DEF Adds, c
  <1> QED  BY <1>14 DEF FollowStep

LEMMA FollowConnect ==
    ASSUME OneAuthor, Inv, NEW p \in Path, NEW d \in Follower, {d, Author} \in up',
           NEW x \in Device, NEW y \in Device, Connect(x, y)
    PROVE  FollowStep(d, p)
  <1> DEFINE m1 == <<IndexMessage(LocalIndex(x), TRUE, FALSE)>>
             m2 == <<IndexMessage(LocalIndex(y), TRUE, FALSE)>>
  <1>1. d \in Device /\ Author \in Device /\ d # Author
    BY DEF OneAuthor, Follower
  <1>2. chan \in [Device -> [Device -> Seq(Message)]]
    BY DEF Inv, TypeOK
  <1>3. /\ chan' = [chan EXCEPT ![x][y] = m1, ![y][x] = m2] /\ x # y
        /\ up' = up \cup {{x, y}} /\ {x, y} \notin up /\ UNCHANGED <<file, pend, clock>>
    BY DEF Connect
  <1>4. CASE {x, y} = {d, Author}
    <2>1. chan'[Author][d] = <<IndexMessage(LocalIndex(Author), TRUE, FALSE)>>
      <3>1. CASE x = Author /\ y = d
        <4>1. chan'[Author][d] = m1
          <5> HIDE DEF m1, m2
          <5> QED  BY <1>1, <1>2, <1>3, <3>1
        <4> QED  BY <3>1, <4>1
      <3>2. CASE y = Author /\ x = d
        <4>1. chan'[Author][d] = m2
          <5> HIDE DEF m1, m2
          <5> QED  BY <1>1, <1>2, <1>3, <3>2
        <4> QED  BY <3>2, <4>1
      <3> QED  BY <1>4, <3>1, <3>2
    <2>2. Author \notin Neighbour(d)
      BY <1>3, <1>4 DEF Neighbour
    <2>3. pend[d][Author][p] = NoPending
      BY <1>1, <2>2 DEF Inv, TypeOK
    <2> QED  BY <1>3, <2>1, <2>3 DEF FollowStep, Begins
  <1>5. CASE {x, y} # {d, Author}
    <2>1. <<x, y>> # <<Author, d>> /\ <<y, x>> # <<Author, d>>
      BY <1>5
    <2>2. chan'[Author][d] = chan[Author][d]
      <3> HIDE DEF m1, m2
      <3> QED  BY <1>1, <1>2, <1>3, <2>1
    <2>3. {d, Author} \in up
      BY <1>3, <1>5
    <2> QED  BY <1>3, <2>2, <2>3, FollowSame DEF Edited
  <1> QED  BY <1>4, <1>5

LEMMA FollowDisconnect ==
    ASSUME OneAuthor, Inv, NEW p \in Path, NEW d \in Follower, {d, Author} \in up',
           NEW x \in Device, NEW y \in Device, Disconnect(x, y)
    PROVE  FollowStep(d, p)
  <1> DEFINE none == [q \in Path |-> NoPending]
             empty == <<>>
  <1>1. d \in Device /\ Author \in Device /\ d # Author
    BY DEF OneAuthor, Follower
  <1>2. /\ chan \in [Device -> [Device -> Seq(Message)]]
        /\ pend \in [Device -> [Device -> [Path -> Pending]]]
    BY DEF Inv, TypeOK
  <1>3. /\ chan' = [chan EXCEPT ![x][y] = empty, ![y][x] = empty]
        /\ pend' = [pend EXCEPT ![x][y] = none, ![y][x] = none]
        /\ x # y /\ up' = up \ {{x, y}} /\ UNCHANGED <<file, clock>>
    BY DEF Disconnect
  <1> HIDE DEF none, empty
  <1>4. {d, Author} \in up /\ {x, y} # {d, Author}
    BY <1>3
  <1>5. <<x, y>> \notin {<<Author, d>>, <<d, Author>>}
    BY <1>4
  <1>6. chan'[Author][d] = chan[Author][d] /\ pend'[d][Author] = pend[d][Author]
    BY <1>1, <1>2, <1>3, <1>5
  <1> QED  BY <1>3, <1>4, <1>6, FollowSame DEF Edited

LEMMA FollowRetry ==
    ASSUME OneAuthor, Inv, NEW p \in Path, NEW d \in Follower, {d, Author} \in up,
           NEW x \in Device, NEW y \in Device, NEW q \in Path, PathInv(q), retryBlock(x, y, q)
    PROVE  FollowStep(d, p)
  <1> DEFINE m == BlockRequest(q, pend[x][y][q].entry.content)
  <1>1. d \in Device /\ Author \in Device
    BY DEF OneAuthor, Follower
  <1>2. chan \in [Device -> [Device -> Seq(Message)]]
    BY DEF Inv, TypeOK
  <1>3. UNCHANGED <<file, pend>> /\ chan' = [chan EXCEPT ![x][y] = Append(chan[x][y], m)]
    BY <1>2 DEF retryBlock
  <1>4. x # Author
    BY DEF retryBlock, Unanswered, PathInv, ReceivesNewer
  <1> HIDE DEF m
  <1>5. chan'[Author][d] = chan[Author][d]
    BY <1>1, <1>2, <1>3, <1>4
  <1> QED  BY <1>3, <1>5, FollowSame DEF Edited

LEMMA FollowDrop ==
    ASSUME OneAuthor, Inv, NEW p \in Path, NEW d \in Follower, {d, Author} \in up,
           Asked(d, p), NEW x \in Device, NEW y \in Device, NEW q \in Path, PathInv(q),
           dropIfUnservable(x, y, q)
    PROVE  FollowStep(d, p)
  <1> DEFINE none == <<>>
             old == pend[d][Author][p]
  <1>1. d \in Device /\ Author \in Device
    BY DEF OneAuthor, Follower
  <1>2. /\ pend \in [Device -> [Device -> [Path -> Pending]]]
        /\ chan[Author][d] \in Seq(Message)
    BY <1>1 DEF Inv, TypeOK
  <1>3. /\ UNCHANGED <<file, chan>> /\ pend' = [pend EXCEPT ![x][y][q] = NoPending]
        /\ pend[x][y][q] # NoPending
    BY DEF dropIfUnservable, Unanswered
  <1>4. CASE <<x, y, q>> # <<d, Author, p>>
    <2>1. pend'[d][Author][p] = old
      BY <1>1, <1>2, <1>3, <1>4
    <2> QED  BY <1>3, <2>1, FollowSame DEF Edited
  <1>5. CASE <<x, y, q>> = <<d, Author, p>>
    <2>1. pend'[d][Author][p] = NoPending
      BY <1>1, <1>2, <1>3, <1>5
    <2>2. old \in Item /\ ~old.entry.deleted /\ old.entry # NoEntry
      <3>1. old # NoPending /\ ~old.entry.deleted
        BY <1>1, <1>3, <1>5 DEF PathInv, ReceivesNewer
      <3>2. old \in Pending
        BY <1>1, <1>2
      <3>3. old \in Item
        BY <3>1, <3>2 DEF Pending
      <3> QED  BY <3>1, <3>3, EntryIsNoGap DEF Item
    <2>0. file[Author][p].disk # old.entry.content
      <3>1. /\ \A m \in Range(chan[d][Author]) : m.type # "block-request"
            /\ \A m \in Range(chan[Author][d]) : m.type # "block-response"
        BY <1>5 DEF dropIfUnservable, Unanswered, Range
      <3> QED  BY <1>3, <1>5, <3>1 DEF Asked, Asks, Answers
    <2>3. old.entry = file[Author][p].index => Edited(p)'
      BY <1>3, <2>0, <2>2 DEF Edited
    <2>4. none \in Seq(Message) /\ chan'[Author][d] = chan[Author][d] \o none
      BY <1>2, <1>3
    <2>5. Range(none) = {}
      BY RangeOfOne
    <2>6. Edited(p) => Edited(p)'
      BY <1>3 DEF Edited
    <2> HIDE DEF none
    <2>7. Adds(d, p)
      BY <1>3, <2>1, <2>3, <2>4, <2>5, <2>6 DEF Adds
    <2> QED  BY <2>7 DEF FollowStep
  <1> QED  BY <1>4, <1>5

LEMMA FollowRequest ==
    ASSUME OneAuthor, Inv, NEW p \in Path, NEW d \in Follower, {d, Author} \in up,
           NEW x \in Device, NEW y \in Device, handleBlockRequest(x, y)
    PROVE  FollowStep(d, p)
  <1> DEFINE m == Head(chan[y][x])
             data == file[x][m.path].disk
             answer == BlockResponse(m.path, m.hash, data)
             reply == IF data = NoFile THEN <<>> ELSE <<answer>>
             none == <<>>
  <1>1. UNCHANGED <<file, pend, clock>>
    BY DEF handleBlockRequest
  <1>2. chan[y][x] # <<>> /\ m \in Message /\ m.type = "block-request"
    BY ReceivedFacts DEF handleBlockRequest, Received
  <1>3. m.path \in Path /\ m.hash \in Content
    BY <1>2 DEF Message
  <1>4. data \in Content \cup {NoFile}
    BY <1>3 DEF Inv, TypeOK, FileState
  <1>5. reply \in Seq(Message)
    <2>1. data # NoFile => answer \in Message
      <3> HIDE DEF m, data
      <3> QED  BY <1>3, <1>4, MessageTypes
    <2> HIDE DEF answer, data
    <2> QED  BY <2>1
  <1>6. Deliver(x, y, reply, none)
    BY Zenon DEF handleBlockRequest
  <1>7. Range(none) = {} /\ none \in Seq(Message)
    <2>1. Range(none) = {}
      BY RangeOfOne
    <2> QED  BY <2>1
  <1>8. \A n \in Range(reply) : n.type = "block-response"
    <2>1. answer.type = "block-response"
      BY DEF BlockResponse
    <2> HIDE DEF answer, data
    <2> QED  BY <2>1, RangeOfOne
  <1> HIDE DEF reply, data, answer, none
  <1>9. /\ x = d /\ y = Author => chan'[Author][d] = Tail(chan[Author][d])
        /\ ~(x = d /\ y = Author) =>
              \E s \in Seq(Message) :
                 /\ chan'[Author][d] = chan[Author][d] \o s
                 /\ s = <<>> \/ (x = Author /\ (s = reply \/ s = none))
    BY <1>2, <1>5, <1>6, <1>7, DeliverAt, Zenon
  <1>10. CASE x = d /\ y = Author
    <2>1. Takes(d, p)
      BY <1>1, <1>2, <1>9, <1>10 DEF Takes
    <2> QED  BY <2>1 DEF FollowStep
  <1>11. CASE ~(x = d /\ y = Author)
    <2>1. PICK s \in Seq(Message) :
              /\ chan'[Author][d] = chan[Author][d] \o s
              /\ s = <<>> \/ (x = Author /\ (s = reply \/ s = none))
      BY <1>9, <1>11
    <2>2. \A n \in Range(s) : n.type # "index"
      BY <1>7, <1>8, <2>1 DEF none
    <2>3. Edited(p) => Edited(p)'
      BY <1>1 DEF Edited
    <2>4. Adds(d, p)
      BY <1>1, <2>1, <2>2, <2>3 DEF Adds
    <2> QED  BY <2>4 DEF FollowStep
  <1> QED  BY <1>10, <1>11

LEMMA FollowResponse ==
    ASSUME OneAuthor, Inv, NEW p \in Path, \A q \in Path : PathInv(q), NEW d \in Follower,
           {d, Author} \in up, NEW x \in Device, NEW y \in Device, onBlockResponse(x, y)
    PROVE  FollowStep(d, p)
  <1> DEFINE m == Head(chan[y][x])
             q == m.path
             item == pend[x][y][q]
             accepted == item # NoPending /\ m.hash = item.entry.content /\ m.data = m.hash
             none == <<>>
  <1>0. d \in Device /\ Author \in Device /\ d # Author /\ Upstream[d] = Author
    BY DEF OneAuthor, Follower
  <1>1. UNCHANGED clock /\ Deliver(x, y, none, none)
    BY ZenonT(60) DEF onBlockResponse
  <1>2. chan[y][x] # <<>> /\ m \in Message /\ m.type = "block-response"
    BY ReceivedFacts, Zenon DEF onBlockResponse, Received
  <1>3. q \in Path
    BY <1>2 DEF Message
  <1>4. /\ file \in [Device -> [Path -> FileState]]
        /\ pend \in [Device -> [Device -> [Path -> Pending]]]
    BY DEF Inv, TypeOK
  <1>5. /\ accepted => /\ file' = [file EXCEPT ![x][q] = Land(file[x][q], item)]
                       /\ pend' = [pend EXCEPT ![x][y][q] = NoPending]
        /\ ~accepted => file' = file /\ pend' = pend
    BY <1>3, <1>4, Zenon DEF onBlockResponse
  <1>6. none \in Seq(Message)
    OBVIOUS
  <1>7. /\ x = d /\ y = Author => chan'[Author][d] = Tail(chan[Author][d])
        /\ ~(x = d /\ y = Author) => chan'[Author][d] = chan[Author][d]
    <2> HIDE DEF none, m, item, accepted
    <2>1. /\ x = d /\ y = Author => chan'[Author][d] = Tail(chan[Author][d])
          /\ ~(x = d /\ y = Author) =>
              \E s \in Seq(Message) :
                 /\ chan'[Author][d] = chan[Author][d] \o s
                 /\ s = <<>> \/ (x = Author /\ (s = none \/ s = none))
      BY <1>1, <1>2, <1>6, DeliverAt
    <2>2. chan[Author][d] \in Seq(Message)
      BY <1>0 DEF Inv, TypeOK
    <2>3. chan[Author][d] \o <<>> = chan[Author][d]
      BY <2>2
    <2> QED  BY <2>1, <2>3 DEF none
  <1>8. item # NoPending => x # Author /\ y = Upstream[x] /\ item.kind = "receive"
    BY <1>3 DEF PathInv, ReceivesNewer
  <1> DEFINE landed == Land(file[x][q], item)
  <1>9. accepted => landed.index = item.entry
    <2> SUFFICES ASSUME accepted PROVE landed.index = item.entry
      BY Zenon
    <2>1. landed = finalizeReceive(file[x][q], item.entry)
      BY <1>8, Zenon DEF Land
    <2>2. file[x][q] \in FileState
      BY <1>3, <1>4
    <2> HIDE DEF item, landed, accepted, q
    <2> QED  BY <2>1, <2>2 DEF finalizeReceive, snapshotVersion, preserveLocalAsConflict, FileState
  <1> HIDE DEF landed
  <1>10. /\ accepted => /\ \A u \in Device, r \in Path :
                              file'[u][r] = IF u = x /\ r = q THEN landed ELSE file[u][r]
                        /\ \A u, v \in Device, r \in Path :
                              pend'[u][v][r] = IF u = x /\ v = y /\ r = q THEN NoPending
                                               ELSE pend[u][v][r]
    <2> SUFFICES ASSUME accepted
                 PROVE  /\ \A u \in Device, r \in Path :
                              file'[u][r] = IF u = x /\ r = q THEN landed ELSE file[u][r]
                        /\ \A u, v \in Device, r \in Path :
                              pend'[u][v][r] = IF u = x /\ v = y /\ r = q THEN NoPending
                                               ELSE pend[u][v][r]
      OBVIOUS
    <2>1. file' = [file EXCEPT ![x][q] = landed] /\ pend' = [pend EXCEPT ![x][y][q] = NoPending]
      BY <1>5, Zenon DEF landed
    <2> HIDE DEF accepted, item, q
    <2> QED  BY <1>3, <1>4, <2>1
  <1>11. CASE x = d /\ y = Author
    <2>1. file'[Author][p] = file[Author][p]
      <3> HIDE DEF accepted, item, q, m
      <3> QED  BY <1>0, <1>5, <1>10, <1>11
    <2>2. \/ file'[d][p].index = file[d][p].index /\ pend'[d][Author][p] = pend[d][Author][p]
          \/ /\ pend[d][Author][p] # NoPending
             /\ file'[d][p].index = pend[d][Author][p].entry /\ pend'[d][Author][p] = NoPending
      <3>1. CASE accepted /\ q = p
        BY <1>0, <1>9, <1>10, <1>11, <3>1, Zenon
      <3>2. CASE ~accepted \/ q # p
        BY <1>0, <1>5, <1>10, <1>11, <3>2, Zenon
      <3> QED  BY <3>1, <3>2
    <2>3. Head(chan[Author][d]).type # "index" /\ chan[Author][d] # <<>>
      BY <1>2, <1>11
    <2> HIDE DEF accepted, item, q, m
    <2>4. Takes(d, p)
      BY <1>7, <1>11, <2>1, <2>2, <2>3 DEF Takes
    <2> QED  BY <2>4 DEF FollowStep
  <1>12. CASE ~(x = d /\ y = Author)
    <2>1. accepted => x # Author /\ x # d
      BY <1>0, <1>8, <1>12
    <2>2. /\ file'[Author][p] = file[Author][p] /\ file'[d][p] = file[d][p]
          /\ pend'[d][Author][p] = pend[d][Author][p]
      BY <1>0, <1>5, <1>10, <2>1, ZenonT(40)
    <2> HIDE DEF accepted, item, q, m
    <2> QED  BY <1>7, <1>12, <2>2, FollowSame DEF Edited
  <1> QED  BY <1>11, <1>12

(* What an index message that mentions a path makes of it is what the plan *)
(* of the path says.                                                       *)
LEMMA IndexPlanned ==
    ASSUME Inv, NEW d \in Device, NEW e \in Device, onPeerIndex(d, e), NEW p \in Path
    PROVE  LET m == Head(chan[e][d])
               planned == planPath(file[d][p].index, m.entries[p])
           IN  \E action \in {"none", planned} :
                  LET o == Outcome(d, e, p, action, m.entries[p], m.full, m.relayed)
                  IN  /\ m.entries[p] # NoEntry => action = planned
                      /\ file'[d][p] = o.file /\ pend'[d][e][p] = o.pend
  <1> DEFINE m == Head(chan[e][d])
             outcome == PlannedOutcome(d, e, m)
             plan == IF m.full THEN buildPlan(LocalIndex(d), m.entries)
                               ELSE buildDeltaPlan(LocalIndex(d), m.entries)
             chosen == IF p \in DOMAIN plan THEN plan[p] ELSE "none"
             planned == planPath(file[d][p].index, m.entries[p])
             files == [q \in Path |-> outcome[q].file]
             pends == [q \in Path |-> outcome[q].pend]
             o == Outcome(d, e, p, chosen, m.entries[p], m.full, m.relayed)
  <1>1. m \in Message /\ m.type = "index"
    BY ReceivedFacts, Zenon DEF onPeerIndex, Received
  <1>2. m.entries \in [Path -> MaybeEntry]
    BY <1>1 DEF Message
  <1>3. chosen \in {"none", planned} /\ (m.entries[p] # NoEntry => chosen = planned)
    <2>1. LocalIndex(d) = [q \in Path |-> file[d][q].index]
      BY Zenon DEF LocalIndex
    <2>2. chosen \in {"none", planned}
      BY <1>2, <2>1, Zenon DEF buildPlan, buildDeltaPlan, Mentioned
    <2>3. ASSUME m.entries[p] # NoEntry
          PROVE  p \in DOMAIN plan
      <3>1. p \in Mentioned(m.entries)
        BY <1>2, <2>3 DEF Mentioned
      <3> HIDE DEF m
      <3>2. p \in DOMAIN buildPlan(LocalIndex(d), m.entries)
        BY <3>1, Zenon DEF buildPlan
      <3>3. p \in DOMAIN buildDeltaPlan(LocalIndex(d), m.entries)
        BY <3>1, Zenon DEF buildDeltaPlan
      <3> QED  BY <3>2, <3>3
    <2>4. p \in DOMAIN plan => plan[p] = planned
      BY <1>2, <2>1, Zenon DEF buildPlan, buildDeltaPlan, Mentioned
    <2> HIDE DEF plan, planned, m
    <2> QED  BY <2>2, <2>3, <2>4
  <1>4. file' = [file EXCEPT ![d] = files] /\ pend' = [pend EXCEPT ![d][e] = pends]
    <2> DEFINE effect(r) == /\ file' = [file EXCEPT ![d] = [q \in Path |-> r[q].file]]
                            /\ pend' = [pend EXCEPT ![d][e] = [q \in Path |-> r[q].pend]]
    <2>1. \E r \in {PlannedOutcome(d, e, m)} : effect(r)
      BY Zenon DEF onPeerIndex
    <2> HIDE DEF effect
    <2>2. effect(outcome)
      BY <2>1
    <2> QED  BY <2>2, Zenon DEF effect
  <1>5. outcome[p] = o
    BY DEF PlannedOutcome
  <1>6. /\ file \in [Device -> [Path -> FileState]]
        /\ pend \in [Device -> [Device -> [Path -> Pending]]]
    BY DEF Inv, TypeOK
  <1>7. files[p] = o.file /\ pends[p] = o.pend
    <2> HIDE DEF o, outcome
    <2> QED  BY <1>5
  <1> HIDE DEF files, pends, o
  <1>8. file'[d][p] = o.file /\ pend'[d][e][p] = o.pend
    BY <1>4, <1>6, <1>7
  <1> HIDE DEF m, chosen, planned
  <1> QED  BY <1>3, <1>8, Zenon DEF o, m, planned

(* A newer entry from upstream is never refused, and an older one or none  *)
(* leaves the receive under way.                                           *)
LEMMA OutcomeTold ==
    ASSUME OneAuthor, Inv, ClaimServed, NEW p \in Path, PathInv(p), NEW d \in Device, NEW e \in Device,
           d # Author, e = Upstream[d], NEW remote \in Known(p) \cup {NoEntry}, NEW relayed,
           NEW full, full => pend[d][e][p] = NoPending,
           NEW action \in {"none", planPath(file[d][p].index, remote)},
           remote # NoEntry => action = planPath(file[d][p].index, remote)
    PROVE  LET o == Outcome(d, e, p, action, remote, full, relayed)
           IN  IF remote # NoEntry /\ Stamp(remote) > StampOf(d, p)
               THEN Deletes(d, p, remote, o) \/ Receives(d, p, remote, o)
               ELSE o.file = file[d][p] /\ o.pend = pend[d][e][p]
  <1> DEFINE local == file[d][p].index
             o == Outcome(d, e, p, action, remote, full, relayed)
  <1>1. local \in Known(p) \cup {NoEntry}
    BY KnownParts
  <1>2. compareFileState(local, remote) = IF Stamp(local) = Stamp(remote) THEN "equal"
                                          ELSE IF Stamp(local) > Stamp(remote) THEN "local-newer"
                                          ELSE "remote-newer"
    BY <1>1, CompareStamps
  <1>3. Stamp(local) \in Nat /\ Stamp(remote) \in Nat /\ Stamp(NoEntry) = 0 /\ StampOf(d, p) = Stamp(local)
    BY <1>1, StampFacts DEF PathInv, Stamp, StampOf
  <1>4. CASE remote # NoEntry /\ Stamp(remote) > StampOf(d, p)
    <2>1. compareFileState(local, remote) = "remote-newer"
      BY <1>2, <1>3, <1>4
    <2>2. action = IF remote.deleted THEN "delete" ELSE "receive"
      BY <1>4, <2>1 DEF planPath
    <2>3. Claimable(d, e, p, remote)
      <3> SUFFICES ASSUME claim[d][p] # NoClaim PROVE claim[d][p].holder = e
        BY DEF Claimable
      <3>1. claim[d][p].holder \in Device
        BY DEF Inv, TypeOK, Claim
      <3>2. pend[d][claim[d][p].holder][p] # NoPending
        BY DEF ClaimServed
      <3> QED  BY <3>1, <3>2 DEF PathInv, ReceivesNewer
    <2>4. o.landed = remote
      <3>1. CASE remote.deleted
        <4>1. o = DropStale(Delete(d, e, p, remote), e, full)
          BY <2>2, <3>1 DEF Outcome
        <4>2. Delete(d, e, p, remote).landed = remote
          BY <2>1 DEF Delete, Idle
        <4> QED  BY <4>1, <4>2 DEF DropStale
      <3>2. CASE ~remote.deleted
        <4>1. o = DropStale(Open(d, e, p, "receive", remote), e, full)
          BY <2>2, <2>3, <3>2 DEF Outcome
        <4>2. Open(d, e, p, "receive", remote).landed = remote
          BY DEF Open, Idle
        <4> QED  BY <4>1, <4>2 DEF DropStale
      <3> QED  BY <3>1, <3>2
    <2>5. Quiet(d, e, p, o) \/ Deletes(d, p, remote, o) \/ Receives(d, p, remote, o)
      BY OutcomeCases
    <2> HIDE DEF o
    <2> QED  BY <1>4, <2>4, <2>5 DEF Quiet, o
  <1>5. CASE ~(remote # NoEntry /\ Stamp(remote) > StampOf(d, p))
    <2>1. compareFileState(local, remote) \in {"equal", "local-newer"}
      BY <1>2, <1>3, <1>5
    <2>2. action \in {"none", "send", "delete"}
      BY <2>1 DEF planPath
    <2>3. action = "delete" => compareFileState(local, remote) = "local-newer"
      BY <2>1 DEF planPath
    <2>4. o \in {DropStale(Idle(d, e, p), e, full), DropStale(Send(d, e, p), e, full)}
      BY <2>2, <2>3 DEF Outcome, Delete
    <2>5. /\ Idle(d, e, p).file = file[d][p] /\ Idle(d, e, p).pend = pend[d][e][p]
          /\ Send(d, e, p).file = file[d][p] /\ Send(d, e, p).pend = pend[d][e][p]
      BY DEF Idle, Send
    <2>6. o \in {Idle(d, e, p), Send(d, e, p)}
      BY <2>4, <2>5 DEF DropStale
    <2> HIDE DEF o
    <2> QED  BY <1>5, <2>5, <2>6 DEF o
  <1> QED  BY <1>4, <1>5

----------------------------------------------------------------------------
(* An index of the author at d is taken in full, any other one leaves the *)
(* path of both devices alone.                                             *)
LEMMA FollowTaken ==
    ASSUME OneAuthor, Inv, ClaimServed, NEW p \in Path, PathInv(p), NEW d \in Follower, Follows(d, p),
           {d, Author} \in up, onPeerIndex(d, Author)
    PROVE  FollowStep(d, p)
  <1> DEFINE m == Head(chan[Author][d])
             a == m.entries[p]
             old == pend[d][Author][p]
  <1>1. d \in Device /\ Author \in Device /\ d # Author /\ Upstream[d] = Author
    BY DEF OneAuthor, Follower
  <1>2. chan[Author][d] # <<>> /\ m.type = "index"
    BY <1>1, ReceivedFacts, Zenon DEF onPeerIndex, Received
  <1>3. PICK action \in {"none", planPath(file[d][p].index, a)} :
            LET o == Outcome(d, Author, p, action, a, m.full, m.relayed)
            IN  /\ a # NoEntry => action = planPath(file[d][p].index, a)
                /\ file'[d][p] = o.file /\ pend'[d][Author][p] = o.pend
    BY <1>1, IndexPlanned
  <1> DEFINE o == Outcome(d, Author, p, action, a, m.full, m.relayed)
  <1>4. /\ chan'[Author][d] = Tail(chan[Author][d])
        /\ file'[Author][p] = file[Author][p]
    <2>1. PICK outcome, reply, relay :
                     /\ \A q \in Path :
                           /\ GoodOutcome(d, Author, q, m.entries[q], outcome[q])
                           /\ \E act \in {"none", planPath(file[d][q].index, m.entries[q])} :
                                 outcome[q] = Outcome(d, Author, q, act, m.entries[q], m.full, m.relayed)
                     /\ file' = [file EXCEPT ![d] = [q \in Path |-> outcome[q].file]]
                     /\ pend' = [pend EXCEPT ![d][Author] = [q \in Path |-> outcome[q].pend]]
                     /\ claim' = [claim EXCEPT ![d] = [q \in Path |-> outcome[q].claim]]
                     /\ Deliver(d, Author, reply, relay)
                     /\ reply \in Seq(Message) /\ relay \in Seq(Message)
                     /\ \A n \in Range(reply) :
                           \/ n.type = "block-request"
                           \/ n = IndexMessage([q \in Path |-> outcome[q].send], FALSE, FALSE)
                     /\ \A n \in Range(relay) :
                           n = IndexMessage([q \in Path |-> outcome[q].landed], FALSE, TRUE)
      BY <1>1, IndexEffect, Zenon
    <2>2. chan'[Author][d] = Tail(chan[Author][d])
      BY <1>1, <1>2, <2>1, DeliverAt
    <2>3. file \in [Device -> [Path -> FileState]]
      BY DEF Inv, TypeOK
    <2> QED  BY <1>1, <2>1, <2>2, <2>3
  <1>5. a \in Known(p) \cup {NoEntry}
    <2>1. m \in Range(chan[Author][d])
      BY <1>1, <1>2, FirstMessage, Zenon
    <2> HIDE DEF m
    <2>2. m.entries[p] \in Announced(Author, d, p)
      BY <1>1, <1>2, <2>1, MessageParts
    <2> QED  BY <1>1, <2>2, KnownParts
  <1>6. m.full => old = NoPending
    <2>1. chan[Author][d] \in Seq(Message)
      BY <1>1 DEF Inv, TypeOK
    <2>2. 1 \in DOMAIN chan[Author][d] /\ chan[Author][d][1] = m
      BY <1>2, <2>1
    <2> HIDE DEF m
    <2> QED  BY <1>2, <2>2 DEF Follows, InOrder
  <1>7. IF a # NoEntry /\ Stamp(a) > StampOf(d, p)
        THEN Deletes(d, p, a, o) \/ Receives(d, p, a, o)
        ELSE o.file = file[d][p] /\ o.pend = old
    <2> HIDE DEF m, a
    <2>1. a # NoEntry => action = planPath(file[d][p].index, a)
      BY <1>3
    <2>2. d \in Device /\ Author \in Device /\ d # Author
      BY <1>1
    <2>3. Author = Upstream[d]
      BY <1>1
    <2>4. PICK e, full, relayed, entry :
              e = Author /\ full = m.full /\ relayed = m.relayed /\ entry = a
      OBVIOUS
    <2>5. e \in Device /\ e = Upstream[d] /\ (full => pend[d][e][p] = NoPending)
      BY <1>6, <2>2, <2>3, <2>4
    <2>6. /\ entry \in Known(p) \cup {NoEntry}
          /\ action \in {"none", planPath(file[d][p].index, entry)}
          /\ entry # NoEntry => action = planPath(file[d][p].index, entry)
      BY <1>5, <2>1, <2>4
    <2> HIDE DEF o
    <2>7. LET r == Outcome(d, e, p, action, entry, full, relayed)
          IN  IF entry # NoEntry /\ Stamp(entry) > StampOf(d, p)
              THEN Deletes(d, p, entry, r) \/ Receives(d, p, entry, r)
              ELSE r.file = file[d][p] /\ r.pend = pend[d][e][p]
      BY <2>2, <2>5, <2>6, OutcomeTold
    <2> QED  BY <2>4, <2>7 DEF o
  <1>8. file'[d][p] = o.file /\ pend'[d][Author][p] = o.pend
    BY <1>3
  <1>9. file[d][p] \in FileState
    BY <1>1 DEF Inv, TypeOK
  <1> HIDE DEF o, a
  <1>10. CASE ~(a # NoEntry /\ Stamp(a) > StampOf(d, p))
    <2>1. file'[d][p].index = file[d][p].index /\ pend'[d][Author][p] = old
      BY <1>7, <1>8, <1>10
    <2>2. Takes(d, p)
      BY <1>2, <1>4, <1>10, <2>1 DEF Takes, a
    <2> QED  BY <2>2 DEF FollowStep
  <1>11. CASE (a # NoEntry /\ Stamp(a) > StampOf(d, p)) /\ Deletes(d, p, a, o)
    <2>1. file'[d][p].index = a /\ pend'[d][Author][p] = NoPending
      BY <1>8, <1>9, <1>11 DEF Deletes, applyDelete, FileState
    <2>2. Takes(d, p)
      BY <1>2, <1>4, <1>11, <2>1 DEF Takes, a
    <2> QED  BY <2>2 DEF FollowStep
  <1>12. CASE (a # NoEntry /\ Stamp(a) > StampOf(d, p)) /\ Receives(d, p, a, o)
    <2> DEFINE item == [kind |-> "receive", entry |-> a]
    <2>1. file'[d][p].index = file[d][p].index /\ pend'[d][Author][p] = item
      BY <1>8, <1>12 DEF Receives
    <2>2. item.entry = a /\ item # NoPending
      <3>1. a \in Known(p)
        BY <1>5, <1>12
      <3>2. a \in Entry
        BY <1>1, <3>1, StampFacts DEF PathInv
      <3>3. item \in Item
        BY <3>2 DEF Item
      <3> QED  BY <3>3, ItemIsNoGap
    <2> HIDE DEF item
    <2>3. Takes(d, p)
      BY <1>2, <1>4, <1>12, <2>1, <2>2 DEF Takes, a
    <2> QED  BY <2>3 DEF FollowStep
  <1> QED  BY <1>7, <1>10, <1>11, <1>12

LEMMA FollowIndex ==
    ASSUME OneAuthor, Inv, ClaimServed, NEW p \in Path, PathInv(p), NEW d \in Follower, Follows(d, p),
           {d, Author} \in up, NEW x \in Device, NEW y \in Device, onPeerIndex(x, y)
    PROVE  FollowStep(d, p)
  <1>1. CASE x = d /\ y = Author
    BY <1>1, FollowTaken
  <1>2. CASE ~(x = d /\ y = Author)
    <2> DEFINE m == Head(chan[y][x])
               remote == m.entries[p]
    <2>1. chan[y][x] # <<>> /\ m \in Message /\ m.type = "index"
      BY IndexEffect, Zenon
    <2>2. PICK outcome, reply, relay :
                     /\ \A q \in Path :
                           /\ GoodOutcome(x, y, q, m.entries[q], outcome[q])
                           /\ \E action \in {"none", planPath(file[x][q].index, m.entries[q])} :
                                 outcome[q] = Outcome(x, y, q, action, m.entries[q], m.full, m.relayed)
                     /\ file' = [file EXCEPT ![x] = [q \in Path |-> outcome[q].file]]
                     /\ pend' = [pend EXCEPT ![x][y] = [q \in Path |-> outcome[q].pend]]
                     /\ claim' = [claim EXCEPT ![x] = [q \in Path |-> outcome[q].claim]]
                     /\ Deliver(x, y, reply, relay)
                     /\ reply \in Seq(Message) /\ relay \in Seq(Message)
                     /\ \A n \in Range(reply) :
                           \/ n.type = "block-request"
                           \/ n = IndexMessage([q \in Path |-> outcome[q].send], FALSE, FALSE)
                     /\ \A n \in Range(relay) :
                           n = IndexMessage([q \in Path |-> outcome[q].landed], FALSE, TRUE)
      BY IndexEffect, Zenon
    <2> DEFINE o == outcome[p]
    <2>3. m \in Range(chan[y][x]) /\ {x, y} \in Link
      BY <2>1, FirstMessage, Zenon
    <2> HIDE DEF m
    <2>4. remote \in Announced(y, x, p)
      BY <2>1, <2>3, MessageParts
    <2>5. remote \in Known(p) \cup {NoEntry}
      BY <2>4, KnownParts
    <2>6. Quiet(x, y, p, o) \/ Deletes(x, p, remote, o) \/ Receives(x, p, remote, o)
      <3>1. PICK action \in {"none", planPath(file[x][p].index, remote)} :
                o = Outcome(x, y, p, action, remote, m.full, m.relayed)
        BY <2>2
      <3> HIDE DEF o, remote
      <3> QED  BY <2>5, <3>1, OutcomeCases
    <2>7. /\ file \in [Device -> [Path -> FileState]]
          /\ pend \in [Device -> [Device -> [Path -> Pending]]]
      BY DEF Inv, TypeOK
    <2>8. /\ d \in Device /\ Author \in Device /\ d # Author /\ Upstream[d] = Author
      BY DEF OneAuthor, Follower
    <2>9. \A z \in Device : file'[z][p] = IF z = x THEN o.file ELSE file[z][p]
      BY <2>2, <2>7
    <2>10. pend'[d][Author][p] = pend[d][Author][p]
      <3> DEFINE pends == [q \in Path |-> outcome[q].pend]
      <3>1. pend' = [pend EXCEPT ![x][y] = pends]
        BY <2>2
      <3> HIDE DEF pends
      <3> QED  BY <1>2, <2>7, <2>8, <3>1
    <2>11. Deliver(x, y, reply, relay) /\ reply \in Seq(Message) /\ relay \in Seq(Message)
      BY <2>2
    <2>12. PICK s \in Seq(Message) :
              /\ chan'[Author][d] = chan[Author][d] \o s
              /\ s = <<>> \/ (x = Author /\ (s = reply \/ s = relay))
      <3> HIDE DEF o, remote
      <3>1. \E s \in Seq(Message) :
              /\ chan'[Author][d] = chan[Author][d] \o s
              /\ s = <<>> \/ (x = Author /\ (s = reply \/ s = relay))
        BY <1>2, <2>1, <2>11, DeliverAt
      <3> QED  BY <3>1
    <2>13. /\ \A n \in Range(reply) : n.type = "index" => ~n.full /\ n.entries[p] = o.send
           /\ \A n \in Range(relay) : n.type = "index" => ~n.full /\ n.entries[p] = o.landed
      BY <2>2 DEF IndexMessage
    <2> HIDE DEF o, remote
    <2>14. x \in {d, Author} => Quiet(x, y, p, o)
      <3> SUFFICES ASSUME x \in {d, Author}, ~Quiet(x, y, p, o) PROVE FALSE
        OBVIOUS
      <3>1. Stamp(remote) > StampOf(x, p)
        BY <2>6 DEF Deletes, Receives
      <3>2. ~(x # Author /\ y = Upstream[x])
        BY <1>2, <2>8
      <3>3. y # Author /\ x = Upstream[y]
        BY <2>3, <3>2, LinkDirection
      <3>4. Stamp(remote) <= StampOf(x, p)
        BY <2>4, <3>3 DEF PathInv, UpstreamLeads
      <3>5. StampOf(x, p) \in Nat /\ Stamp(remote) \in Nat
        BY <2>5, StampFacts DEF PathInv, Stamp
      <3> QED  BY <3>1, <3>4, <3>5
    <2>15. file'[Author][p] = file[Author][p] /\ file'[d][p] = file[d][p]
      BY <2>8, <2>9, <2>14 DEF Quiet
    <2>16. \A n \in Range(s) : n.type = "index"
              => ~n.full /\ n.entries[p] \in {NoEntry, file'[Author][p].index}
      <3>1. CASE s = <<>>
        BY <3>1, RangeOfOne
      <3>2. CASE x = Author /\ (s = reply \/ s = relay)
        <4>1. o.send \in {NoEntry, file'[Author][p].index} /\ o.landed = NoEntry
          BY <2>14, <2>15, <3>2 DEF Quiet
        <4> QED  BY <2>13, <3>2, <4>1
      <3> QED  BY <2>12, <3>1, <3>2
    <2>17. Edited(p) => Edited(p)'
      BY <2>15 DEF Edited
    <2>18. Adds(d, p)
      BY <2>10, <2>12, <2>15, <2>16, <2>17 DEF Adds
    <2> QED  BY <2>18 DEF FollowStep
  <1> QED  BY <1>1, <1>2

(* What a handled message keeps of every channel, and adds to one. *)
LEMMA DeliverKeeps ==
    ASSUME Inv, NEW x \in Device, NEW y \in Device, chan[y][x] # <<>>,
           NEW reply \in Seq(Message), NEW relay \in Seq(Message), Deliver(x, y, reply, relay)
    PROVE  /\ \A u, v \in Device : \A m \in Range(chan[u][v]) :
                 m \in Range(chan'[u][v]) \/ (u = y /\ v = x /\ m = Head(chan[y][x]))
           /\ Range(reply) \subseteq Range(chan'[x][y])
  <1> DEFINE row == [z \in Device |-> IF z = y THEN chan[x][z] \o reply
                                      ELSE IF z \in Neighbour(x) THEN chan[x][z] \o relay
                                      ELSE chan[x][z]]
  <1>1. y # x
    BY ReceivedFacts
  <1>2. chan \in [Device -> [Device -> Seq(Message)]]
    BY DEF Inv, TypeOK
  <1>3. chan' = [[chan EXCEPT ![y][x] = Tail(chan[y][x])] EXCEPT ![x] = row]
    BY <1>1, <1>2 DEF Deliver
  <1>4. /\ chan'[x] = row
        /\ chan'[y][x] = Tail(chan[y][x])
        /\ \A u \in Device \ {x}, v \in Device : <<u, v>> # <<y, x>> => chan'[u][v] = chan[u][v]
    <2> HIDE DEF row
    <2> QED  BY <1>1, <1>2, <1>3
  <1>5. \A z \in Device : row[z] \in {chan[x][z] \o reply, chan[x][z] \o relay, chan[x][z]}
    OBVIOUS
  <1>6. row[y] = chan[x][y] \o reply
    OBVIOUS
  <1> HIDE DEF row
  <1>7. ASSUME NEW u \in Device, NEW v \in Device, NEW m \in Range(chan[u][v])
        PROVE  m \in Range(chan'[u][v]) \/ (u = y /\ v = x /\ m = Head(chan[y][x]))
    <2>1. CASE u = x
      <3>1. /\ Range(chan[x][v]) \subseteq Range(chan[x][v] \o reply)
            /\ Range(chan[x][v]) \subseteq Range(chan[x][v] \o relay)
        BY <1>2, RangeHolds
      <3> QED  BY <1>4, <1>5, <1>7, <2>1, <3>1
    <2>2. CASE u = y /\ v = x
      <3>1. m = Head(chan[y][x]) \/ m \in Range(Tail(chan[y][x]))
        BY <1>2, <1>7, <2>2, RangeOfRest
      <3> QED  BY <1>4, <2>2, <3>1
    <2>3. CASE u # x /\ ~(u = y /\ v = x)
      BY <1>4, <1>7, <2>3
    <2> QED  BY <2>1, <2>2, <2>3
  <1>8. Range(reply) \subseteq Range(chan'[x][y])
    BY <1>2, <1>4, <1>6, RangeHolds
  <1> QED  BY <1>7, <1>8

(* An index message that opens a receive asks for the block of its entry. *)
LEMMA IndexAsks ==
    ASSUME OneAuthor, Inv, NEW p \in Path, PathInv(p), NEW d \in Device, NEW e \in Device,
           onPeerIndex(d, e)
    PROVE  /\ \A x, y \in Device : <<x, y>> # <<d, e>> => pend'[x][y] = pend[x][y]
           /\ \/ pend'[d][e][p] \in {pend[d][e][p], NoPending}
              \/ /\ pend'[d][e][p] # NoPending
                 /\ \E m \in Range(chan'[d][e]) : Asks(m, p, pend'[d][e][p].entry.content)
           /\ \A u, v \in Device : \A m \in Range(chan[u][v]) :
                 m.type = "index" \/ m \in Range(chan'[u][v])
  <1> DEFINE m == Head(chan[e][d])
             remote == m.entries[p]
  <1>1. /\ chan[e][d] # <<>> /\ m \in Message /\ m.type = "index"
        /\ m.entries \in [Path -> MaybeEntry]
    BY IndexDetail, Zenon
  <1>2. PICK outcome, reply, relay :
                     /\ \A q \in Path :
                           /\ GoodOutcome(d, e, q, m.entries[q], outcome[q])
                           /\ \E action \in {"none", planPath(file[d][q].index, m.entries[q])} :
                                 outcome[q] = Outcome(d, e, q, action, m.entries[q], m.full, m.relayed)
                     /\ file' = [file EXCEPT ![d] = [q \in Path |-> outcome[q].file]]
                     /\ pend' = [pend EXCEPT ![d][e] = [q \in Path |-> outcome[q].pend]]
                     /\ claim' = [claim EXCEPT ![d] = [q \in Path |-> outcome[q].claim]]
                     /\ Deliver(d, e, reply, relay)
                     /\ reply \in Seq(Message) /\ relay \in Seq(Message)
                     /\ \A n \in Range(reply) :
                           \/ n.type = "block-request"
                           \/ n = IndexMessage([q \in Path |-> outcome[q].send], FALSE, FALSE)
                     /\ \A n \in Range(relay) :
                           n = IndexMessage([q \in Path |-> outcome[q].landed], FALSE, TRUE)
                     /\ \A q \in Path : outcome[q].request
                           => BlockRequest(q, m.entries[q].content) \in Range(reply)
    BY IndexDetail, Zenon
  <1> DEFINE o == outcome[p]
  <1>3. m \in Range(chan[e][d])
    BY <1>1, FirstMessage, Zenon
  <1>4. Deliver(d, e, reply, relay) /\ reply \in Seq(Message) /\ relay \in Seq(Message)
    BY <1>2
  <1>5. /\ \A u, v \in Device : \A n \in Range(chan[u][v]) :
              n \in Range(chan'[u][v]) \/ (u = e /\ v = d /\ n = m)
        /\ Range(reply) \subseteq Range(chan'[d][e])
    BY <1>1, <1>4, DeliverKeeps, Zenon
  <1>6. \A u, v \in Device : \A n \in Range(chan[u][v]) :
           n.type = "index" \/ n \in Range(chan'[u][v])
    BY <1>1, <1>5, Zenon
  <1> HIDE DEF m
  <1>7. pend \in [Device -> [Device -> [Path -> Pending]]]
    BY DEF Inv, TypeOK
  <1>8. \A x, y \in Device : pend'[x][y] = IF <<x, y>> = <<d, e>> THEN [q \in Path |-> outcome[q].pend]
                                           ELSE pend[x][y]
    <2> DEFINE pends == [q \in Path |-> outcome[q].pend]
    <2>1. pend' = [pend EXCEPT ![d][e] = pends]
      BY <1>2
    <2> HIDE DEF pends
    <2>2. \A x, y \in Device : pend'[x][y] = IF <<x, y>> = <<d, e>> THEN pends ELSE pend[x][y]
      BY <1>7, <2>1
    <2> QED  BY <2>2 DEF pends
  <1>9. pend'[d][e][p] = o.pend
    BY <1>8
  <1>10. remote \in Known(p) \cup {NoEntry}
    <2>1. remote \in Announced(e, d, p)
      BY <1>1, <1>3, MessageParts
    <2> QED  BY <2>1, KnownParts
  <1>11. Quiet(d, e, p, o) \/ Deletes(d, p, remote, o) \/ Receives(d, p, remote, o)
    <2>1. PICK action \in {"none", planPath(file[d][p].index, remote)} :
              o = Outcome(d, e, p, action, remote, m.full, m.relayed)
      BY <1>2
    <2> HIDE DEF o, remote
    <2> QED  BY <1>10, <2>1, OutcomeCases
  <1>12. o.request => BlockRequest(p, remote.content) \in Range(chan'[d][e])
    BY <1>2, <1>5
  <1> HIDE DEF o, remote
  <1>13. CASE Receives(d, p, remote, o)
    <2> DEFINE i == [kind |-> "receive", entry |-> remote]
    <2>1. pend'[d][e][p] = i /\ o.request
      BY <1>9, <1>13 DEF Receives
    <2>2. i # NoPending /\ i.entry = remote
      <3>1. remote \in Entry
        BY <1>13, KnownTyped DEF Receives
      <3>2. i \in Item
        BY <3>1 DEF Item
      <3> QED  BY <3>2, ItemIsNoGap
    <2> HIDE DEF i
    <2>3. Asks(BlockRequest(p, remote.content), p, remote.content)
      BY DEF Asks, BlockRequest
    <2> QED  BY <1>6, <1>8, <1>12, <2>1, <2>2, <2>3
  <1>14. CASE ~Receives(d, p, remote, o)
    BY <1>6, <1>8, <1>9, <1>11, <1>14 DEF Quiet, Deletes
  <1> QED  BY <1>13, <1>14

(* A content the author had once does not come back to its disk.           *)
LEMMA AuthorDisk ==
    ASSUME OneAuthor, Inv, NEW p \in Path, PathInv(p), PathStep(p),
           NEW b \in Known(p), file[Author][p].disk # b.content
    PROVE  file'[Author][p].disk # b.content
  <1>1. Author \in Device
    BY DEF OneAuthor
  <1>2. CASE Edits(p)
    BY <1>2 DEF Edits
  <1>3. CASE Calm(p)
    BY <1>1, <1>3 DEF Calm
  <1>4. CASE Untouched(p)
    <2>1. b.content <= clock /\ b.content \in Nat /\ clock \in Nat
      BY KnownTyped, ClockIsNat, BoundAssumption DEF PathInv, AuthorFirst, Entry, Content
    <2>2. NoFile # b.content /\ clock + 1 # b.content
      BY <2>1, FileAssumption
    <2> QED  BY <1>4, <2>2 DEF Untouched
  <1> QED  BY <1>2, <1>3, <1>4 DEF PathStep

(* What keeps the messages about a receive, or makes up for them, keeps    *)
(* the receive asked for.                                                  *)
LEMMA AskedKeeps ==
    ASSUME OneAuthor, Inv, NEW p \in Path, PathInv(p), PathStep(p), NEW d \in Follower, Asked(d, p),
           pend'[d][Author][p] \in {pend[d][Author][p], NoPending},
           \A m \in Range(chan[d][Author]) :
              \/ m.type # "block-request" \/ m \in Range(chan'[d][Author])
              \/ ~Asks(m, p, pend[d][Author][p].entry.content)
              \/ Asked(d, p)',
           \A m \in Range(chan[Author][d]) :
              \/ m.type # "block-response" \/ m \in Range(chan'[Author][d])
              \/ ~Answers(m, p, pend[d][Author][p].entry.content)
              \/ Asked(d, p)'
    PROVE  Asked(d, p)'
  <1> SUFFICES ASSUME pend'[d][Author][p] # NoPending PROVE Asked(d, p)'
    BY DEF Asked
  <1> DEFINE item == pend[d][Author][p]
             c == item.entry.content
  <1>1. d \in Device /\ Author \in Device
    BY DEF OneAuthor, Follower
  <1>2. item # NoPending /\ pend'[d][Author][p] = item
    OBVIOUS
  <1>3. item.entry \in Known(p)
    <2>1. item \in Item
      BY <1>1, <1>2 DEF Inv, TypeOK, Pending
    <2>2. item.entry # NoEntry
      BY <2>1, EntryIsNoGap DEF Item
    <2> QED  BY <1>1, <1>2, <2>2, KnownParts
  <1>4. CASE \E m \in Range(chan[d][Author]) : Asks(m, p, c)
    BY <1>2, <1>4 DEF Asked, Asks
  <1>5. CASE \E m \in Range(chan[Author][d]) : Answers(m, p, c)
    BY <1>2, <1>5 DEF Asked, Answers
  <1>6. CASE file[Author][p].disk # c
    <2>1. file'[Author][p].disk # c
      BY <1>3, <1>6, AuthorDisk
    <2> QED  BY <1>2, <2>1 DEF Asked
  <1> QED  BY <1>2, <1>4, <1>5, <1>6 DEF Asked

LEMMA AskedRequest ==
    ASSUME OneAuthor, Inv, NEW p \in Path, PathInv(p), PathStep(p), NEW d \in Follower, Asked(d, p),
           NEW x \in Device, NEW y \in Device, handleBlockRequest(x, y)
    PROVE  Asked(d, p)'
  <1> DEFINE m == Head(chan[y][x])
             data == file[x][m.path].disk
             answer == BlockResponse(m.path, m.hash, data)
             reply == IF data = NoFile THEN <<>> ELSE <<answer>>
             none == <<>>
  <1>1. UNCHANGED <<file, pend>>
    BY DEF handleBlockRequest
  <1>2. chan[y][x] # <<>> /\ m \in Message /\ m.type = "block-request"
    BY ReceivedFacts DEF handleBlockRequest, Received
  <1>3. m.path \in Path /\ m.hash \in Content
    BY <1>2 DEF Message
  <1>4. data \in Content \cup {NoFile}
    BY <1>3 DEF Inv, TypeOK, FileState
  <1>5. reply \in Seq(Message)
    <2>1. data # NoFile => answer \in Message
      <3> HIDE DEF m, data
      <3> QED  BY <1>3, <1>4, MessageTypes
    <2> HIDE DEF answer, data
    <2> QED  BY <2>1
  <1>6. Deliver(x, y, reply, none) /\ none \in Seq(Message)
    <2>1. Deliver(x, y, reply, none)
      BY Zenon DEF handleBlockRequest
    <2>2. none \in Seq(Message)
      OBVIOUS
    <2> QED  BY <2>1, <2>2, Zenon
  <1>7. answer.type = "block-response" /\ answer.path = m.path /\ answer.hash = m.hash /\ answer.data = data
    BY DEF BlockResponse
  <1>8. data # NoFile => answer \in Range(reply)
    <2> HIDE DEF answer, data
    <2> QED  BY RangeOfOne
  <1> HIDE DEF reply, answer, none
  <1>9. /\ \A u, v \in Device : \A n \in Range(chan[u][v]) :
              n \in Range(chan'[u][v]) \/ (u = y /\ v = x /\ n = m)
        /\ Range(reply) \subseteq Range(chan'[x][y])
    BY <1>2, <1>5, <1>6, DeliverKeeps, Zenon
  <1>10. d \in Device /\ Author \in Device
    BY DEF OneAuthor, Follower
  <1> DEFINE c == pend[d][Author][p].entry.content
  <1>11. ASSUME x = Author, y = d, m.path = p, m.hash = c
         PROVE  Asked(d, p)'
    <2>1. pend' = pend /\ file'[Author][p].disk = data
      BY <1>1, <1>11
    <2>2. CASE data = c
      <3>1. m.hash # NoFile
        BY <1>3, FileAssumption, BoundAssumption DEF Content
      <3> HIDE DEF data, m
      <3>2. data # NoFile
        BY <1>11, <2>2, <3>1
      <3>3. Answers(answer, p, c) /\ answer \in Range(chan'[Author][d])
        BY <1>7, <1>8, <1>9, <1>11, <2>2, <3>2 DEF Answers
      <3> QED  BY <2>1, <3>3 DEF Asked
    <2>3. CASE data # c
      <3> HIDE DEF data, m
      <3> QED  BY <2>1, <2>3 DEF Asked
    <2> QED  BY <2>2, <2>3
  <1> HIDE DEF data
  <1>12. \A n \in Range(chan[d][Author]) :
            n.type # "block-request" \/ n \in Range(chan'[d][Author]) \/ ~Asks(n, p, c) \/ Asked(d, p)'
    BY <1>9, <1>10, <1>11 DEF Asks
  <1>13. \A n \in Range(chan[Author][d]) :
            n.type # "block-response" \/ n \in Range(chan'[Author][d])
    BY <1>2, <1>9, <1>10
  <1>14. pend'[d][Author][p] = pend[d][Author][p]
    BY <1>1
  <1> QED  BY <1>12, <1>13, <1>14, AskedKeeps

LEMMA AskedResponse ==
    ASSUME OneAuthor, Inv, NEW p \in Path, PathInv(p), PathStep(p), NEW d \in Follower, Asked(d, p),
           NEW x \in Device, NEW y \in Device, onBlockResponse(x, y)
    PROVE  Asked(d, p)'
  <1> DEFINE m == Head(chan[y][x])
             q == m.path
             item == pend[x][y][q]
             accepted == item # NoPending /\ m.hash = item.entry.content /\ m.data = m.hash
             none == <<>>
  <1>1. Deliver(x, y, none, none)
    BY ZenonT(60) DEF onBlockResponse
  <1>2. chan[y][x] # <<>> /\ m \in Message /\ m.type = "block-response"
    BY ReceivedFacts, Zenon DEF onBlockResponse, Received
  <1>3. q \in Path /\ none \in Seq(Message)
    BY <1>2 DEF Message
  <1>4. pend \in [Device -> [Device -> [Path -> Pending]]]
    BY DEF Inv, TypeOK
  <1>5. /\ accepted => pend' = [pend EXCEPT ![x][y][q] = NoPending]
        /\ ~accepted => pend' = pend
    BY <1>3, <1>4, Zenon DEF onBlockResponse
  <1> HIDE DEF none
  <1>6. \A u, v \in Device : \A n \in Range(chan[u][v]) :
           n \in Range(chan'[u][v]) \/ (u = y /\ v = x /\ n = m)
    BY <1>1, <1>2, <1>3, DeliverKeeps, Zenon
  <1>7. d \in Device /\ Author \in Device
    BY DEF OneAuthor, Follower
  <1> DEFINE c == pend[d][Author][p].entry.content
  <1>8. pend'[d][Author][p] \in {pend[d][Author][p], NoPending}
    <2> HIDE DEF accepted, item, q, m
    <2>1. CASE accepted
      <3>1. pend' = [pend EXCEPT ![x][y][q] = NoPending]
        BY <1>5, <2>1
      <3>2. \A u, v \in Device, r \in Path :
               pend'[u][v][r] = IF u = x /\ v = y /\ r = q THEN NoPending ELSE pend[u][v][r]
        BY <1>3, <1>4, <3>1
      <3> QED  BY <1>7, <3>2
    <2>2. CASE ~accepted
      BY <1>5, <2>2
    <2> QED  BY <2>1, <2>2
  <1>9. ASSUME x = d, y = Author, Answers(m, p, c)
        PROVE  Asked(d, p)'
    <2> SUFFICES ASSUME pend'[d][Author][p] # NoPending PROVE FALSE
      BY DEF Asked
    <2>1. q = p /\ item = pend[d][Author][p] /\ m.hash = c /\ m.data = c
      BY <1>9 DEF Answers
    <2>2. item # NoPending
      <3> HIDE DEF accepted, item, q, m
      <3> QED  BY <1>8, <2>1
    <2>3. accepted
      BY <2>1, <2>2
    <2> HIDE DEF accepted, item, q, m
    <2>4. pend'[d][Author][p] = NoPending
      BY <1>3, <1>4, <1>5, <1>7, <1>9, <2>1, <2>3
    <2> QED  BY <2>4
  <1> HIDE DEF accepted, item, q
  <1>10. \A n \in Range(chan[d][Author]) :
            n.type # "block-request" \/ n \in Range(chan'[d][Author])
    BY <1>2, <1>6, <1>7
  <1>11. \A n \in Range(chan[Author][d]) :
            n.type # "block-response" \/ n \in Range(chan'[Author][d]) \/ ~Answers(n, p, c)
               \/ Asked(d, p)'
    BY <1>6, <1>7, <1>9
  <1> HIDE DEF m
  <1> QED  BY <1>8, <1>10, <1>11, AskedKeeps

LEMMA AskedLink ==
    ASSUME OneAuthor, Inv, NEW p \in Path, PathInv(p), PathStep(p), NEW d \in Follower, Asked(d, p),
           NEW x \in Device, NEW y \in Device, Connect(x, y) \/ Disconnect(x, y)
    PROVE  Asked(d, p)'
  <1>1. /\ d \in Device /\ Author \in Device
    BY DEF OneAuthor, Follower
  <1>2. /\ chan \in [Device -> [Device -> Seq(Message)]]
        /\ pend \in [Device -> [Device -> [Path -> Pending]]]
        /\ Author \notin Neighbour(d) => pend[d][Author][p] = NoPending
    BY <1>1, SMTT(40) DEF Inv, TypeOK
  <1>3. CASE Connect(x, y)
    <2> DEFINE m1 == <<IndexMessage(LocalIndex(x), TRUE, FALSE)>>
               m2 == <<IndexMessage(LocalIndex(y), TRUE, FALSE)>>
    <2>1. /\ chan' = [chan EXCEPT ![x][y] = m1, ![y][x] = m2]
          /\ {x, y} \notin up /\ pend' = pend
      BY <1>3 DEF Connect
    <2> HIDE DEF m1, m2
    <2>2. CASE {x, y} = {d, Author}
      <3>1. pend'[d][Author][p] = NoPending
        BY <1>2, <2>1, <2>2 DEF Neighbour
      <3> QED  BY <3>1 DEF Asked
    <2>3. CASE {x, y} # {d, Author}
      <3>1. <<x, y>> \notin {<<Author, d>>, <<d, Author>>}
        BY <2>3
      <3>2. chan'[Author][d] = chan[Author][d] /\ chan'[d][Author] = chan[d][Author]
        BY <1>1, <1>2, <2>1, <3>1
      <3> QED  BY <2>1, <3>2, AskedKeeps
    <2> QED  BY <2>2, <2>3
  <1>4. CASE Disconnect(x, y)
    <2> DEFINE none == [q \in Path |-> NoPending]
               empty == <<>>
    <2>1. /\ chan' = [chan EXCEPT ![x][y] = empty, ![y][x] = empty]
          /\ pend' = [pend EXCEPT ![x][y] = none, ![y][x] = none] /\ x # y
      BY <1>4 DEF Disconnect
    <2>2. none[p] = NoPending
      OBVIOUS
    <2> HIDE DEF none, empty
    <2>3. CASE <<x, y>> \in {<<Author, d>>, <<d, Author>>}
      <3>1. pend'[d][Author] = none
        BY <1>1, <1>2, <2>1, <2>3
      <3> QED  BY <2>2, <3>1 DEF Asked
    <2>4. CASE <<x, y>> \notin {<<Author, d>>, <<d, Author>>}
      <3>1. /\ chan'[Author][d] = chan[Author][d] /\ chan'[d][Author] = chan[d][Author]
            /\ pend'[d][Author] = pend[d][Author]
        BY <1>1, <1>2, <2>1, <2>4
      <3> QED  BY <3>1, AskedKeeps
    <2> QED  BY <2>3, <2>4
  <1> QED  BY <1>3, <1>4

LEMMA AskedScan ==
    ASSUME OneAuthor, Inv, NEW p \in Path, PathInv(p), PathStep(p), NEW d \in Follower, Asked(d, p),
           NEW x \in Device, scanOnce(x)
    PROVE  Asked(d, p)'
  <1> DEFINE m == IndexMessage(Sends(x), FALSE, FALSE)
             row == [e \in Device |-> IF e \in Listeners(x) THEN Append(chan[x][e], m) ELSE chan[x][e]]
  <1>1. d \in Device /\ Author \in Device
    BY DEF OneAuthor, Follower
  <1>2. chan \in [Device -> [Device -> Seq(Message)]]
    BY DEF Inv, TypeOK
  <1>3. chan' = [chan EXCEPT ![x] = row] /\ pend' = pend
    BY DEF scanOnce
  <1>4. \A e \in Device : row[e] \in {Append(chan[x][e], m), chan[x][e]}
    OBVIOUS
  <1>5. m \in Message
    <2>1. Sends(x) \in [Path -> MaybeEntry]
      BY ScanSends
    <2> QED  BY <2>1, MessageTypes
  <1> HIDE DEF row, m
  <1>6. \A u, v \in Device : Range(chan[u][v]) \subseteq Range(chan'[u][v])
    <2> SUFFICES ASSUME NEW u \in Device, NEW v \in Device
                 PROVE  Range(chan[u][v]) \subseteq Range(chan'[u][v])
      OBVIOUS
    <2>1. CASE u = x
      <3>1. chan'[u][v] \in {Append(chan[u][v], m), chan[u][v]}
        BY <1>2, <1>3, <1>4, <2>1
      <3>2. Range(chan[u][v]) \subseteq Range(Append(chan[u][v], m))
        BY <1>2, <1>5, RangeKept
      <3> QED  BY <3>1, <3>2
    <2>2. CASE u # x
      BY <1>2, <1>3, <2>2
    <2> QED  BY <2>1, <2>2
  <1> QED  BY <1>1, <1>3, <1>6, AskedKeeps

LEMMA AskedRetry ==
    ASSUME OneAuthor, Inv, NEW p \in Path, PathInv(p), PathStep(p), NEW d \in Follower, Asked(d, p),
           NEW x \in Device, NEW y \in Device, NEW q \in Path, retryBlock(x, y, q)
    PROVE  Asked(d, p)'
  <1> DEFINE m == BlockRequest(q, pend[x][y][q].entry.content)
  <1>1. d \in Device /\ Author \in Device
    BY DEF OneAuthor, Follower
  <1>2. /\ chan \in [Device -> [Device -> Seq(Message)]]
        /\ pend[x][y][q] \in Pending
    BY DEF Inv, TypeOK
  <1>3. pend' = pend /\ chan' = [chan EXCEPT ![x][y] = Append(chan[x][y], m)]
    BY <1>2 DEF retryBlock
  <1>4. m \in Message
    <2>1. pend[x][y][q] \in Item
      BY <1>2 DEF retryBlock, Unanswered, Pending
    <2>2. pend[x][y][q].entry.content \in Content
      BY <2>1 DEF Item, Entry
    <2> QED  BY <2>2, MessageTypes
  <1> HIDE DEF m
  <1>5. \A u, v \in Device : Range(chan[u][v]) \subseteq Range(chan'[u][v])
    <2>1. Range(chan[x][y]) \subseteq Range(Append(chan[x][y], m))
      BY <1>2, <1>4, RangeKept
    <2>2. \A u, v \in Device : chan'[u][v] = IF u = x /\ v = y THEN Append(chan[x][y], m) ELSE chan[u][v]
      BY <1>2, <1>3
    <2> QED  BY <2>1, <2>2
  <1> QED  BY <1>1, <1>3, <1>5, AskedKeeps

LEMMA AskedIndex ==
    ASSUME OneAuthor, Inv, NEW p \in Path, PathInv(p), PathStep(p), NEW d \in Follower, Asked(d, p),
           NEW x \in Device, NEW y \in Device, onPeerIndex(x, y)
    PROVE  Asked(d, p)'
  <1>1. d \in Device /\ Author \in Device
    BY DEF OneAuthor, Follower
  <1>2. /\ \A u, v \in Device : <<u, v>> # <<x, y>> => pend'[u][v] = pend[u][v]
        /\ \/ pend'[x][y][p] \in {pend[x][y][p], NoPending}
           \/ /\ pend'[x][y][p] # NoPending
              /\ \E m \in Range(chan'[x][y]) : Asks(m, p, pend'[x][y][p].entry.content)
        /\ \A u, v \in Device : \A m \in Range(chan[u][v]) :
              m.type = "index" \/ m \in Range(chan'[u][v])
    BY IndexAsks
  <1>3. CASE pend'[d][Author][p] \in {pend[d][Author][p], NoPending}
    BY <1>1, <1>2, <1>3, AskedKeeps
  <1>4. CASE pend'[d][Author][p] \notin {pend[d][Author][p], NoPending}
    <2>1. x = d /\ y = Author
      BY <1>1, <1>2, <1>4
    <2> QED  BY <1>2, <1>4, <2>1 DEF Asked
  <1> QED  BY <1>3, <1>4

LEMMA AskedNext ==
    ASSUME OneAuthor, Inv, AuthorInv, AskedInv, [Next]_vars
    PROVE  AskedInv'
  <1> SUFFICES ASSUME NEW d \in Follower, NEW p \in Path PROVE Asked(d, p)'
    BY DEF AskedInv, Follower
  <1>1. Asked(d, p) /\ PathInv(p) /\ d \in Device /\ Author \in Device /\ d # Author
    BY DEF AskedInv, AuthorInv, OneAuthor, Follower
  <1>2. Next => PathStep(p)
    BY AuthorNext
  <1>3. CASE \E x \in Device, q \in Path : Write(x, q) \/ Unlink(x, q)
    <2>1. pend' = pend /\ chan' = chan /\ PathStep(p)
      BY <1>2, <1>3, Zenon DEF Next, Write, Unlink
    <2> QED  BY <1>1, <2>1, AskedKeeps
  <1>4. CASE \E x \in Device : scanOnce(x)
    <2>1. PICK x \in Device : scanOnce(x)
      BY <1>4
    <2>2. PathStep(p)
      BY <1>2, <2>1, Zenon DEF Next
    <2> QED  BY <1>1, <2>1, <2>2, AskedScan
  <1>5. CASE \E x, y \in Device : Connect(x, y) \/ Disconnect(x, y)
    <2>1. PathStep(p)
      BY <1>2, <1>5, Zenon DEF Next
    <2> QED  BY <1>1, <1>5, <2>1, AskedLink
  <1>6. CASE \E x, y \in Device : onPeerIndex(x, y)
    <2>1. PathStep(p)
      BY <1>2, <1>6, Zenon DEF Next, Handle
    <2> QED  BY <1>1, <1>6, <2>1, AskedIndex
  <1>7. CASE \E x, y \in Device : handleBlockRequest(x, y)
    <2>1. PathStep(p)
      BY <1>2, <1>7, Zenon DEF Next, Handle
    <2> QED  BY <1>1, <1>7, <2>1, AskedRequest
  <1>8. CASE \E x, y \in Device : onBlockResponse(x, y)
    <2>1. PathStep(p)
      BY <1>2, <1>8, Zenon DEF Next, Handle
    <2> QED  BY <1>1, <1>8, <2>1, AskedResponse
  <1>9. CASE \E x, y \in Device, q \in Path : retryBlock(x, y, q)
    <2>1. PathStep(p)
      BY <1>2, <1>9, Zenon DEF Next
    <2> QED  BY <1>1, <1>9, <2>1, AskedRetry
  <1>10. CASE \E x, y \in Device, q \in Path : dropIfUnservable(x, y, q)
    <2>1. PICK x \in Device, y \in Device, q \in Path : dropIfUnservable(x, y, q)
      BY <1>10
    <2>2. PathStep(p)
      BY <1>2, <2>1, Zenon DEF Next
    <2>3. pend \in [Device -> [Device -> [Path -> Pending]]]
      BY DEF Inv, TypeOK
    <2>4. chan' = chan /\ pend' = [pend EXCEPT ![x][y][q] = NoPending]
      BY <2>1 DEF dropIfUnservable
    <2>5. pend'[d][Author][p] \in {pend[d][Author][p], NoPending}
      BY <1>1, <2>3, <2>4
    <2> QED  BY <1>1, <2>2, <2>4, <2>5, AskedKeeps
  <1>11. CASE \E x \in Device, q \in Path : expireClaim(x, q)
    <2>1. pend' = pend /\ chan' = chan /\ PathStep(p)
      BY <1>2, <1>11, Zenon DEF Next, expireClaim
    <2> QED  BY <1>1, <2>1, AskedKeeps
  <1>12. CASE UNCHANGED vars
    BY <1>1, <1>12 DEF vars, Asked
  <1> QED
    BY <1>3, <1>4, <1>5, <1>6, <1>7, <1>8, <1>9, <1>10, <1>11, <1>12, Zenon DEF Next, Handle

(* FollowInv holds at first, is kept by every step and gives the property. *)
LEMMA FollowNext ==
    ASSUME OneAuthor, Author \notin ReceiveOnly, Inv, AuthorInv, ClaimServed, FollowInv, AskedInv,
           [Next]_vars
    PROVE  FollowInv'
  <1> SUFFICES ASSUME NEW d \in Follower, NEW p \in Path PROVE Follows(d, p)'
    BY DEF FollowInv, Follower
  <1>1. Inv' /\ Follows(d, p) /\ \A q \in Path : PathInv(q)
    BY NextGood DEF GoodStep, FollowInv, AuthorInv
  <1> SUFFICES FollowStep(d, p)
    BY <1>1, FollowKeeps
  <1> SUFFICES ASSUME {d, Author} \in up' PROVE FollowStep(d, p)
    BY DEF FollowStep
  <1>2. CASE \E x \in Device, q \in Path : Write(x, q) \/ Unlink(x, q)
    <2>1. {d, Author} \in up
      BY <1>2 DEF Write, Unlink
    <2> QED  BY <1>1, <1>2, <2>1, FollowUser
  <1>3. CASE \E x \in Device : scanOnce(x)
    <2>1. {d, Author} \in up
      BY <1>3 DEF scanOnce
    <2> QED  BY <1>1, <1>3, <2>1, FollowScan
  <1>4. CASE \E x, y \in Device : Connect(x, y)
    BY <1>4, FollowConnect
  <1>5. CASE \E x, y \in Device : Disconnect(x, y)
    BY <1>5, FollowDisconnect
  <1>6. CASE \E x, y \in Device : onPeerIndex(x, y)
    <2>1. {d, Author} \in up
      BY <1>6, Zenon DEF onPeerIndex
    <2> QED  BY <1>1, <1>6, <2>1, FollowIndex
  <1>7. CASE \E x, y \in Device : handleBlockRequest(x, y)
    <2>1. {d, Author} \in up
      BY <1>7, Zenon DEF handleBlockRequest
    <2> QED  BY <1>7, <2>1, FollowRequest
  <1>8. CASE \E x, y \in Device : onBlockResponse(x, y)
    <2>1. {d, Author} \in up
      BY <1>8, Zenon DEF onBlockResponse
    <2> QED  BY <1>1, <1>8, <2>1, FollowResponse
  <1>9. CASE \E x, y \in Device, q \in Path : retryBlock(x, y, q)
    <2>1. {d, Author} \in up
      BY <1>9 DEF retryBlock
    <2> QED  BY <1>1, <1>9, <2>1, FollowRetry
  <1>10. CASE \E x, y \in Device, q \in Path : dropIfUnservable(x, y, q)
    <2>1. {d, Author} \in up
      BY <1>10 DEF dropIfUnservable
    <2> QED  BY <1>1, <1>10, <2>1, FollowDrop DEF AskedInv
  <1>11. CASE \E x \in Device, q \in Path : expireClaim(x, q)
    <2>1. {d, Author} \in up
      BY <1>11 DEF expireClaim
    <2> QED  BY <1>11, <2>1, FollowSame DEF expireClaim, Edited
  <1>12. CASE UNCHANGED vars
    <2>1. {d, Author} \in up
      BY <1>12 DEF vars
    <2> QED  BY <1>12, <2>1, FollowSame DEF vars, Edited
  <1> QED
    BY <1>2, <1>3, <1>4, <1>5, <1>6, <1>7, <1>8, <1>9, <1>10, <1>11, <1>12, Zenon DEF Next, Handle

LEMMA FollowInit ==
    ASSUME OneAuthor, Init
    PROVE  FollowInv
  <1> SUFFICES ASSUME NEW d \in Follower, NEW p \in Path PROVE Follows(d, p)
    BY DEF FollowInv
  <1>1. d \in Device /\ Author \in Device
    BY DEF OneAuthor, Follower
  <1>2. chan[Author][d] = <<>> /\ pend[d][Author][p] = NoPending /\ up = {}
    BY <1>1 DEF Init
  <1> QED  BY <1>2 DEF Follows, InOrder

LEMMA FollowedRests ==
    ASSUME OneAuthor, Inv, AuthorInv, FollowInv
    PROVE  RestAgrees
  <1> SUFFICES ASSUME NEW d \in Follower, NEW p \in Path, AtRest(d, p)
               PROVE  /\ file[d][p].index = file[Author][p].index
                      /\ file[d][p].disk = file[Author][p].disk /\ Honest(file[d][p])
    BY DEF RestAgrees
  <1> DEFINE source == file[Author][p]
             copy == file[d][p]
  <1>1. d \in Device /\ Author \in Device /\ d # Author /\ PathInv(p)
    BY DEF OneAuthor, Follower, AuthorInv
  <1>2. /\ Honest(copy) /\ (copy.index = NoEntry => copy.disk = NoFile)
    BY <1>1 DEF PathInv, CopiesHonest
  <1>3. source \in FileState
    BY <1>1 DEF Inv, TypeOK
  <1>4. /\ source.index # NoEntry /\ ~source.index.deleted => source.index.content # NoFile
    <2> SUFFICES ASSUME source.index # NoEntry PROVE source.index.content # NoFile
      OBVIOUS
    <2>1. source.index \in Entry
      BY <1>3 DEF FileState, MaybeEntry
    <2>2. source.index.content \in Nat
      BY <2>1, BoundAssumption DEF Entry, Content
    <2> QED  BY <2>2, FileAssumption
  <1>5. Honest(source) /\ ~Edited(p) /\ (source.index = NoEntry => source.disk = NoFile)
    BY <1>4 DEF AtRest, Changed, Gone, Honest, Edited
  <1>6. Announced(Author, d, p) = {}
    BY RangeOfOne DEF AtRest, Announced
  <1>7. Coming(d, p)
    BY DEF FollowInv, Follows, AtRest
  <1>8. copy.index = source.index
    <2>1. source.index = NoEntry \/ source.index = copy.index
      BY <1>5, <1>6, <1>7 DEF Coming, AtRest
    <2>2. CASE source.index = NoEntry
      <3>1. /\ StampOf(Author, p) = 0 /\ StampOf(d, p) \in Nat /\ StampOf(d, p) <= StampOf(Author, p)
            /\ StampOf(d, p) = 0 <=> copy.index = NoEntry
        BY <1>1, <2>2, StampFacts DEF PathInv, StampOf, Stamp
      <3> QED  BY <2>2, <3>1
    <2> QED  BY <2>1, <2>2
  <1>9. copy.disk = source.disk
    BY <1>2, <1>5, <1>8 DEF Honest
  <1> QED  BY <1>2, <1>8, <1>9

(* With one author that is no mirror, a device linked to it has the        *)
(* author's entry and the author's file, or neither, whenever nothing of   *)
(* the path is on its way between the two: no index sent, no receive under *)
(* way, nothing to scan. No refusal of an index entry (the plan, the       *)
(* ledger), answer that does not verify, expired claim, receive given up   *)
(* after its retries or lost connection leaves a device behind for good    *)
(* (src/peer.ts onPeerIndex, tryClaim, onBlockResponse, dropIfUnservable).  *)
THEOREM OneAuthorAtRest == OneAuthor /\ Author \notin ReceiveOnly /\ Spec => []RestAgrees
  <1> DEFINE Pushed == OneAuthor /\ Author \notin ReceiveOnly
             FInv == AuthorSpecInv /\ ClaimServed /\ FollowInv /\ AskedInv
  <1>1. Pushed /\ Init => FInv
    <2>1. Init => ClaimServed
      BY DEF Init, ClaimServed
    <2>2. OneAuthor /\ Init => AskedInv
      BY DEF Init, AskedInv, Asked, Follower, OneAuthor
    <2> QED  BY <2>1, <2>2, InitGood, AuthorInit, FollowInit DEF AuthorSpecInv
  <1>2. Pushed /\ FInv /\ [Next]_vars => FInv' /\ Pushed'
    <2> SUFFICES ASSUME Pushed, FInv, [Next]_vars PROVE FInv' /\ Pushed'
      OBVIOUS
    <2>1. AuthorSpecInv' /\ OneAuthor'
      BY AuthorStays
    <2>2. ClaimServed'
      BY ClaimsNext DEF AuthorSpecInv
    <2>3. FollowInv'
      BY FollowNext DEF AuthorSpecInv
    <2>4. AskedInv'
      BY AskedNext DEF AuthorSpecInv
    <2> QED  BY <2>1, <2>2, <2>3, <2>4
  <1>3. Pushed /\ FInv => RestAgrees
    BY FollowedRests DEF AuthorSpecInv
  <1> HIDE DEF Pushed, FInv
  <1>4. Pushed /\ Spec => []RestAgrees
    BY <1>1, <1>2, <1>3, PTL DEF Spec
  <1> QED  BY <1>4 DEF Pushed

============================================================================
