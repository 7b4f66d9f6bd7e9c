------------------------- MODULE ReceiveStoreProofs -------------------------
(***************************************************************************)
(* Proofs about ReceiveStore for every number of blocks, contents, inodes, *)
(* commit groups and faults. With any number of connections: its types and *)
(* VersionKept. With one connection to receive a file over: BitmapTruth    *)
(* and LandedIsWhole, which two connections violate.                       *)
(***************************************************************************)
EXTENDS ReceiveStore, TLAPS

----------------------------------------------------------------------------
(* Types.                                                                  *)

LEMMA EntriesAreBytes == Entries \subseteq Bytes
  BY EntriesAssumption DEF Bytes, Block

LEMMA HandlesAreNoGap == NoHandle \notin Handle
  BY NamesAssumption, CommitAssumption DEF Handle

LEMMA NoGaps == NoManifest \notin Manifest /\ NoLanding \notin Landing
  BY NamesAssumption DEF Manifest, Landing

(* The handle of a connection that has one. *)
LEMMA HandleFacts ==
    ASSUME TypeOK, NEW h \in Connection, handle[h] # NoHandle
    PROVE  /\ handle[h] \in Handle
           /\ handle[h].entry \in Entries /\ handle[h].entry \in Bytes
           /\ handle[h].bitmap \subseteq Slot
           /\ handle[h].fd \in Inode \cup {NoFile}
           /\ handle[h].dirty \in 0..CommitSlots - 1
  BY EntriesAreBytes DEF TypeOK, Handle

LEMMA VerifiedType ==
    ASSUME TypeOK, NEW e \in Entries
    PROVE  Verified(e) \subseteq Slot
  BY DEF TypeOK, Verified, Manifest

(* What append makes of the handle, the manifest and the disk when the tmp *)
(* is inode n and the handle then is r.                                    *)
Appends(h, i, n, r) ==
    LET bytes == [Opened(h, n) EXCEPT ![i] = r.entry[i]]
    IN  /\ Opens(h, n) /\ handle[h] # NoHandle /\ landing = NoLanding
        /\ r.entry = handle[h].entry /\ r.bitmap = handle[h].bitmap \cup {i}
        /\ r.fd = n /\ r.dirty = handle[h].dirty + 1
        /\ bytes \in Bytes
        /\ data' = [data EXCEPT ![n] = bytes]
        /\ tmp' = IF handle[h].fd = NoFile THEN n ELSE tmp
        /\ \/ /\ Due(r)
              /\ durable' = [durable EXCEPT ![n] = bytes]
              /\ manifest' = [entry |-> r.entry, bitmap |-> r.bitmap]
              /\ handle' = [handle EXCEPT ![h] = [r EXCEPT !.dirty = 0]]
           \/ /\ ~Due(r)
              /\ handle' = [handle EXCEPT ![h] = r]
              /\ UNCHANGED <<durable, manifest>>
        /\ UNCHANGED <<target, landing, kept, index, latest>>

Opening == [entry : Entries, bitmap : SUBSET Slot, fd : Inode, dirty : Nat]

LEMMA AppendFacts ==
    ASSUME TypeOK, NEW h \in Connection, NEW i \in Slot, append(h, i)
    PROVE  \E n \in Inode, r \in Opening : Appends(h, i, n, r)
  <1> DEFINE R(n) == [handle[h] EXCEPT !.bitmap = @ \cup {i}, !.fd = n, !.dirty = @ + 1]
             Written(n) == [Opened(h, n) EXCEPT ![i] = R(n).entry[i]]
  <1>1. /\ handle[h] # NoHandle /\ landing = NoLanding
        /\ UNCHANGED <<target, landing, kept, index, latest>>
    BY DEF append
  <1>2. PICK n \in Inode :
             /\ Opens(h, n)
             /\ data' = [data EXCEPT ![n] = Written(n)]
             /\ tmp' = IF handle[h].fd = NoFile THEN n ELSE tmp
             /\ IF Due(R(n))
                THEN /\ durable' = [durable EXCEPT ![n] = Written(n)]
                     /\ manifest' = [entry |-> R(n).entry, bitmap |-> R(n).bitmap]
                     /\ handle' = [handle EXCEPT ![h] = [R(n) EXCEPT !.dirty = 0]]
                ELSE /\ handle' = [handle EXCEPT ![h] = R(n)]
                     /\ UNCHANGED <<durable, manifest>>
    BY Zenon DEF append
  <1>3. /\ R(n) \in Opening
        /\ R(n).entry = handle[h].entry /\ R(n).bitmap = handle[h].bitmap \cup {i}
        /\ R(n).fd = n /\ R(n).dirty = handle[h].dirty + 1
    <2>1. /\ handle[h] \in [entry : Entries, bitmap : SUBSET Slot,
                            fd : Inode \cup {NoFile}, dirty : 0..CommitSlots - 1]
          /\ handle[h].dirty + 1 \in Nat
          /\ handle[h].bitmap \cup {i} \in SUBSET Slot
      BY <1>1, HandleFacts, CommitAssumption DEF Handle
    <2> QED  BY <2>1, CommitAssumption DEF Opening
  <1>4. Written(n) \in Bytes
    <2>1. handle[h].entry[i] \in Value
      BY <1>1, HandleFacts, EntriesAssumption
    <2>2. Opened(h, n) \in Bytes
      BY DEF Opened, TypeOK, Bytes, Holes, Block
    <2> QED  BY <1>3, <2>1, <2>2 DEF Bytes, Block
  <1>5. Written(n) = [Opened(h, n) EXCEPT ![i] = R(n).entry[i]]
    OBVIOUS
  <1> HIDE DEF R, Written
  <1>6. Appends(h, i, n, R(n))
    BY <1>1, <1>2, <1>3, <1>4, <1>5, Zenon DEF Appends
  <1> QED  BY <1>3, <1>6

LEMMA TypeStep == TypeOK /\ [Next]_vars => TypeOK'
  <1> SUFFICES ASSUME TypeOK, [Next]_vars PROVE TypeOK'
    OBVIOUS
  <1> USE EntriesAreBytes
  <1>1. ASSUME NEW e \in Entries, Announce(e) PROVE TypeOK'
    BY <1>1 DEF TypeOK, Announce, files
  <1>2. ASSUME NEW h \in Connection, beginReceive(h) PROVE TypeOK'
    <2>1. [entry |-> latest, bitmap |-> Verified(latest), fd |-> NoFile, dirty |-> 0] \in Handle
      BY VerifiedType, CommitAssumption DEF TypeOK, Handle
    <2> QED  BY <1>2, <2>1 DEF TypeOK, beginReceive, files
  <1>3. ASSUME NEW h \in Connection, NEW i \in Slot, append(h, i) PROVE TypeOK'
    <2>1. PICK n \in Inode, r \in Opening : Appends(h, i, n, r)
      BY <1>3, AppendFacts
    <2> DEFINE bytes == [Opened(h, n) EXCEPT ![i] = r.entry[i]]
    <2>2. bytes \in Bytes
      BY <2>1 DEF Appends
    <2> HIDE DEF bytes
    <2>3. [r EXCEPT !.dirty = 0] \in Handle
      BY CommitAssumption DEF Handle, Opening
    <2>4. ~Due(r) => r \in Handle
      BY <2>1, HandleFacts, CommitAssumption DEF Appends, Handle, Due, Opening
    <2>5. [entry |-> r.entry, bitmap |-> r.bitmap] \in Manifest
      BY DEF Manifest, Opening
    <2>6. handle' \in [Connection -> Handle \cup {NoHandle}]
      BY <2>1, <2>3, <2>4 DEF Appends, TypeOK
    <2>7. /\ data' \in [Inode -> Bytes] /\ durable' \in [Inode -> Bytes]
          /\ manifest' \in Manifest \cup {NoManifest}
      BY <2>1, <2>2, <2>5 DEF Appends, TypeOK, bytes
    <2> QED  BY <2>1, <2>6, <2>7 DEF Appends, TypeOK
  <1>4. ASSUME NEW h \in Connection, finalize(h) PROVE TypeOK'
    <2>1. handle[h].entry \in Entries
      BY <1>4, HandleFacts DEF finalize, Complete
    <2>2. [entry |-> handle[h].entry, step |-> "kept"] \in Landing
      BY <2>1 DEF Landing
    <2>3. Archived \subseteq Bytes
      BY DEF TypeOK, Archived
    <2> QED  BY <1>4, <2>2, <2>3 DEF TypeOK, finalize
  <1>5. CASE rename
    <2>1. [landing EXCEPT !.step = "renamed"] \in Landing
      BY <1>5 DEF TypeOK, rename, Landing
    <2> QED  BY <1>5, <2>1 DEF TypeOK, rename
  <1>6. CASE renameFails
    BY <1>6 DEF TypeOK, renameFails, files
  <1>7. CASE saveEntry
    <2>1. landing.entry \in Bytes
      BY <1>7 DEF TypeOK, saveEntry, Landing
    <2> QED  BY <1>7, <2>1 DEF TypeOK, saveEntry
  <1>8. ASSUME NEW h \in Connection, abort(h) PROVE TypeOK'
    <2>1. [entry |-> handle[h].entry, bitmap |-> handle[h].bitmap] \in Manifest
      BY <1>8, HandleFacts DEF abort, Manifest
    <2>2. handle[h].fd # NoFile => data[handle[h].fd] \in Bytes
      BY <1>8, HandleFacts DEF abort, TypeOK
    <2> QED  BY <1>8, <2>1, <2>2 DEF TypeOK, abort
  <1>9. CASE Crash
    <2>1. PICK lost \in SUBSET {b \in Inode \X Slot : data[b[1]][b[2]] # durable[b[1]][b[2]]} :
            data' = [n \in Inode |-> [i \in Slot |->
                       IF <<n, i>> \in lost THEN durable[n][i] ELSE data[n][i]]]
      BY <1>9 DEF Crash
    <2>2. data' \in [Inode -> Bytes]
      BY <2>1 DEF TypeOK, Bytes
    <2> QED  BY <1>9, <2>2 DEF TypeOK, Crash
  <1>10. CASE scan
    BY <1>10 DEF TypeOK, scan, files
  <1>11. CASE UNCHANGED vars
    BY <1>11 DEF TypeOK, vars, files
  <1> QED
    BY <1>1, <1>2, <1>3, <1>4, <1>5, <1>6, <1>7, <1>8, <1>9, <1>10, <1>11 DEF Next, Step

LEMMA TypeInit == Init => TypeOK
  BY EntriesAreBytes DEF Init, TypeOK, Bytes, Block, Holes

(* Every variable keeps its type, and fewer than CommitSlots blocks are    *)
(* unflushed, for every size of file, commit group and number of           *)
(* connections.                                                            *)
THEOREM TypeCorrect == Spec => []TypeOK
  BY TypeInit, TypeStep, PTL DEF Spec

----------------------------------------------------------------------------
(* Versions. A rename replaces a file that finalize could only copy.       *)

Archiving ==
    landing # NoLanding /\ landing.step = "kept" /\ target # NoFile => data[target] \in kept

Keeping == target # NoFile /\ target' # target => data[target] \in kept'

LEMMA ArchivingStep == TypeOK /\ Archiving /\ [Next]_vars => Archiving' /\ Keeping
  <1> SUFFICES ASSUME TypeOK, Archiving, [Next]_vars PROVE Archiving' /\ Keeping
    OBVIOUS
  <1>1. CASE UNCHANGED <<target, data, landing, kept>>
    BY <1>1 DEF Archiving, Keeping
  <1>2. CASE target' = target /\ landing' = NoLanding
    BY <1>2 DEF Archiving, Keeping
  <1>3. ASSUME NEW h \in Connection, finalize(h) PROVE Archiving' /\ Keeping
    BY <1>3 DEF finalize, Archived, Archiving, Keeping
  <1>4. CASE rename
    BY <1>4 DEF rename, TypeOK, Landing, Archiving, Keeping
  <1>5. ASSUME NEW h \in Connection, NEW i \in Slot, append(h, i)
        PROVE  target' = target /\ landing' = NoLanding
    BY <1>5, Zenon DEF append
  <1>6. ASSUME NEW h \in Connection, beginReceive(h) \/ abort(h)
        PROVE  UNCHANGED <<target, data, landing, kept>>
    BY <1>6 DEF beginReceive, abort, files
  <1>7. ASSUME NEW e \in Entries, Announce(e)
        PROVE  UNCHANGED <<target, data, landing, kept>>
    BY <1>7 DEF Announce, files
  <1>8. CASE scan
    BY <1>1, <1>8 DEF scan, files
  <1>9. CASE renameFails \/ saveEntry \/ Crash
    BY <1>2, <1>9 DEF renameFails, saveEntry, Crash, files
  <1>10. CASE UNCHANGED vars
    BY <1>1, <1>10 DEF vars, files
  <1> QED
    BY <1>1, <1>2, <1>3, <1>4, <1>5, <1>6, <1>7, <1>8, <1>9, <1>10 DEF Next, Step

(* Whatever leaves the path of the file is in the version store by then,   *)
(* for any number of connections, crashes and failing renames: the copy or *)
(* the move of snapshotVersion comes before the rename of finalize.        *)
THEOREM VersionsKept == Spec => VersionKept
  <1>1. Init => Archiving
    BY DEF Init, Archiving
  <1>2. TypeOK /\ Archiving /\ [Next]_vars => TypeOK' /\ Archiving' /\ Keeping
    BY TypeStep, ArchivingStep
  <1> QED  BY <1>1, <1>2, TypeInit, PTL DEF Spec, VersionKept, Keeping

----------------------------------------------------------------------------
(* One connection. A file may only land once it is flushed: a crash leaves  *)
(* what is durable. StoreInv says why a complete handle is flushed, also   *)
(* when it resumes a complete manifest whose tmp another receive began to  *)
(* overwrite: between two commits such a tmp is short of a block.          *)

OneConnection == \A g, h \in Connection : g = h

Separate == tmp # NoFile => target # tmp

TargetSafe == target # NoFile => data[target] \in Entries /\ durable[target] = data[target]

(* A manifest that claims every block of the tmp. *)
Full == manifest # NoManifest /\ tmp # NoFile /\ manifest.bitmap = Slot

ManifestFlushed == Full /\ data[tmp] = manifest.entry => durable[tmp] = data[tmp]

LandingOK ==
    landing # NoLanding =>
        /\ \A h \in Connection : handle[h] = NoHandle
        /\ landing.step = "kept" =>
              tmp # NoFile /\ data[tmp] = landing.entry /\ durable[tmp] = data[tmp]

OwnsTmp(r) == r.fd # NoFile => r.fd = tmp

FlushedWhenFull(r) == r.bitmap = Slot /\ tmp # NoFile => durable[tmp] = data[tmp]

(* A handle that resumes a full manifest lacks only blocks that are wrong. *)
ResumesAll(r) ==
    Full /\ manifest.entry = r.entry =>
        \A i \in Slot : data[tmp][i] = r.entry[i] => i \in r.bitmap

(* A handle that overwrites a full manifest's tmp began with an empty file. *)
Overwrites(r) ==
    Full /\ manifest.entry # r.entry =>
        IF r.fd = NoFile THEN r.bitmap = {}
        ELSE \A i \in Slot : data[tmp][i] # Hole => i \in r.bitmap

HandleOK(r) == OwnsTmp(r) /\ FlushedWhenFull(r) /\ ResumesAll(r) /\ Overwrites(r)

HandlesOK == \A h \in Connection : handle[h] # NoHandle => HandleOK(handle[h])

StoreInv ==
    Separate /\ TargetSafe /\ ManifestFlushed /\ LandingOK /\ HandlesOK /\ BitmapTruth

LEMMA StoreInit == Init => StoreInv
  BY DEF Init, StoreInv, Separate, TargetSafe, ManifestFlushed, Full, LandingOK, HandlesOK,
         BitmapTruth

LEMMA StoreBegin ==
    ASSUME OneConnection, TypeOK, StoreInv, NEW h \in Connection, beginReceive(h)
    PROVE  StoreInv'
  <1>1. /\ UNCHANGED <<target, tmp, data, durable, manifest, landing>>
        /\ landing = NoLanding
        /\ handle' = [handle EXCEPT ![h] =
             [entry |-> latest, bitmap |-> Verified(latest), fd |-> NoFile, dirty |-> 0]]
    BY DEF beginReceive, files
  <1>2. PICK r : r = [entry |-> latest, bitmap |-> Verified(latest), fd |-> NoFile, dirty |-> 0]
    OBVIOUS
  <1>3. /\ r.entry = latest /\ r.bitmap = Verified(latest) /\ r.fd = NoFile
        /\ \A g \in Connection : handle'[g] = r
    BY <1>1, <1>2 DEF TypeOK, OneConnection
  <1>4. latest \in [Slot -> Value]
    BY EntriesAssumption DEF TypeOK
  <1>5. ASSUME r.bitmap = Slot, tmp # NoFile
        PROVE  durable[tmp] = data[tmp]
    <2>1. /\ manifest # NoManifest /\ manifest.entry = latest
          /\ \A i \in Slot : i \in manifest.bitmap /\ data[tmp][i] = latest[i]
      BY <1>3, <1>5, SlotAssumption DEF Verified
    <2>2. manifest.bitmap = Slot
      BY <2>1 DEF TypeOK, Manifest
    <2>3. data[tmp] = latest
      BY <1>4, <1>5, <2>1 DEF TypeOK, Bytes
    <2> QED  BY <1>5, <2>1, <2>2, <2>3 DEF StoreInv, ManifestFlushed, Full
  <1>6. OwnsTmp(r)' /\ FlushedWhenFull(r)'
    BY <1>1, <1>3, <1>5 DEF OwnsTmp, FlushedWhenFull
  <1>7. ResumesAll(r)'
    BY <1>1, <1>3 DEF ResumesAll, Verified, Full
  <1>8. Overwrites(r)'
    BY <1>1, <1>3 DEF Overwrites, Verified, Full
  <1>9. \A i \in r.bitmap : tmp # NoFile /\ data[tmp][i] = r.entry[i]
    BY <1>3 DEF Verified
  <1>10. HandlesOK'
    BY <1>3, <1>6, <1>7, <1>8 DEF HandlesOK, HandleOK
  <1>11. BitmapTruth'
    BY <1>1, <1>3, <1>9 DEF BitmapTruth
  <1> QED
    BY <1>1, <1>10, <1>11
       DEF StoreInv, Separate, TargetSafe, ManifestFlushed, Full, LandingOK

LEMMA StoreAppend ==
    ASSUME OneConnection, TypeOK, StoreInv, NEW h \in Connection, NEW i \in Slot, append(h, i)
    PROVE  StoreInv'
  <1>1. PICK n \in Inode, r \in Opening : Appends(h, i, n, r)
    BY AppendFacts
  <1>2. n # NoFile /\ r.entry \in [Slot -> Value]
    BY NamesAssumption, EntriesAssumption DEF Opening
  <1>3. /\ handle[h].fd # NoFile => handle[h].fd = tmp
        /\ tmp # NoFile => target # tmp
        /\ handle[h].bitmap # {} => tmp # NoFile
    BY <1>1 DEF Appends, StoreInv, HandlesOK, HandleOK, OwnsTmp, Separate, BitmapTruth
  <1>4. n # target /\ tmp' = n
    BY <1>1, <1>2, <1>3 DEF Appends, Opens
  (* The file is empty, or it is the tmp as it was. *)
  <1>5. \/ handle[h].fd = NoFile /\ handle[h].bitmap = {} /\ Opened(h, n) = Holes
        \/ /\ handle[h].fd # NoFile \/ handle[h].bitmap # {}
           /\ tmp # NoFile /\ n = tmp /\ Opened(h, n) = data[tmp]
    BY <1>1, <1>2, <1>3 DEF Appends, Opens, Opened
  <1>6. /\ data'[n] = [Opened(h, n) EXCEPT ![i] = r.entry[i]]
        /\ \A m \in Inode \ {n} : data'[m] = data[m] /\ durable'[m] = durable[m]
    BY <1>1 DEF Appends, TypeOK
  <1>7. /\ data'[n][i] = r.entry[i]
        /\ \A j \in Slot \ {i} : data'[n][j] = Opened(h, n)[j]
        /\ data'[n] \in Bytes
    <2>1. Opened(h, n) \in [Slot -> Block]
      BY <1>5 DEF TypeOK, Holes, Bytes, Block
    <2>2. ASSUME NEW o \in [Slot -> Block], NEW v
          PROVE  [o EXCEPT ![i] = v][i] = v /\ \A j \in Slot \ {i} : [o EXCEPT ![i] = v][j] = o[j]
      OBVIOUS
    <2>3. data'[n] \in Bytes
      BY <1>1, <1>6 DEF Appends
    <2> QED  BY <1>6, <2>1, <2>2, <2>3, Zenon
  <1>8. \A j \in Slot \ {i} : Opened(h, n) = Holes => data'[n][j] = Hole
    BY <1>7 DEF Holes
  <1>9. Due(r) => durable'[n] = data'[n] /\ manifest' = [entry |-> r.entry, bitmap |-> r.bitmap]
    BY <1>1, <1>6 DEF Appends, TypeOK
  <1>10. ~Due(r) => manifest' = manifest /\ r.bitmap # Slot
    BY <1>1 DEF Appends, Due
  <1>11. PICK q : /\ q.entry = r.entry /\ q.bitmap = r.bitmap /\ q.fd = n
                  /\ \A g \in Connection : handle'[g] = q
    <2>1. \A g \in Connection : g = h
      BY DEF OneConnection
    <2>2. /\ [r EXCEPT !.dirty = 0].entry = r.entry
          /\ [r EXCEPT !.dirty = 0].bitmap = r.bitmap
          /\ [r EXCEPT !.dirty = 0].fd = n
      BY <1>1 DEF Appends
    <2>3. CASE Due(r)
      <3>1. handle'[h] = [r EXCEPT !.dirty = 0]
        BY <1>1, <2>3 DEF Appends, TypeOK
      <3> QED  BY <2>1, <2>2, <3>1
    <2>4. CASE ~Due(r)
      <3>1. handle'[h] = r
        BY <1>1, <2>4 DEF Appends, TypeOK
      <3> QED  BY <1>1, <2>1, <3>1 DEF Appends
    <2> QED  BY <2>3, <2>4
  <1>12. \A j \in Slot \ {i} : r.entry[j] # Hole
    BY <1>2, HoleAssumption
  <1>13. ResumesAll(q)'
    <2> SUFFICES ASSUME ~Due(r), Full', manifest.entry = r.entry,
                        NEW j \in Slot \ {i}, data'[n][j] = r.entry[j]
                 PROVE  j \in handle[h].bitmap
      BY <1>1, <1>4, <1>9, <1>10, <1>11 DEF Appends, ResumesAll, Full
    <2>1. Opened(h, n) = data[tmp] /\ n = tmp /\ tmp # NoFile
      BY <1>5, <1>8, <1>12
    <2>2. Full
      BY <1>10, <2>1 DEF Full
    <2>3. ResumesAll(handle[h])
      BY <1>1 DEF Appends, StoreInv, HandlesOK, HandleOK
    <2> QED  BY <1>1, <1>7, <2>1, <2>2, <2>3 DEF Appends, ResumesAll
  <1>14. Overwrites(q)'
    <2> SUFFICES ASSUME ~Due(r), Full', manifest.entry # r.entry,
                        NEW j \in Slot \ {i}, data'[n][j] # Hole
                 PROVE  j \in handle[h].bitmap
      BY <1>1, <1>2, <1>4, <1>9, <1>10, <1>11 DEF Appends, Overwrites, Full
    <2>1. /\ Opened(h, n) = data[tmp] /\ n = tmp /\ tmp # NoFile
          /\ handle[h].fd # NoFile \/ handle[h].bitmap # {}
      BY <1>5, <1>8
    <2>2. Full
      BY <1>10, <2>1 DEF Full
    <2>3. Overwrites(handle[h])
      BY <1>1 DEF Appends, StoreInv, HandlesOK, HandleOK
    <2> QED  BY <1>1, <1>7, <2>1, <2>2, <2>3 DEF Appends, Overwrites
  <1>15. FlushedWhenFull(q)' /\ OwnsTmp(q)'
    BY <1>4, <1>9, <1>10, <1>11 DEF FlushedWhenFull, OwnsTmp
  <1>16. HandlesOK'
    BY <1>11, <1>13, <1>14, <1>15 DEF HandlesOK, HandleOK
  <1>17. ManifestFlushed'
    <2> SUFFICES ASSUME ~Due(r), Full', data'[n] = manifest.entry PROVE FALSE
      BY <1>4, <1>9, <1>10 DEF ManifestFlushed
    <2>1. manifest.entry \in [Slot -> Value]
      BY <1>10, EntriesAssumption DEF Full, TypeOK, Manifest
    <2>2. \A j \in Slot : data'[n][j] # Hole
      BY <2>1, HoleAssumption
    <2>3. \A j \in Slot : j \in r.bitmap
      BY <1>2, <1>4, <1>10, <1>11, <1>13, <1>14, <2>2 DEF ResumesAll, Overwrites
    <2> QED  BY <1>10, <2>3 DEF Opening
  <1>18. BitmapTruth'
    <2> SUFFICES ASSUME NEW j \in r.bitmap PROVE data'[n][j] = r.entry[j]
      BY <1>2, <1>4, <1>11 DEF BitmapTruth
    <2>1. CASE j = i
      BY <1>7, <2>1
    <2>2. CASE j # i
      <3>1. j \in handle[h].bitmap /\ data[tmp][j] = handle[h].entry[j]
        BY <1>1, <2>2 DEF Appends, StoreInv, BitmapTruth
      <3> QED  BY <1>1, <1>5, <1>7, <2>2, <3>1 DEF Appends
    <2> QED  BY <2>1, <2>2
  <1>19. Separate' /\ TargetSafe' /\ LandingOK'
    BY <1>1, <1>4, <1>6 DEF Appends, StoreInv, TypeOK, Separate, TargetSafe, LandingOK
  <1> QED  BY <1>16, <1>17, <1>18, <1>19 DEF StoreInv

LEMMA StoreFinalize ==
    ASSUME OneConnection, TypeOK, StoreInv, NEW h \in Connection, finalize(h)
    PROVE  StoreInv'
  <1>1. \A g \in Connection : handle'[g] = NoHandle
    BY DEF finalize, TypeOK, OneConnection
  <1>2. HandlesOK' /\ BitmapTruth'
    BY <1>1 DEF HandlesOK, BitmapTruth
  <1>3. handle[h] # NoHandle /\ handle[h].bitmap = Slot /\ UNCHANGED <<data, durable>>
    BY DEF finalize, Complete
  <1>4. CASE tmp # NoFile /\ data[tmp] = handle[h].entry
    <2>1. durable[tmp] = data[tmp]
      BY <1>3, <1>4 DEF StoreInv, HandlesOK, HandleOK, FlushedWhenFull
    <2>2. landing' = [entry |-> handle[h].entry, step |-> "kept"] /\ UNCHANGED <<tmp, manifest>>
          /\ target' \in {NoFile, target}
      BY <1>4 DEF finalize
    <2>3. LandingOK'
      BY <1>1, <1>3, <1>4, <2>1, <2>2 DEF LandingOK
    <2>4. Separate' /\ TargetSafe' /\ ManifestFlushed'
      BY <1>3, <1>4, <2>2 DEF StoreInv, Separate, TargetSafe, ManifestFlushed, Full
    <2> QED  BY <1>2, <2>3, <2>4 DEF StoreInv
  <1>5. CASE ~(tmp # NoFile /\ data[tmp] = handle[h].entry)
    <2>1. tmp' = NoFile /\ manifest' = NoManifest /\ landing' = NoLanding /\ target' = target
      BY <1>5 DEF finalize
    <2> QED
      BY <1>2, <1>3, <2>1 DEF StoreInv, Separate, TargetSafe, ManifestFlushed, Full, LandingOK
  <1> QED  BY <1>4, <1>5

LEMMA StoreRename ==
    ASSUME TypeOK, StoreInv, rename
    PROVE  StoreInv'
  <1>1. /\ landing # NoLanding /\ landing.step = "kept"
        /\ target' = tmp /\ tmp' = NoFile /\ landing' = [landing EXCEPT !.step = "renamed"]
        /\ UNCHANGED <<data, durable, manifest, handle>>
    BY DEF rename
  <1>2. /\ \A h \in Connection : handle[h] = NoHandle
        /\ tmp # NoFile /\ data[tmp] = landing.entry /\ durable[tmp] = data[tmp]
    BY <1>1 DEF StoreInv, LandingOK
  <1>3. landing.entry \in Entries /\ landing'.step = "renamed"
    BY <1>1 DEF TypeOK, Landing
  <1> QED
    BY <1>1, <1>2, <1>3
       DEF StoreInv, Separate, TargetSafe, ManifestFlushed, Full, LandingOK, HandlesOK, BitmapTruth

LEMMA StoreSave ==
    ASSUME StoreInv, renameFails \/ saveEntry
    PROVE  StoreInv'
  <1>1. CASE renameFails
    BY <1>1 DEF renameFails, files, StoreInv, Separate, TargetSafe, ManifestFlushed, Full, LandingOK,
                HandlesOK, HandleOK, OwnsTmp, FlushedWhenFull, ResumesAll, Overwrites, BitmapTruth
  <1>2. CASE saveEntry
    BY <1>2 DEF saveEntry, StoreInv, Separate, TargetSafe, ManifestFlushed, Full, LandingOK,
                HandlesOK, BitmapTruth
  <1> QED  BY <1>1, <1>2

LEMMA StoreAbort ==
    ASSUME OneConnection, TypeOK, StoreInv, NEW h \in Connection, abort(h)
    PROVE  StoreInv'
  <1>1. /\ \A g \in Connection : handle'[g] = NoHandle
        /\ handle[h] # NoHandle /\ landing' = NoLanding /\ UNCHANGED <<target, tmp, data>>
    BY DEF abort, TypeOK, OneConnection
  <1>2. \/ UNCHANGED <<durable, manifest>>
        \/ tmp # NoFile /\ durable' = [durable EXCEPT ![tmp] = data[tmp]]
    BY <1>1 DEF abort, StoreInv, HandlesOK, HandleOK, OwnsTmp
  <1>3. /\ ManifestFlushed \/ (tmp # NoFile /\ durable'[tmp] = data[tmp])
        /\ \A n \in Inode \ {tmp} : durable'[n] = durable[n]
    BY <1>2 DEF TypeOK, StoreInv
  <1>4. ManifestFlushed' /\ Separate' /\ TargetSafe'
    BY <1>1, <1>2, <1>3 DEF TypeOK, StoreInv, ManifestFlushed, Full, Separate, TargetSafe
  <1> QED  BY <1>1, <1>4 DEF StoreInv, LandingOK, HandlesOK, BitmapTruth

(* Of what is durable a crash loses nothing. *)
LEMMA StoreCrash ==
    ASSUME TypeOK, StoreInv, Crash
    PROVE  StoreInv'
  <1>1. PICK lost \in SUBSET {b \in Inode \X Slot : data[b[1]][b[2]] # durable[b[1]][b[2]]} :
          data' = [n \in Inode |-> [i \in Slot |->
                     IF <<n, i>> \in lost THEN durable[n][i] ELSE data[n][i]]]
    BY DEF Crash
  <1>2. /\ durable' = data' /\ landing' = NoLanding /\ UNCHANGED <<target, tmp>>
        /\ \A h \in Connection : handle'[h] = NoHandle
    BY DEF Crash
  <1>3. ASSUME NEW n \in Inode, durable[n] = data[n] PROVE data'[n] = data[n]
    <2>1. \A i \in Slot : <<n, i>> \notin lost
      BY <1>3
    <2>2. data'[n] = [i \in Slot |-> data[n][i]]
      BY <1>1, <2>1
    <2> QED  BY <2>2 DEF TypeOK, Bytes
  <1>4. TargetSafe'
    BY <1>2, <1>3 DEF TypeOK, StoreInv, TargetSafe
  <1> QED
    BY <1>2, <1>4
       DEF StoreInv, Separate, ManifestFlushed, Full, LandingOK, HandlesOK, BitmapTruth

LEMMA StoreStep == OneConnection /\ TypeOK /\ StoreInv /\ [Next]_vars => StoreInv'
  <1> SUFFICES ASSUME OneConnection, TypeOK, StoreInv, [Next]_vars PROVE StoreInv'
    OBVIOUS
  <1>1. ASSUME UNCHANGED <<files, handle, landing>> PROVE StoreInv'
    BY <1>1 DEF files, StoreInv, Separate, TargetSafe, ManifestFlushed, Full, LandingOK,
                HandlesOK, HandleOK, OwnsTmp, FlushedWhenFull, ResumesAll, Overwrites, BitmapTruth
  <1>2. ASSUME NEW e \in Entries, Announce(e) PROVE StoreInv'
    BY <1>1, <1>2 DEF Announce
  <1>3. CASE scan
    BY <1>1, <1>3 DEF scan
  <1>4. CASE UNCHANGED vars
    BY <1>1, <1>4 DEF vars
  <1> QED
    BY <1>2, <1>3, <1>4, StoreBegin, StoreAppend, StoreFinalize, StoreRename, StoreSave,
       StoreAbort, StoreCrash DEF Next, Step

(* With one connection a block the bitmap has is in the tmp and right,     *)
(* however often the receive is interrupted and resumed (append, commit,   *)
(* tryResume).                                                             *)
THEOREM OneReceiverBitmap ==
    ASSUME OneConnection
    PROVE  Spec => []BitmapTruth
  <1>1. TypeOK /\ StoreInv /\ [Next]_vars => TypeOK' /\ StoreInv'
    BY TypeStep, StoreStep
  <1>2. StoreInv => BitmapTruth
    BY DEF StoreInv
  <1> QED  BY <1>1, <1>2, TypeInit, StoreInit, PTL DEF Spec

(* With one connection only whole contents that were announced ever lie at *)
(* the path of the file, whatever crashes and fails in between.            *)
THEOREM OneReceiverWhole ==
    ASSUME OneConnection
    PROVE  Spec => []LandedIsWhole
  <1>1. TypeOK /\ StoreInv /\ [Next]_vars => TypeOK' /\ StoreInv'
    BY TypeStep, StoreStep
  <1>2. StoreInv => LandedIsWhole
    BY DEF StoreInv, TargetSafe, LandedIsWhole
  <1> QED  BY <1>1, <1>2, TypeInit, StoreInit, PTL DEF Spec
=============================================================================
