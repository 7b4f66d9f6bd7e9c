------------------------- MODULE ScanTriggerProofs -------------------------
(***************************************************************************)
(* Proofs about ScanTrigger for every set of folders, any of which may be  *)
(* impossible to watch, and any number of events.                          *)
(*                                                                         *)
(* TypeOK is not inductive: that the failures of a folder stay within      *)
(* MaxFailures takes a hub that gives up at the last one (HubOK). That no  *)
(* request for a folder is forgotten takes where the scan is still to come *)
(* from (Covered).                                                         *)
(***************************************************************************)
EXTENDS ScanTrigger, TLAPS

----------------------------------------------------------------------------
(* The hub.                                                                *)

Watcher == {"none", "live", "changed", "failing", "dead"}
Hub == [watcher : [Folder -> Watcher], rebuild : [Folder -> BOOLEAN],
        failures : [Folder -> 0..MaxFailures], degraded : BOOLEAN, dirty : SUBSET Folder]

Quiet(h) == h.degraded => h.dirty = {} /\ \A f \in Folder : h.watcher[f] = "none"

HubOK(h) ==
    /\ h \in Hub
    /\ ~h.degraded => \A f \in Folder : h.failures[f] < MaxFailures
    /\ Quiet(h)

LEMMA HubFields ==
    ASSUME NEW h \in Hub
    PROVE  /\ h.watcher \in [Folder -> Watcher] /\ h.rebuild \in [Folder -> BOOLEAN]
           /\ h.failures \in [Folder -> 0..MaxFailures] /\ h.degraded \in BOOLEAN
           /\ h.dirty \in SUBSET Folder
  BY DEF Hub

(* The operations of the hub take a good one to a good one. *)
LEMMA DegradeOK ==
    ASSUME NEW h \in Hub
    PROVE  HubOK(degrade(h))
  <1>1. /\ [f \in Folder |-> "none"] \in [Folder -> Watcher]
        /\ [f \in Folder |-> h.rebuild[f] /\ h.watcher[f] = "none"] \in [Folder -> BOOLEAN]
        /\ [f \in Folder |-> IF h.watcher[f] = "none" THEN h.failures[f] ELSE 0]
              \in [Folder -> 0..MaxFailures]
    BY DEF Hub, Watcher, MaxFailures
  <1>2. degrade(h) \in Hub
    BY <1>1 DEF degrade, Hub
  <1>3. degrade(h).watcher = [f \in Folder |-> "none"] /\ degrade(h).dirty = {}
    BY DEF degrade, Hub
  <1>4. degrade(h).degraded = TRUE
    BY DEF degrade, Hub
  <1> QED  BY <1>2, <1>3, <1>4 DEF HubOK, Quiet

LEMMA CloseOK ==
    ASSUME NEW h, HubOK(h), NEW f \in Folder
    PROVE  /\ HubOK(closeOne(h, f))
           /\ closeOne(h, f).degraded = h.degraded /\ closeOne(h, f).dirty = h.dirty
  <1> USE DEF HubOK
  <1>1. [h.watcher EXCEPT ![f] = "none"] \in [Folder -> Watcher]
    BY DEF Hub, Watcher
  <1>2. [h.rebuild EXCEPT ![f] = FALSE] \in [Folder -> BOOLEAN]
    BY DEF Hub
  <1>3. [h.failures EXCEPT ![f] = 0] \in [Folder -> 0..MaxFailures]
    BY DEF Hub, MaxFailures
  <1>4. closeOne(h, f) \in Hub
    BY <1>1, <1>2, <1>3 DEF closeOne, Hub
  <1>5. closeOne(h, f).degraded = h.degraded
    BY DEF closeOne, Hub
  <1>6. /\ closeOne(h, f).dirty = h.dirty
        /\ closeOne(h, f).watcher = [h.watcher EXCEPT ![f] = "none"]
        /\ closeOne(h, f).failures = [h.failures EXCEPT ![f] = 0]
    BY DEF closeOne, Hub
  <1>7. ASSUME ~h.degraded, NEW g \in Folder PROVE closeOne(h, f).failures[g] < MaxFailures
    BY <1>6, <1>7, HubFields DEF MaxFailures
  <1>8. ASSUME h.degraded, NEW g \in Folder PROVE closeOne(h, f).watcher[g] = "none"
    BY <1>6, <1>8, HubFields DEF Quiet
  <1> QED  BY <1>4, <1>5, <1>6, <1>7, <1>8 DEF Quiet

LEMMA FailureOK ==
    ASSUME NEW h, HubOK(h), NEW f \in Folder
    PROVE  HubOK(handleCreationFailure(h, f))
  <1>1. CASE h.degraded
    BY <1>1 DEF handleCreationFailure
  <1>2. CASE ~h.degraded
    <2> DEFINE counted == [h EXCEPT !.failures[f] = @ + 1]
               retried == [h EXCEPT !.failures[f] = @ + 1, !.rebuild[f] = TRUE]
               waiting == [h EXCEPT !.rebuild[f] = TRUE]
    <2>1. h \in Hub /\ \A g \in Folder : h.failures[g] < MaxFailures
      BY <1>2 DEF HubOK
    <2>2. [h.rebuild EXCEPT ![f] = TRUE] \in [Folder -> BOOLEAN]
      BY <2>1 DEF Hub
    <2>3. [h.failures EXCEPT ![f] = @ + 1] \in [Folder -> 0..MaxFailures]
      BY <2>1 DEF Hub, MaxFailures
    <2>4. counted \in Hub /\ retried \in Hub /\ waiting \in Hub
      BY <2>1, <2>2, <2>3 DEF Hub
    <2>5. waiting.degraded = h.degraded /\ retried.degraded = h.degraded
      BY <2>1 DEF Hub
    <2>6. waiting.failures = h.failures /\ retried.failures = [h.failures EXCEPT ![f] = @ + 1]
      BY <2>1 DEF Hub
    <2>7. HubOK(waiting)
      BY <1>2, <2>1, <2>4, <2>5, <2>6 DEF HubOK, Quiet
    <2>8. ASSUME ~(h.failures[f] + 1 >= MaxFailures) PROVE HubOK(retried)
      <3>1. \A g \in Folder : retried.failures[g] < MaxFailures
        BY <2>1, <2>6, <2>8, HubFields DEF MaxFailures
      <3> QED  BY <1>2, <2>4, <2>5, <3>1 DEF HubOK, Quiet
    <2>9. HubOK(degrade(counted)) /\ HubOK(degrade(h))
      BY <2>1, <2>4, DegradeOK
    <2> QED  BY <1>2, <2>7, <2>8, <2>9, Zenon DEF handleCreationFailure
  <1> QED  BY <1>1, <1>2

LEMMA CreateOK ==
    ASSUME NEW h, HubOK(h), ~h.degraded, NEW f \in Folder
    PROVE  HubOK(createOne(h, f))
  <1> DEFINE made == [h EXCEPT !.watcher[f] = "live", !.failures[f] = 0]
  <1>1. h \in Hub /\ \A g \in Folder : h.failures[g] < MaxFailures
    BY DEF HubOK
  <1>2. /\ [h.watcher EXCEPT ![f] = "live"] \in [Folder -> Watcher]
        /\ [h.failures EXCEPT ![f] = 0] \in [Folder -> 0..MaxFailures]
    BY <1>1 DEF Hub, Watcher, MaxFailures
  <1>3. made \in Hub
    BY <1>1, <1>2 DEF Hub
  <1>4. made.degraded = h.degraded
    BY <1>1 DEF Hub
  <1>5. made.failures = [h.failures EXCEPT ![f] = 0]
    BY <1>1 DEF Hub
  <1>6. \A g \in Folder : made.failures[g] < MaxFailures
    BY <1>1, <1>5, HubFields DEF MaxFailures
  <1>7. HubOK(made)
    BY <1>3, <1>4, <1>6 DEF HubOK, Quiet
  <1> QED  BY <1>7, FailureOK, Zenon DEF createOne

LEMMA SyncOK ==
    ASSUME NEW h, HubOK(h), NEW wanted
    PROVE  HubOK(syncFolders(h, wanted))
  <1> DEFINE unwanted == {f \in Folder \ wanted : h.watcher[f] # "none"}
             missing  == {f \in wanted : h.watcher[f] = "none" /\ ~h.rebuild[f]}
             synced(f) == IF f \in unwanted THEN closeOne(h, f)
                          ELSE IF f \in missing /\ ~h.degraded THEN createOne(h, f) ELSE h
             w == [f \in Folder |-> synced(f).watcher[f]]
             r == [f \in Folder |-> synced(f).rebuild[f]]
             n == [f \in Folder |-> synced(f).failures[f]]
             merged == [h EXCEPT !.watcher = w, !.rebuild = r, !.failures = n]
  <1>1. syncFolders(h, wanted) =
          IF \E f \in missing : synced(f).degraded # h.degraded THEN degrade(h) ELSE merged
    BY Zenon DEF syncFolders
  <1>2. HubOK(degrade(h))
    BY DegradeOK DEF HubOK
  <1>3. ASSUME NEW f \in Folder PROVE HubOK(synced(f))
    BY CloseOK, CreateOK, Zenon
  <1>4. ASSUME NEW f \in Folder, f \notin missing PROVE synced(f).degraded = h.degraded
    BY <1>4, CloseOK, Zenon
  <1>5. ASSUME h.degraded, NEW f \in Folder PROVE synced(f) = h
    BY <1>5, Zenon DEF HubOK, Quiet
  <1> HIDE DEF synced, missing, unwanted
  <1>6. CASE ~(\E f \in missing : synced(f).degraded # h.degraded)
    <2>1. \A f \in Folder : synced(f).degraded = h.degraded
      BY <1>4, <1>6
    <2>2. h \in Hub
      BY DEF HubOK
    <2>3. \A f \in Folder : synced(f) \in Hub
      BY <1>3 DEF HubOK
    <2>4. /\ w \in [Folder -> Watcher] /\ r \in [Folder -> BOOLEAN]
          /\ n \in [Folder -> 0..MaxFailures]
      BY <2>3, HubFields
    <2>5. ~h.degraded => \A f \in Folder : n[f] < MaxFailures
      BY <1>3, <2>1 DEF HubOK
    <2>6. h.degraded => \A f \in Folder : w[f] = "none"
      BY <1>5 DEF HubOK, Quiet
    <2> HIDE DEF w, r, n
    <2>7. merged \in Hub
      BY <2>2, <2>4 DEF Hub
    <2>8. merged.degraded = h.degraded
      BY <2>2 DEF Hub
    <2>9. merged.watcher = w /\ merged.failures = n /\ merged.dirty = h.dirty
      BY <2>2 DEF Hub
    <2>10. HubOK(merged)
      BY <2>5, <2>6, <2>7, <2>8, <2>9 DEF HubOK, Quiet
    <2> QED  BY <1>1, <1>6, <2>10
  <1> QED  BY <1>1, <1>2, <1>6

LEMMA DirtyOK ==
    ASSUME NEW h, HubOK(h), NEW S \in SUBSET Folder, h.degraded => S = {}
    PROVE  HubOK([h EXCEPT !.dirty = S])
  <1> DEFINE k == [h EXCEPT !.dirty = S]
  <1>1. h \in Hub
    BY DEF HubOK
  <1>2. k \in Hub
    BY <1>1 DEF Hub
  <1>3. k.degraded = h.degraded
    BY <1>1 DEF Hub
  <1>4. k.watcher = h.watcher /\ k.failures = h.failures /\ k.dirty = S
    BY <1>1 DEF Hub
  <1> QED  BY <1>2, <1>3, <1>4 DEF HubOK, Quiet

LEMMA WatcherOK ==
    ASSUME NEW h, HubOK(h), NEW f \in Folder, h.watcher[f] # "none", NEW x \in Watcher
    PROVE  HubOK([h EXCEPT !.watcher[f] = x])
  <1> DEFINE k == [h EXCEPT !.watcher[f] = x]
  <1>1. h \in Hub /\ ~h.degraded
    BY DEF HubOK, Quiet
  <1>2. [h.watcher EXCEPT ![f] = x] \in [Folder -> Watcher]
    BY <1>1 DEF Hub
  <1>3. k \in Hub
    BY <1>1, <1>2 DEF Hub
  <1>4. k.degraded = h.degraded
    BY <1>1 DEF Hub
  <1>5. k.failures = h.failures
    BY <1>1 DEF Hub
  <1> QED  BY <1>1, <1>3, <1>4, <1>5 DEF HubOK, Quiet

LEMMA FiredOK ==
    ASSUME NEW h, HubOK(h), NEW f \in Folder
    PROVE  HubOK([h EXCEPT !.rebuild[f] = FALSE]) /\ [h EXCEPT !.rebuild[f] = FALSE].degraded = h.degraded
  <1> DEFINE k == [h EXCEPT !.rebuild[f] = FALSE]
  <1>1. h \in Hub
    BY DEF HubOK
  <1>2. [h.rebuild EXCEPT ![f] = FALSE] \in [Folder -> BOOLEAN]
    BY <1>1 DEF Hub
  <1>3. k \in Hub
    BY <1>1, <1>2 DEF Hub
  <1>4. k.degraded = h.degraded
    BY <1>1 DEF Hub
  <1>5. k.failures = h.failures /\ k.watcher = h.watcher /\ k.dirty = h.dirty
    BY <1>1 DEF Hub
  <1> QED  BY <1>3, <1>4, <1>5 DEF HubOK, Quiet

LEMMA SyncedOK ==
    ASSUME NEW h, HubOK(h)
    PROVE  HubOK(Synced(h, Wanted))
  BY SyncOK DEF Synced

----------------------------------------------------------------------------
(* The queue of scan requests.                                             *)

Runner == [scanning : BOOLEAN, batch : SUBSET Folder, queued : BOOLEAN,
           queuedDirty : {All} \cup SUBSET Folder]

Owed == owed \subseteq Folder \X {"full", "folders"}

(* A scan of a folder that is still owed to a request for folders is part  *)
(* of the round or of the folders queued.                                  *)
Covered ==
    \A f \in Folder : <<f, "folders">> \in owed =>
        /\ runner.scanning
        /\ \/ f \in runner.batch
           \/ runner.queued /\ runner.queuedDirty # All /\ f \in runner.queuedDirty

RunnerOK == runner \in Runner /\ Owed /\ Covered

LEMMA AskFullOK ==
    ASSUME RunnerOK, Ask(All)
    PROVE  RunnerOK'
  <1>1. owed' = Folder \X {"full"}
    BY DEF Ask
  <1>2. runner' \in Runner
    <2>1. CASE runner.scanning
      BY <2>1 DEF RunnerOK, Runner, Ask, Coalesced
    <2>2. CASE ~runner.scanning
      BY <2>2 DEF RunnerOK, Runner, Ask, Asked
    <2> QED  BY <2>1, <2>2
  <1> QED  BY <1>1, <1>2 DEF RunnerOK, Owed, Covered

LEMMA AskFoldersOK ==
    ASSUME RunnerOK, NEW S \in SUBSET Folder, Ask(S)
    PROVE  RunnerOK'
  <1>1. S # All
    BY AllAssumption
  <1>2. owed' = owed \cup (S \X {"folders"})
    BY <1>1 DEF Ask
  <1>3. \A f \in Folder : <<f, "folders">> \in owed' => <<f, "folders">> \in owed \/ f \in S
    BY <1>2
  <1>4. Owed'
    BY <1>2 DEF RunnerOK, Owed
  <1>5. CASE runner.scanning
    <2> DEFINE queue == Coalesced(S)
    <2>1. /\ queue \in SUBSET Folder /\ queue # All /\ S \subseteq queue
          /\ runner.queuedDirty # All => runner.queuedDirty \subseteq queue
      BY <1>1, AllAssumption DEF RunnerOK, Runner, Coalesced
    <2>2. runner' = [runner EXCEPT !.queued = TRUE, !.queuedDirty = queue]
      BY <1>5 DEF Ask
    <2> HIDE DEF queue
    <2>3. /\ runner' \in Runner /\ runner'.queuedDirty = queue
          /\ runner'.batch = runner.batch
      BY <2>1, <2>2 DEF RunnerOK, Runner
    <2>4. runner'.queued = TRUE /\ runner'.scanning = runner.scanning
      BY <2>2 DEF RunnerOK, Runner
    <2>5. ASSUME NEW f \in Folder, <<f, "folders">> \in owed, f \notin runner.batch
          PROVE  f \in queue
      BY <2>1, <2>5 DEF RunnerOK, Covered
    <2>6. Covered'
      BY <1>3, <1>5, <2>1, <2>3, <2>4, <2>5 DEF Covered
    <2> QED  BY <1>4, <2>3, <2>6 DEF RunnerOK
  <1>6. CASE ~runner.scanning
    <2>1. runner' = [runner EXCEPT !.scanning = TRUE, !.batch = S, !.queued = FALSE]
      BY <1>1, <1>6 DEF Ask, Asked
    <2>2. runner' \in Runner /\ runner'.batch = S
      BY <2>1 DEF RunnerOK, Runner
    <2>3. runner'.scanning = TRUE
      BY <2>1 DEF RunnerOK, Runner
    <2>4. \A f \in Folder : <<f, "folders">> \notin owed
      BY <1>6 DEF RunnerOK, Covered
    <2>5. Covered'
      BY <1>3, <2>2, <2>3, <2>4 DEF Covered
    <2> QED  BY <1>4, <2>2, <2>5 DEF RunnerOK
  <1> QED  BY <1>5, <1>6

LEMMA ScanFolderOK ==
    ASSUME RunnerOK, NEW f \in Folder, ScanFolder(f)
    PROVE  RunnerOK'
  <1>1. runner' = [runner EXCEPT !.batch = @ \ {f}] /\ owed' = {o \in owed : o[1] # f}
    BY DEF ScanFolder
  <1>2. runner' \in Runner /\ runner'.batch = runner.batch \ {f}
        /\ runner'.queuedDirty = runner.queuedDirty
    BY <1>1 DEF RunnerOK, Runner
  <1>3. runner'.scanning = runner.scanning /\ runner'.queued = runner.queued
    BY <1>1 DEF RunnerOK, Runner
  <1>4. \A g \in Folder : <<g, "folders">> \in owed' => g # f /\ <<g, "folders">> \in owed
    BY <1>1
  <1>5. Covered'
    BY <1>2, <1>3, <1>4 DEF RunnerOK, Covered
  <1> QED  BY <1>1, <1>2, <1>5 DEF RunnerOK, Owed

LEMMA EndRoundOK ==
    ASSUME RunnerOK, EndRound
    PROVE  RunnerOK'
  <1>1. runner.scanning /\ runner.batch = {} /\ owed' = owed
    BY DEF EndRound
  <1>2. CASE runner.queued
    <2>1. runner' = [scanning |-> TRUE, batch |-> Asked(runner.queuedDirty),
                     queued |-> FALSE, queuedDirty |-> All]
      BY <1>2 DEF EndRound
    <2>2. Asked(runner.queuedDirty) \in SUBSET Folder
      BY DEF RunnerOK, Runner, Asked
    <2>3. runner' \in Runner /\ runner'.scanning /\ runner'.batch = Asked(runner.queuedDirty)
      BY <2>1, <2>2 DEF Runner
    <2>4. \A f \in Folder : <<f, "folders">> \in owed => f \in Asked(runner.queuedDirty)
      BY <1>1 DEF RunnerOK, Covered, Asked
    <2> QED  BY <1>1, <2>3, <2>4 DEF RunnerOK, Owed, Covered
  <1>3. CASE ~runner.queued
    <2>1. runner' = [runner EXCEPT !.scanning = FALSE]
      BY <1>3 DEF EndRound
    <2>2. runner' \in Runner
      BY <2>1 DEF RunnerOK, Runner
    <2>3. \A f \in Folder : <<f, "folders">> \notin owed
      BY <1>1, <1>3 DEF RunnerOK, Covered
    <2> QED  BY <1>1, <2>2, <2>3 DEF RunnerOK, Owed, Covered
  <1> QED  BY <1>2, <1>3

----------------------------------------------------------------------------
(* Every action keeps the hub, the queue and the world in order.           *)

WorldOK ==
    /\ there \subseteq Folder /\ paused \subseteq Folder /\ stale \subseteq Folder
    /\ events \in 0..MaxEvents

TriggerInv == WorldOK /\ HubOK(hub) /\ RunnerOK

LEMMA SameRunner ==
    ASSUME RunnerOK, UNCHANGED <<runner, owed>>
    PROVE  RunnerOK'
  BY DEF RunnerOK, Runner, Owed, Covered

LEMMA SameWorld ==
    ASSUME WorldOK, UNCHANGED <<world, events>>
    PROVE  WorldOK'
  BY DEF WorldOK, world

LEMMA HappensOK ==
    ASSUME events \in 0..MaxEvents, Happens
    PROVE  events' \in 0..MaxEvents
  BY EventsAssumption DEF Happens

LEMMA ChangeKeeps ==
    ASSUME TriggerInv, NEW f \in Folder,
           Change(f) \/ Unmount(f) \/ Remount(f) \/ Break(f)
    PROVE  TriggerInv'
  <1>1. ASSUME NEW x \in Watcher, hub.watcher[f] # "none"
        PROVE  HubOK([hub EXCEPT !.watcher[f] = x])
    BY <1>1, WatcherOK DEF TriggerInv
  <1>2. CASE Change(f)
    <2>1. HubOK(hub')
      BY <1>1, <1>2, Zenon DEF TriggerInv, Change, Watcher
    <2>2. WorldOK'
      BY <1>2, HappensOK DEF TriggerInv, WorldOK, Change
    <2> QED  BY <1>2, <2>1, <2>2, SameRunner DEF TriggerInv, Change, HubOK, Quiet, Hub
  <1>3. CASE Unmount(f)
    <2>1. PICK x \in {"failing", "dead"} :
             hub' = IF hub.watcher[f] \in {"live", "changed"}
                    THEN [hub EXCEPT !.watcher[f] = x] ELSE hub
      BY <1>3 DEF Unmount
    <2>2. x \in Watcher /\ (hub.watcher[f] \in {"live", "changed"} => hub.watcher[f] # "none")
      BY DEF Watcher
    <2>3. HubOK(hub')
      BY <1>1, <2>1, <2>2, Zenon DEF TriggerInv
    <2>4. WorldOK'
      BY <1>3, HappensOK DEF TriggerInv, WorldOK, Unmount
    <2> QED  BY <1>3, <2>3, <2>4, SameRunner DEF TriggerInv, Unmount, HubOK, Quiet, Hub
  <1>4. CASE Remount(f)
    BY <1>4, SameRunner DEF TriggerInv, WorldOK, Remount, HubOK, Quiet, Hub
  <1>5. CASE Break(f)
    <2>1. hub.watcher[f] # "none" /\ hub' = [hub EXCEPT !.watcher[f] = "failing"]
      BY <1>5 DEF Break
    <2>2. HubOK(hub')
      BY <1>1, <2>1 DEF Watcher
    <2> QED  BY <1>5, <2>2, SameRunner, SameWorld DEF TriggerInv, Break
  <1> QED  BY <1>2, <1>3, <1>4, <1>5

LEMMA MarkKeeps ==
    ASSUME TriggerInv, NEW f \in Folder, markDirty(f)
    PROVE  TriggerInv'
  <1> DEFINE k == [hub EXCEPT !.watcher[f] = "live"]
  <1>1. HubOK(hub) /\ hub \in Hub /\ hub.watcher[f] # "none" /\ ~hub.degraded
    BY DEF TriggerInv, HubOK, Quiet, markDirty
  <1>2. HubOK(k)
    BY <1>1, WatcherOK DEF Watcher
  <1>3. k.degraded = hub.degraded /\ k.dirty = hub.dirty /\ hub.dirty \in SUBSET Folder
    BY <1>1 DEF Hub
  <1>4. hub' = [k EXCEPT !.dirty = hub.dirty \cup {f}]
    BY <1>1 DEF markDirty, Hub
  <1>5. HubOK(hub')
    BY <1>1, <1>2, <1>3, <1>4, DirtyOK
  <1> QED  BY <1>5, SameRunner, SameWorld DEF TriggerInv, markDirty

LEMMA FlushKeeps ==
    ASSUME TriggerInv, flushDirty
    PROVE  TriggerInv'
  <1>1. HubOK(hub) /\ hub.dirty \in SUBSET Folder
    BY DEF TriggerInv, HubOK, Hub
  <1>2. HubOK(Synced([hub EXCEPT !.dirty = {}], Wanted))
    BY <1>1, DirtyOK, SyncedOK
  <1>3. RunnerOK'
    BY <1>1, AskFoldersOK DEF TriggerInv, flushDirty
  <1> QED  BY <1>2, <1>3, SameWorld DEF TriggerInv, flushDirty

LEMMA ErrorKeeps ==
    ASSUME TriggerInv, NEW f \in Folder, handleWatchError(f)
    PROVE  TriggerInv'
  <1> DEFINE closed == closeOne(hub, f)
             h == Synced([closed EXCEPT !.dirty = {}], Wanted)
  <1>1. HubOK(hub) /\ hub.dirty \cup {f} \in SUBSET Folder
    BY DEF TriggerInv, HubOK, Hub
  <1>2. HubOK(closed)
    BY <1>1, CloseOK
  <1>3. HubOK([closed EXCEPT !.dirty = {}])
    BY <1>2, DirtyOK
  <1>4. HubOK(h)
    BY <1>3, SyncedOK
  <1>5. HubOK(handleCreationFailure(h, f))
    BY <1>4, FailureOK
  <1>6. RunnerOK'
    BY <1>1, AskFoldersOK DEF TriggerInv, handleWatchError
  <1> QED  BY <1>5, <1>6, SameWorld DEF TriggerInv, handleWatchError

LEMMA RebuildKeeps ==
    ASSUME TriggerInv, NEW f \in Folder, rebuildTimer(f)
    PROVE  TriggerInv'
  <1> DEFINE fired == [hub EXCEPT !.rebuild[f] = FALSE]
             h == IF hub.degraded THEN fired ELSE createOne(fired, f)
  <1>1. HubOK(fired) /\ fired.degraded = hub.degraded
    BY FiredOK DEF TriggerInv
  <1>2. HubOK(h)
    BY <1>1, CreateOK
  <1>3. IF h.watcher[f] = "live"
        THEN Ask(h.dirty \cup {f}) /\ hub' = Synced([h EXCEPT !.dirty = {}], Wanted)
        ELSE hub' = h /\ UNCHANGED <<runner, owed>>
    BY Zenon DEF rebuildTimer
  <1> HIDE DEF h
  <1>4. h.dirty \cup {f} \in SUBSET Folder
    BY <1>2 DEF HubOK, Hub
  <1>5. WorldOK'
    BY SameWorld DEF TriggerInv, rebuildTimer
  <1>6. CASE h.watcher[f] = "live"
    <2>1. HubOK(Synced([h EXCEPT !.dirty = {}], Wanted))
      BY <1>2, DirtyOK, SyncedOK
    <2> QED  BY <1>3, <1>4, <1>5, <1>6, <2>1, AskFoldersOK DEF TriggerInv
  <1>7. CASE h.watcher[f] # "live"
    BY <1>2, <1>3, <1>5, <1>7, SameRunner DEF TriggerInv
  <1> QED  BY <1>6, <1>7

LEMMA PauseKeeps ==
    ASSUME TriggerInv, NEW f \in Folder, Pause(f) \/ Resume(f)
    PROVE  TriggerInv'
  <1>1. CASE Pause(f)
    <2>1. HubOK(syncFolders(hub, Wanted \ {f}))
      BY SyncOK DEF TriggerInv
    <2>2. WorldOK'
      BY <1>1, HappensOK DEF TriggerInv, WorldOK, Pause
    <2> QED  BY <1>1, <2>1, <2>2, SameRunner DEF TriggerInv, Pause
  <1>2. CASE Resume(f)
    <2>1. HubOK(syncFolders(hub, there \ paused'))
      BY SyncOK DEF TriggerInv
    <2>2. WorldOK'
      BY <1>2 DEF TriggerInv, WorldOK, Resume
    <2> QED  BY <1>2, <2>1, <2>2, AskFullOK DEF TriggerInv, Resume
  <1> QED  BY <1>1, <1>2

LEMMA ScanKeeps ==
    ASSUME TriggerInv, scanTimer \/ EndRound \/ \E f \in Folder : ScanFolder(f)
    PROVE  TriggerInv'
  <1>1. CASE scanTimer
    <2>1. HubOK(Synced(hub, Wanted))
      BY SyncedOK DEF TriggerInv
    <2> QED  BY <1>1, <2>1, AskFullOK, SameWorld DEF TriggerInv, scanTimer
  <1>2. CASE EndRound
    <2>1. HubOK(syncFolders(hub, Wanted))
      BY SyncOK DEF TriggerInv
    <2>2. hub' = syncFolders(hub, Wanted) \/ hub' = hub
      BY <1>2 DEF EndRound
    <2>3. HubOK(hub')
      BY <2>1, <2>2 DEF TriggerInv
    <2>4. WorldOK'
      BY <1>2, SameWorld DEF TriggerInv, EndRound
    <2> QED  BY <1>2, <2>3, <2>4, EndRoundOK DEF TriggerInv
  <1>3. ASSUME NEW f \in Folder, ScanFolder(f) PROVE TriggerInv'
    <2>1. RunnerOK'
      BY <1>3, ScanFolderOK DEF TriggerInv
    <2>2. hub' = hub
      BY <1>3 DEF ScanFolder
    <2>3. WorldOK'
      BY <1>3 DEF TriggerInv, WorldOK, ScanFolder
    <2> QED  BY <2>1, <2>2, <2>3 DEF TriggerInv
  <1> QED  BY <1>1, <1>2, <1>3

LEMMA StepKeeps ==
    ASSUME TriggerInv, [Next]_vars
    PROVE  TriggerInv'
  <1>1. CASE UNCHANGED vars
    <2>1. UNCHANGED <<world, events>> /\ UNCHANGED <<runner, owed>> /\ hub' = hub
      BY <1>1 DEF vars
    <2> QED  BY <2>1, SameRunner, SameWorld DEF TriggerInv
  <1>2. CASE Next
    BY <1>2, ChangeKeeps, MarkKeeps, FlushKeeps, ErrorKeeps, RebuildKeeps, PauseKeeps,
       ScanKeeps, Zenon DEF Next
  <1> QED  BY <1>1, <1>2

LEMMA InitHolds ==
    ASSUME Init
    PROVE  TriggerInv
  <1>1. NoWatch \in Hub
    BY DEF NoWatch, Hub, Watcher, MaxFailures
  <1>2. HubOK(NoWatch)
    BY <1>1 DEF HubOK, Quiet, NoWatch, MaxFailures
  <1>3. HubOK(hub)
    BY <1>2, SyncOK DEF Init
  <1>4. RunnerOK
    BY DEF Init, RunnerOK, Runner, Owed, Covered
  <1>5. WorldOK
    BY EventsAssumption DEF Init, WorldOK
  <1> QED  BY <1>3, <1>4, <1>5 DEF TriggerInv

LEMMA Invariance == Spec => []TriggerInv
  <1>1. Init => TriggerInv
    BY InitHolds
  <1>2. TriggerInv /\ [Next]_vars => TriggerInv'
    BY StepKeeps
  <1> QED  BY <1>1, <1>2, PTL DEF Spec

(* Every variable keeps its type; in particular the failures that the hub  *)
(* counts for a folder (handleCreationFailure, src/fs-watcher.ts) never    *)
(* pass the limit at which it gives up.                                    *)
THEOREM TypeCorrect == Spec => []TypeOK
  <1>1. TriggerInv => TypeOK
    BY DEF TriggerInv, WorldOK, HubOK, Hub, Watcher, RunnerOK, Runner, Owed, TypeOK
  <1> QED  BY <1>1, Invariance, PTL

(* However requests interleave with rounds, a scan asked for a folder that *)
(* no later full request took over has been made when runScan comes to     *)
(* rest (queuedDirtyFolders, src/session-manager.ts).                      *)
THEOREM RequestsKept == Spec => []DirtyNotForgotten
  <1>1. TriggerInv => DirtyNotForgotten
    BY DEF TriggerInv, RunnerOK, Covered, DirtyNotForgotten
  <1> QED  BY <1>1, Invariance, PTL

(* A hub that has given up (degrade, src/fs-watcher.ts) never watches a     *)
(* folder or opens a window again, whatever timers still run.              *)
THEOREM QuietWhenDegraded == Spec => []DegradedIsQuiet
  <1>1. TriggerInv => DegradedIsQuiet
    BY DEF TriggerInv, HubOK, Quiet, DegradedIsQuiet
  <1> QED  BY <1>1, Invariance, PTL
----------------------------------------------------------------------------
(* Failures of a folder that can be watched. Only the failure handled after *)
(* an error event is ever added, and by then closeOne has begun anew.       *)

NotMore(h, k) == \A f \in Watchable : k.failures[f] <= h.failures[f]

LEMMA NotMoreDegrade ==
    ASSUME NEW h \in Hub
    PROVE  NotMore(h, degrade(h))
  <1>1. degrade(h).failures = [f \in Folder |-> IF h.watcher[f] = "none"
                                               THEN h.failures[f] ELSE 0]
    BY DEF degrade, Hub
  <1> QED  BY <1>1, WatchableAssumption, HubFields DEF NotMore, MaxFailures

LEMMA NotMoreClose ==
    ASSUME NEW h \in Hub, NEW f \in Folder
    PROVE  NotMore(h, closeOne(h, f)) /\ closeOne(h, f).failures[f] = 0
  <1>1. closeOne(h, f).failures = [h.failures EXCEPT ![f] = 0]
    BY DEF closeOne, Hub
  <1> QED  BY <1>1, WatchableAssumption, HubFields DEF NotMore, MaxFailures

(* The watch of such a folder is only ever missed while the folder is away. *)
LEMMA NotMoreCreate ==
    ASSUME NEW h \in Hub, NEW f \in Watchable
    PROVE  NotMore(h, createOne(h, f))
  <1> f \in Folder
    BY WatchableAssumption
  <1>1. CASE f \in there \cap Watchable /\ Supported
    <2>1. createOne(h, f).failures = [h.failures EXCEPT ![f] = 0]
      BY <1>1 DEF createOne, Hub
    <2> QED  BY <2>1, WatchableAssumption, HubFields DEF NotMore, MaxFailures
  <1>2. CASE ~(f \in there \cap Watchable /\ Supported)
    <2>1. createOne(h, f) = handleCreationFailure(h, f)
      BY <1>2, Zenon DEF createOne
    <2>2. CASE h.degraded
      BY <2>1, <2>2, WatchableAssumption, HubFields DEF handleCreationFailure, NotMore, MaxFailures
    <2>3. CASE ~h.degraded /\ f \notin there
      <3>1. createOne(h, f).failures = h.failures
        BY <2>1, <2>3 DEF handleCreationFailure, Hub
      <3> QED  BY <3>1, WatchableAssumption, HubFields DEF NotMore, MaxFailures
    <2>4. CASE ~h.degraded /\ f \in there
      <3>1. createOne(h, f) = degrade(h)
        BY <1>2, <2>1, <2>4, Zenon DEF handleCreationFailure
      <3> QED  BY <3>1, NotMoreDegrade
    <2> QED  BY <2>2, <2>3, <2>4
  <1> QED  BY <1>1, <1>2

LEMMA NotMoreSync ==
    ASSUME NEW h, HubOK(h), NEW wanted
    PROVE  NotMore(h, syncFolders(h, wanted))
  <1> DEFINE unwanted == {f \in Folder \ wanted : h.watcher[f] # "none"}
             missing  == {f \in wanted : h.watcher[f] = "none" /\ ~h.rebuild[f]}
             synced(f) == IF f \in unwanted THEN closeOne(h, f)
                          ELSE IF f \in missing /\ ~h.degraded THEN createOne(h, f) ELSE h
             w == [f \in Folder |-> synced(f).watcher[f]]
             r == [f \in Folder |-> synced(f).rebuild[f]]
             n == [f \in Folder |-> synced(f).failures[f]]
             merged == [h EXCEPT !.watcher = w, !.rebuild = r, !.failures = n]
  <1>1. syncFolders(h, wanted) =
          IF \E f \in missing : synced(f).degraded # h.degraded THEN degrade(h) ELSE merged
    BY Zenon DEF syncFolders
  <1>2. h \in Hub
    BY DEF HubOK
  <1>3. ASSUME NEW f \in Watchable PROVE synced(f).failures[f] <= h.failures[f]
    <2>1. h.failures[f] <= h.failures[f]
      BY <1>2, WatchableAssumption, HubFields DEF MaxFailures
    <2>2. f \in Folder
      BY WatchableAssumption
    <2> QED  BY <1>2, <2>1, <2>2, NotMoreClose, NotMoreCreate, Zenon DEF NotMore
  <1> HIDE DEF synced, missing, unwanted
  <1>4. merged.failures = n
    BY <1>2 DEF Hub
  <1>5. NotMore(h, merged)
    BY <1>3, <1>4, WatchableAssumption DEF NotMore
  <1> QED  BY <1>1, <1>2, <1>5, NotMoreDegrade

(* Where nothing is added the bound holds on. *)
LEMMA FewKept ==
    ASSUME ErrorsNeverAddUp, NotMore(hub, hub'), hub \in Hub, hub' \in Hub
    PROVE  ErrorsNeverAddUp'
  <1> SUFFICES ASSUME NEW f \in Watchable PROVE hub'.failures[f] <= 1
    BY DEF ErrorsNeverAddUp
  <1>1. f \in Folder /\ hub.failures[f] \in 0..MaxFailures /\ hub'.failures[f] \in 0..MaxFailures
    BY WatchableAssumption, HubFields
  <1> QED  BY <1>1 DEF ErrorsNeverAddUp, NotMore, MaxFailures

LEMMA NotMoreTwice ==
    ASSUME NEW h \in Hub, NEW k \in Hub, NEW l \in Hub, NotMore(h, k), NotMore(k, l)
    PROVE  NotMore(h, l)
  BY WatchableAssumption, HubFields DEF NotMore, MaxFailures

LEMMA NotMoreSame ==
    ASSUME NEW h \in Hub, NEW k \in Hub, k.failures = h.failures
    PROVE  NotMore(h, k)
  BY WatchableAssumption, HubFields DEF NotMore, MaxFailures

LEMMA NotMoreDirty ==
    ASSUME NEW h, HubOK(h)
    PROVE  /\ NotMore(h, Synced([h EXCEPT !.dirty = {}], Wanted))
           /\ HubOK(Synced([h EXCEPT !.dirty = {}], Wanted))
  <1> DEFINE k == [h EXCEPT !.dirty = {}]
  <1>1. HubOK(k) /\ HubOK(Synced(k, Wanted))
    BY DirtyOK, SyncedOK
  <1>2. k \in Hub /\ h \in Hub /\ Synced(k, Wanted) \in Hub
    BY <1>1 DEF HubOK
  <1>3. k.failures = h.failures
    BY <1>2 DEF Hub
  <1>4. NotMore(h, k)
    BY <1>2, <1>3, NotMoreSame
  <1> HIDE DEF k
  <1>5. NotMore(k, Synced(k, Wanted))
    BY <1>1, <1>2, NotMoreSync, NotMoreSame DEF Synced
  <1>6. NotMore(h, Synced(k, Wanted))
    BY <1>2, <1>4, <1>5, NotMoreTwice
  <1> QED  BY <1>1, <1>6 DEF k

LEMMA FewStep ==
    ASSUME TriggerInv, TriggerInv', ErrorsNeverAddUp, [Next]_vars
    PROVE  ErrorsNeverAddUp'
  <1>1. HubOK(hub) /\ hub \in Hub /\ hub' \in Hub
    BY DEF TriggerInv, HubOK
  <1>2. ASSUME hub'.failures = hub.failures PROVE ErrorsNeverAddUp'
    BY <1>1, <1>2, FewKept, NotMoreSame
  <1>3. ASSUME NEW f \in Folder, NEW x, hub' = [hub EXCEPT !.watcher[f] = x]
        PROVE  hub'.failures = hub.failures
    BY <1>1, <1>3 DEF Hub
  <1>4. ASSUME NEW f \in Folder,
               Change(f) \/ Unmount(f) \/ Remount(f) \/ Break(f) \/ ScanFolder(f)
        PROVE  ErrorsNeverAddUp'
    <2>1. hub' = hub \/ \E x : hub' = [hub EXCEPT !.watcher[f] = x]
      BY <1>4, Zenon DEF Change, Unmount, Remount, Break, ScanFolder
    <2> QED  BY <1>2, <1>3, <2>1
  <1>5. ASSUME NEW f \in Folder, markDirty(f) PROVE ErrorsNeverAddUp'
    <2>1. hub' = [hub EXCEPT !.watcher[f] = "live", !.dirty = @ \cup {f}]
      BY <1>5 DEF markDirty
    <2>2. hub'.failures = hub.failures
      BY <1>1, <2>1 DEF Hub
    <2> QED  BY <1>2, <2>2
  <1>6. CASE flushDirty
    BY <1>1, <1>6, NotMoreDirty, FewKept DEF flushDirty
  <1>7. ASSUME NEW f \in Folder, handleWatchError(f) PROVE ErrorsNeverAddUp'
    <2> DEFINE closed == closeOne(hub, f)
               h == Synced([closed EXCEPT !.dirty = {}], Wanted)
    <2>1. HubOK(closed) /\ NotMore(hub, closed) /\ closed.failures[f] = 0
      BY <1>1, CloseOK, NotMoreClose
    <2>2. HubOK(h) /\ NotMore(closed, h)
      BY <2>1, NotMoreDirty
    <2>3. hub' = handleCreationFailure(h, f)
      BY <1>7 DEF handleWatchError
    <2> HIDE DEF h, closed
    <2>4. h \in Hub /\ closed \in Hub
      BY <2>1, <2>2 DEF HubOK
    <2>5. NotMore(hub, h)
      BY <1>1, <2>1, <2>2, <2>4, NotMoreTwice
    <2>6. \/ hub'.failures = h.failures
          \/ hub' = degrade(h)
          \/ hub'.failures = [h.failures EXCEPT ![f] = @ + 1]
          \/ hub' = degrade([h EXCEPT !.failures[f] = @ + 1])
      <3>1. [h EXCEPT !.rebuild[f] = TRUE].failures = h.failures
        BY <2>4 DEF Hub
      <3>2. [h EXCEPT !.failures[f] = @ + 1, !.rebuild[f] = TRUE].failures
              = [h.failures EXCEPT ![f] = @ + 1]
        BY <2>4 DEF Hub
      <3> QED  BY <2>3, <3>1, <3>2, Zenon DEF handleCreationFailure
    <2>7. h.failures[f] \in 0..MaxFailures /\ (f \in Watchable => h.failures[f] = 0)
      BY <2>1, <2>2, <2>4, HubFields DEF NotMore, MaxFailures
    <2>8. CASE hub'.failures = h.failures \/ hub' = degrade(h)
      <3>1. NotMore(h, hub')
        BY <1>1, <2>4, <2>8, NotMoreSame, NotMoreDegrade
      <3> QED  BY <1>1, <2>4, <2>5, <3>1, NotMoreTwice, FewKept
    <2> DEFINE n == [h.failures EXCEPT ![f] = @ + 1]
               counted == [h EXCEPT !.failures[f] = @ + 1]
    <2>9. \A g \in Watchable : n[g] <= 1 /\ n[g] \in Nat
      BY <2>4, <2>5, <2>7, WatchableAssumption, HubFields, <1>1 DEF NotMore, ErrorsNeverAddUp, MaxFailures
    <2>10. CASE hub'.failures = n
      BY <2>9, <2>10 DEF ErrorsNeverAddUp
    <2>11. CASE hub' = degrade(counted)
      <3>1. counted.failures = n /\ counted.watcher = h.watcher
        BY <2>4 DEF Hub
      <3>2. hub'.failures = [g \in Folder |-> IF h.watcher[g] = "none" THEN n[g] ELSE 0]
        BY <2>4, <2>11, <3>1 DEF degrade, Hub
      <3> HIDE DEF n, counted
      <3> QED  BY <2>9, <3>2, WatchableAssumption DEF ErrorsNeverAddUp
    <2> QED  BY <2>6, <2>8, <2>10, <2>11
  <1>8. ASSUME NEW f \in Folder, rebuildTimer(f) PROVE ErrorsNeverAddUp'
    <2> DEFINE fired == [hub EXCEPT !.rebuild[f] = FALSE]
               h == IF hub.degraded THEN fired ELSE createOne(fired, f)
    <2>1. HubOK(fired) /\ fired.degraded = hub.degraded /\ fired \in Hub
      BY <1>1, FiredOK DEF HubOK
    <2>2. fired.failures = hub.failures
      BY <1>1 DEF Hub
    <2>3. HubOK(h)
      BY <2>1, CreateOK
    <2>4. \/ hub' = Synced([h EXCEPT !.dirty = {}], Wanted)
          \/ hub' = h
      BY <1>8, Zenon DEF rebuildTimer
    <2>5. \A g \in Watchable : h.failures[g] <= 1
      <3>1. \A g \in Watchable : fired.failures[g] <= 1 /\ fired.failures[g] \in Nat
        BY <1>1, <2>2, WatchableAssumption, HubFields DEF ErrorsNeverAddUp, MaxFailures
      <3>2. CASE h = fired
        BY <3>1, <3>2
      <3>3. CASE h = createOne(fired, f) /\ f \in Watchable
        <4>1. NotMore(fired, h)
          BY <2>1, <3>3, NotMoreCreate
        <4> HIDE DEF h, fired
        <4>2. \A g \in Watchable : h.failures[g] \in Nat
          BY <2>3, WatchableAssumption, HubFields DEF HubOK, MaxFailures
        <4> QED  BY <3>1, <4>1, <4>2 DEF NotMore
      <3>4. CASE h = createOne(fired, f) /\ f \notin Watchable
        <4> HIDE DEF fired
        <4>1. h = handleCreationFailure(fired, f)
          BY <3>4, Zenon DEF createOne
        <4> HIDE DEF h
        <4> DEFINE n == [fired.failures EXCEPT ![f] = @ + 1]
                   counted == [fired EXCEPT !.failures[f] = @ + 1]
        <4>2. /\ [fired EXCEPT !.rebuild[f] = TRUE].failures = fired.failures
              /\ [fired EXCEPT !.failures[f] = @ + 1, !.rebuild[f] = TRUE].failures = n
              /\ counted.failures = n /\ counted.watcher = fired.watcher
              /\ degrade(fired).failures = [g \in Folder |-> IF fired.watcher[g] = "none"
                                                             THEN fired.failures[g] ELSE 0]
          BY <2>1 DEF Hub, degrade
        <4>3. degrade(counted).failures = [g \in Folder |-> IF fired.watcher[g] = "none"
                                                           THEN n[g] ELSE 0]
          BY <2>1, <4>2 DEF Hub, degrade
        <4>4. \A g \in Watchable : g # f /\ g \in Folder /\ n[g] = fired.failures[g]
          BY <2>1, <3>4, WatchableAssumption, HubFields
        <4>5. \/ h.failures = fired.failures
              \/ h.failures = n
              \/ h.failures = degrade(fired).failures
              \/ h.failures = degrade(counted).failures
          BY <4>1, <4>2, Zenon DEF handleCreationFailure
        <4> HIDE DEF n, counted
        <4> QED  BY <3>1, <4>2, <4>3, <4>4, <4>5
      <3> QED  BY <3>2, <3>3, <3>4
    <2> HIDE DEF h, fired
    <2>6. CASE hub' = h
      BY <2>5, <2>6 DEF ErrorsNeverAddUp
    <2>7. CASE hub' = Synced([h EXCEPT !.dirty = {}], Wanted)
      <3>1. NotMore(h, hub') /\ h \in Hub
        BY <2>3, <2>7, NotMoreDirty DEF HubOK
      <3>2. \A g \in Watchable : h.failures[g] \in Nat /\ hub'.failures[g] \in Nat
        BY <1>1, <3>1, WatchableAssumption, HubFields DEF MaxFailures
      <3> QED  BY <2>5, <3>1, <3>2 DEF NotMore, ErrorsNeverAddUp
    <2> QED  BY <2>4, <2>6, <2>7
  <1>9. ASSUME NEW f \in Folder, Pause(f) \/ Resume(f) PROVE ErrorsNeverAddUp'
    <2>1. PICK wanted : hub' = syncFolders(hub, wanted)
      BY <1>9 DEF Pause, Resume
    <2> QED  BY <1>1, <2>1, NotMoreSync, FewKept
  <1>10. CASE scanTimer \/ EndRound
    <2>1. hub' = hub \/ \E wanted : hub' = syncFolders(hub, wanted)
      BY <1>10, Zenon DEF scanTimer, EndRound, Synced
    <2> QED  BY <1>1, <1>2, <2>1, NotMoreSync, FewKept
  <1>11. CASE UNCHANGED vars
    BY <1>2, <1>11 DEF vars
  <1> QED  BY <1>4, <1>5, <1>6, <1>7, <1>8, <1>9, <1>10, <1>11, Zenon DEF Next

(* For any folders, of which any may be impossible to watch or fail while  *)
(* being watched: the error events of a folder that can be watched never   *)
(* count as more than one failure (closeOne and createOne,                 *)
(* src/fs-watcher.ts), so they alone never make the hub give up.           *)
THEOREM ErrorsDoNotAddUp == Spec => []ErrorsNeverAddUp
  <1>1. Init => ErrorsNeverAddUp
    <2> SUFFICES ASSUME Init PROVE ErrorsNeverAddUp
      OBVIOUS
    <2>1. NoWatch \in Hub
      BY DEF NoWatch, Hub, Watcher, MaxFailures
    <2>2. HubOK(NoWatch) /\ \A f \in Folder : NoWatch.failures[f] = 0
      BY <2>1 DEF HubOK, Quiet, NoWatch, MaxFailures
    <2>3. NotMore(NoWatch, hub) /\ hub \in Hub
      BY <2>2, NotMoreSync, InitHolds DEF Init, TriggerInv, HubOK
    <2> QED  BY <2>2, <2>3, WatchableAssumption, HubFields
             DEF NotMore, ErrorsNeverAddUp, MaxFailures
  <1>2. TriggerInv /\ TriggerInv' /\ ErrorsNeverAddUp /\ [Next]_vars => ErrorsNeverAddUp'
    BY FewStep
  <1> QED  BY <1>1, <1>2, Invariance, PTL DEF Spec
=============================================================================
