----------------------------- MODULE ScanTrigger -----------------------------
(***************************************************************************)
(* What makes the daemon scan a folder: the watcher of each folder and its *)
(* window of dirty folders (FolderWatchHub, src/fs-watcher.ts), the queue  *)
(* of scan requests (runScan, src/session-manager.ts), pauses and the      *)
(* timer of the full scan (src/cli.ts). The scan of one folder is one step *)
(* here; FolderScan is about what happens inside it.                       *)
(*                                                                         *)
(* A folder may be unmounted and come back with the same identity. Ignored *)
(* events, which the hub drops, are left out.                              *)
(***************************************************************************)
EXTENDS Integers, FiniteSets

CONSTANTS
    Folder,         \* shared folders
    All,            \* undefined: a request for every folder
    Watchable,      \* folders that fs.watch can watch (not so on some file systems)
    Flaky,          \* folders whose watch may fail while they are there
    Supported,      \* FALSE: fs.watch reports that the platform cannot watch at all
    MaxEvents       \* bound: changes, pauses and unmounts

ASSUME WatchableAssumption == Watchable \subseteq Folder
ASSUME FlakyAssumption == Flaky \subseteq Folder
ASSUME SupportedAssumption == Supported \in BOOLEAN
ASSUME AllAssumption == \A S \in SUBSET Folder : All # S
ASSUME EventsAssumption == MaxEvents \in Nat

VARIABLES
    there,      \* folders that are mounted
    paused,     \* paused folders
    stale,      \* folders changed since a scan last read them
    hub,        \* FolderWatchHub: watcher, rebuild, failures per folder, degraded, dirty
    runner,     \* runScan: scanning, the rest of the round, queued, queuedDirtyFolders
    owed,       \* history: scans of <<folder, kind of the request>> still to come; a full
                \* request takes those for single folders over
    events      \* changes, pauses and unmounts so far

world == <<there, paused, stale>>
vars == <<world, hub, runner, owed, events>>

(* MAX_CONSECUTIVE_CREATION_FAILURES *)
MaxFailures == 3

----------------------------------------------------------------------------
(* FolderWatchHub. The watcher of a folder is live, has a change event or  *)
(* an error event to deliver (changed, failing), or is dead without a word. *)

(* Mutant of closeOne: the count of failures outlives the watcher. *)
closeOneKeepsFailures(h, f) ==
    [h EXCEPT !.watcher[f] = "none", !.rebuild[f] = FALSE]

closeOne(h, f) ==
    [h EXCEPT !.watcher[f] = "none", !.rebuild[f] = FALSE, !.failures[f] = 0]

(* Every watcher is closed. A rebuild timer of a folder without one runs   *)
(* on and then does nothing.                                               *)
degrade(h) ==
    [h EXCEPT !.watcher  = [f \in Folder |-> "none"],
              !.rebuild  = [f \in Folder |-> h.rebuild[f] /\ h.watcher[f] = "none"],
              !.failures = [f \in Folder |-> IF h.watcher[f] = "none" THEN @[f] ELSE 0],
              !.degraded = TRUE,
              !.dirty    = {}]

(* Mutant of handleCreationFailure: failures are not counted. *)
handleCreationFailureUncounted(h, f) ==
    IF h.degraded THEN h ELSE [h EXCEPT !.rebuild[f] = TRUE]

(* Mutant of handleCreationFailure: one failure more is allowed. *)
handleCreationFailureLate(h, f) ==
    IF h.degraded THEN h
    ELSE IF f \notin there THEN [h EXCEPT !.rebuild[f] = TRUE]
    ELSE IF ~Supported THEN degrade(h)
    ELSE IF h.failures[f] + 1 > MaxFailures THEN degrade([h EXCEPT !.failures[f] = @ + 1])
    ELSE [h EXCEPT !.failures[f] = @ + 1, !.rebuild[f] = TRUE]

(* A folder that is away is tried again; a platform that cannot watch is    *)
(* given up, at once if it says so and else after MaxFailures in a row.     *)
handleCreationFailure(h, f) ==
    IF h.degraded THEN h
    ELSE IF f \notin there THEN [h EXCEPT !.rebuild[f] = TRUE]
    ELSE IF ~Supported THEN degrade(h)
    ELSE IF h.failures[f] + 1 >= MaxFailures THEN degrade([h EXCEPT !.failures[f] = @ + 1])
    ELSE [h EXCEPT !.failures[f] = @ + 1, !.rebuild[f] = TRUE]

createOne(h, f) ==
    IF f \in there \cap Watchable /\ Supported
    THEN [h EXCEPT !.watcher[f] = "live", !.failures[f] = 0]
    ELSE handleCreationFailure(h, f)

(* Folders in wanted keep or get a watcher, the others lose theirs. Their   *)
(* order does not matter: they only meet when the platform is given up.    *)
syncFolders(h, wanted) ==
    LET unwanted == {f \in Folder \ wanted : h.watcher[f] # "none"}
        missing  == {f \in wanted : h.watcher[f] = "none" /\ ~h.rebuild[f]}
        synced(f) == IF f \in unwanted THEN closeOne(h, f)
                     ELSE IF f \in missing /\ ~h.degraded THEN createOne(h, f) ELSE h
    IN  IF \E f \in missing : synced(f).degraded # h.degraded THEN degrade(h)
        ELSE [h EXCEPT !.watcher  = [f \in Folder |-> synced(f).watcher[f]],
                       !.rebuild  = [f \in Folder |-> synced(f).rebuild[f]],
                       !.failures = [f \in Folder |-> synced(f).failures[f]]]

----------------------------------------------------------------------------
(* runScan.                                                                *)

Asked(request) == IF request = All THEN Folder ELSE request

(* Mutant of Coalesced: the latest request replaces those queued. *)
CoalescedLatest(request) == request

(* queuedDirtyFolders; after a full request it is undefined again, which   *)
(* also is what it is when nothing is queued.                              *)
Coalesced(request) ==
    IF request = All THEN All
    ELSE IF runner.queuedDirty # All THEN runner.queuedDirty \cup request
    ELSE request

(* The hub after a request made when it is h: a round starts with           *)
(* syncWatchers, and a request made during a round only waits.              *)
Synced(h, wanted) == IF runner.scanning THEN h ELSE syncFolders(h, wanted)

Ask(request) ==
    /\ owed' = IF request = All THEN Folder \X {"full"} ELSE owed \cup (request \X {"folders"})
    /\ runner' = IF runner.scanning
                 THEN [runner EXCEPT !.queued = TRUE, !.queuedDirty = Coalesced(request)]
                 ELSE [runner EXCEPT !.scanning = TRUE, !.batch = Asked(request), !.queued = FALSE]

----------------------------------------------------------------------------
Wanted == there \ paused

NoWatch == [watcher  |-> [f \in Folder |-> "none"],  rebuild  |-> [f \in Folder |-> FALSE],
            failures |-> [f \in Folder |-> 0],       degraded |-> FALSE,
            dirty    |-> {}]

Init ==
    /\ there = Folder /\ paused = {} /\ stale = {}
    /\ hub = syncFolders(NoWatch, Folder)
    /\ runner = [scanning |-> FALSE, batch |-> {}, queued |-> FALSE, queuedDirty |-> All]
    /\ owed = {}
    /\ events = 0

Happens == events < MaxEvents /\ events' = events + 1

(* A file changes; a live watcher has an event to deliver.                 *)
Change(f) ==
    /\ Happens /\ f \in there
    /\ stale' = stale \cup {f}
    /\ hub' = IF hub.watcher[f] = "live" THEN [hub EXCEPT !.watcher[f] = "changed"] ELSE hub
    /\ UNCHANGED <<there, paused, runner, owed>>

(* A watcher whose folder goes away reports an error or falls silent.      *)
Unmount(f) ==
    /\ Happens /\ f \in there
    /\ there' = there \ {f}
    /\ \E state \in {"failing", "dead"} :
          hub' = IF hub.watcher[f] \in {"live", "changed"}
                 THEN [hub EXCEPT !.watcher[f] = state] ELSE hub
    /\ UNCHANGED <<paused, stale, runner, owed>>

(* A watch that was made fails although its folder is there: the platforms *)
(* whose errors come "through the error event" (fs-watcher.ts:95).         *)
Break(f) ==
    /\ f \in Flaky \cap there /\ hub.watcher[f] \in {"live", "changed"}
    /\ hub' = [hub EXCEPT !.watcher[f] = "failing"]
    /\ UNCHANGED <<world, runner, owed, events>>

(* The folder is back, with changes made elsewhere.                        *)
Remount(f) ==
    /\ f \notin there
    /\ there' = there \cup {f}
    /\ stale' = stale \cup {f}
    /\ UNCHANGED <<paused, hub, runner, owed, events>>

markDirty(f) ==
    /\ hub.watcher[f] = "changed"
    /\ hub' = [hub EXCEPT !.watcher[f] = "live", !.dirty = @ \cup {f}]
    /\ UNCHANGED <<world, runner, owed, events>>

(* The window of dirty folders closes.                                     *)
flushDirty ==
    /\ hub.dirty # {}
    /\ Ask(hub.dirty)
    /\ hub' = Synced([hub EXCEPT !.dirty = {}], Wanted)
    /\ UNCHANGED <<world, events>>

(* The watcher is closed, its folder scanned at once, and only then is the *)
(* failure handled.                                                        *)
handleWatchError(f) ==
    /\ hub.watcher[f] = "failing"
    /\ Ask(hub.dirty \cup {f})
    /\ hub' = handleCreationFailure(
                 Synced([closeOne(hub, f) EXCEPT !.dirty = {}], Wanted), f)
    /\ UNCHANGED <<world, events>>

(* A folder that is back is watched again and scanned at once.             *)
rebuildTimer(f) ==
    /\ hub.rebuild[f] /\ f \in there
    /\ LET fired == [hub EXCEPT !.rebuild[f] = FALSE]
           h == IF hub.degraded THEN fired ELSE createOne(fired, f)
       IN  IF h.watcher[f] = "live"
           THEN Ask(h.dirty \cup {f}) /\ hub' = Synced([h EXCEPT !.dirty = {}], Wanted)
           ELSE hub' = h /\ UNCHANGED <<runner, owed>>
    /\ UNCHANGED <<world, events>>

(* The watchers are reconciled and a folder that is resumed is scanned.    *)
Pause(f) ==
    /\ Happens /\ f \notin paused
    /\ paused' = paused \cup {f}
    /\ hub' = syncFolders(hub, Wanted \ {f})
    /\ UNCHANGED <<there, stale, runner, owed>>

Resume(f) ==
    /\ f \in paused
    /\ paused' = paused \ {f}
    /\ Ask(All)
    /\ hub' = syncFolders(hub, there \ paused')
    /\ UNCHANGED <<there, stale, events>>

(* Mutant of scanTimer: not set again when the hub gives up. *)
scanTimerOfHub ==
    /\ ~hub.degraded /\ stale # {}
    /\ Ask(All)
    /\ hub' = Synced(hub, Wanted)
    /\ UNCHANGED <<world, events>>

(* setInterval(runScan): 600 s while watchers work, 5 s otherwise. A round  *)
(* with nothing to find is left out.                                       *)
scanTimer ==
    /\ stale # {}
    /\ Ask(All)
    /\ hub' = Synced(hub, Wanted)
    /\ UNCHANGED <<world, events>>

(* scanOnce comes to a folder; those paused or not there are skipped.      *)
ScanFolder(f) ==
    /\ runner.scanning /\ f \in runner.batch
    /\ runner' = [runner EXCEPT !.batch = @ \ {f}]
    /\ owed' = {o \in owed : o[1] # f}
    /\ stale' = IF f \in Wanted THEN stale \ {f} ELSE stale
    /\ UNCHANGED <<there, paused, hub, events>>

(* The round is over: another one for what was queued, or none.            *)
EndRound ==
    /\ runner.scanning /\ runner.batch = {}
    /\ IF runner.queued
       THEN /\ runner' = [scanning |-> TRUE, batch |-> Asked(runner.queuedDirty),
                          queued |-> FALSE, queuedDirty |-> All]
            /\ hub' = syncFolders(hub, Wanted)
       ELSE runner' = [runner EXCEPT !.scanning = FALSE] /\ UNCHANGED hub
    /\ UNCHANGED <<world, owed, events>>

Scanning == EndRound \/ \E f \in Folder : ScanFolder(f)

Next ==
    \/ flushDirty \/ scanTimer \/ EndRound
    \/ \E f \in Folder :
        \/ Change(f) \/ Unmount(f) \/ Remount(f) \/ Break(f)
        \/ markDirty(f) \/ handleWatchError(f) \/ rebuildTimer(f)
        \/ Pause(f) \/ Resume(f) \/ ScanFolder(f)

(* Timers fire, events are delivered, rounds end; folders come back, paused *)
(* ones need not.                                                          *)
Fairness ==
    /\ WF_vars(Scanning) /\ WF_vars(flushDirty) /\ WF_vars(scanTimer)
    /\ \A f \in Folder :
        /\ WF_vars(markDirty(f)) /\ WF_vars(handleWatchError(f)) /\ WF_vars(rebuildTimer(f))
        /\ WF_vars(Remount(f))

Spec == Init /\ [][Next]_vars /\ Fairness

----------------------------------------------------------------------------
(* Types of the variables.                                                 *)
TypeOK ==
    /\ there \subseteq Folder /\ paused \subseteq Folder /\ stale \subseteq Folder
    /\ owed \subseteq Folder \X {"full", "folders"}
    /\ hub \in [watcher : [Folder -> {"none", "live", "changed", "failing", "dead"}],
                rebuild : [Folder -> BOOLEAN], failures : [Folder -> 0..MaxFailures],
                degraded : BOOLEAN, dirty : SUBSET Folder]
    /\ runner \in [scanning : BOOLEAN, batch : SUBSET Folder, queued : BOOLEAN,
                   queuedDirty : {All} \cup SUBSET Folder]
    /\ events \in 0..MaxEvents

(* When no scan runs, every scan that was asked for has been made: requests *)
(* that arrive during a scan are merged, never lost (the comment on runScan: *)
(* "bounded and nothing is missed").                                       *)
NoneForgotten == ~runner.scanning => owed = {}

(* The same of requests for folders after which no full scan was asked for. *)
DirtyNotForgotten == ~runner.scanning => \A f \in Folder : <<f, "folders">> \notin owed

(* Once the platform is found unable to watch, the hub watches nothing and *)
(* owes no scan ("from then on markDirty and syncFolders do nothing",      *)
(* degrade): the timer alone scans, at the pace it has without watchers.   *)
DegradedIsQuiet ==
    hub.degraded => hub.dirty = {} /\ \A f \in Folder : hub.watcher[f] = "none"

(* A change in a folder that is there and not paused is scanned sooner or  *)
(* later, whatever watchers miss.                                          *)
ChangesScanned == \A f \in Folder : []<>(f \in stale => f \notin Wanted)

(* A folder whose watch cannot be made is not tried for ever ("avoids an   *)
(* endless rebuild loop", MAX_CONSECUTIVE_CREATION_FAILURES). A watch that *)
(* is made and fails is not given up like that: ErrorsNeverAddUp.          *)
CreationGivenUp == <>[](\A f \in Folder \ Watchable : ~hub.rebuild[f])

(* However often the watch of a folder fails through its error event, no   *)
(* more than one failure is ever counted, as closeOne and createOne begin  *)
(* anew: the limit ends failing attempts to make a watch, not that loop.   *)
ErrorsNeverAddUp == \A f \in Watchable : hub.failures[f] <= 1

=============================================================================
