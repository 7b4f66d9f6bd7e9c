----------------------------- MODULE SelfUpdate -----------------------------
(***************************************************************************)
(* The update of the installed package (src/selfupdate.ts): the daemon     *)
(* accepts a package, hands it to a detached updater and exits; the        *)
(* updater swaps directories, starts the new daemon, watches it for a      *)
(* moment and goes back to the old package when it does not live. The      *)
(* updater may be killed at any point, and its calls may fail.             *)
(*                                                                         *)
(* A package is a version. Removing or copying a directory takes two       *)
(* steps, so that a crash can leave it half done. A process is known by    *)
(* the number of its start.                                                *)
(***************************************************************************)
EXTENDS Naturals

CONSTANTS
    Installed,  \* the version installed at first
    Update,     \* versions that are offered, each once
    Bad,        \* those whose daemon dies at once, although "-v" prints the version
    Faults,     \* updater states in which a call may fail, or the wait for the old process
    Meddling,   \* users update or start the daemon while an updater is at work
    MaxFaults,  \* bound: calls that fail
    MaxCrashes, \* bound: crashes
    MaxStarts   \* bound: starts by hand

ASSUME UpdateAssumption ==
    /\ Installed \notin Update /\ Bad \subseteq Update
    /\ {"absent", "torn"} \cap (Update \cup {Installed}) = {}
ASSUME BoundAssumption == MaxFaults \in Nat /\ MaxCrashes \in Nat /\ MaxStarts \in Nat

VARIABLES
    dir,        \* the directories: the installed package, its backup, the copy of the new one
    daemon,     \* the process that has the control port; 0: none runs
    leaving,    \* it has answered an update and is about to exit
    pc,         \* pc[u]: what the updater of u does next
    old,        \* old[u]: the process it waits for
    child,      \* child[u]: the process it has started; 0: that died at once
    result,     \* result[u]: update-done.json
    starts, byHand, faults, crashes

vars == <<dir, daemon, leaving, pc, old, child, result, starts, byHand, faults, crashes>>

Version == Update \cup {Installed}
Absent == "absent"
Torn == "torn"      \* a part of a package
Whole(d) == dir[d] \notin {Absent, Torn}

alive(pid) == daemon # 0 /\ daemon = pid
AtWork == {u \in Update : pc[u] \notin {"offered", "ended"}}

(* What an updater renames and removes, in which state. *)
Renaming == [moving   |-> [from |-> "target", to |-> "backup"],
             placing  |-> [from |-> "local",  to |-> "target"],
             restoring |-> [from |-> "backup", to |-> "target"],
             returning |-> [from |-> "backup", to |-> "target"]]

(* Mutant of Removing: room is made by removing the installed package. *)
RemovingTarget == [dropping |-> "target", tidying |-> "backup", undoing |-> "target"]

Removing == [dropping |-> "backup", tidying |-> "backup", undoing |-> "target"]

After == [waiting |-> "clearing", clearing |-> "copying", copying |-> "dropping",
          dropping |-> "moving", moving |-> "placing", placing |-> "starting",
          starting |-> "watching", watching |-> "tidying", tidying |-> "reporting",
          reporting |-> "ended", restoring |-> "ended", undoing |-> "returning",
          returning |-> "restarting", restarting |-> "admitting", admitting |-> "ended"]

(* Where a failing call leads: a swap that has begun is undone. *)
OnFailure == [waiting |-> "ended", clearing |-> "ended", copying |-> "ended",
              dropping |-> "ended", moving |-> "ended", placing |-> "restoring",
              restoring |-> "undoing", starting |-> "undoing", watching |-> "undoing",
              tidying |-> "undoing", reporting |-> "undoing", undoing |-> "ended",
              returning |-> "ended", restarting |-> "ended", admitting |-> "ended"]

Goto(u, next, verdict) ==
    /\ pc' = [pc EXCEPT ![u] = next]
    /\ result' = [result EXCEPT ![u] = IF next = "ended" THEN verdict ELSE @]
----------------------------------------------------------------------------
Init ==
    /\ dir = [target |-> Installed, backup |-> Absent, local |-> Absent]
    /\ daemon = 1 /\ leaving = FALSE
    /\ pc = [u \in Update |-> "offered"]
    /\ old = [u \in Update |-> 0]
    /\ child = [u \in Update |-> 0]
    /\ result = [u \in Update |-> "none"]
    /\ starts = 1 /\ byHand = 0 /\ faults = 0 /\ crashes = 0

(* runSelfUpdate: the package is valid, an updater is dispatched, and the  *)
(* daemon exits soon after its answer.                                     *)
runSelfUpdate(u) ==
    /\ pc[u] = "offered" /\ daemon # 0
    /\ Meddling \/ AtWork = {}
    /\ pc' = [pc EXCEPT ![u] = "waiting"]
    /\ old' = [old EXCEPT ![u] = daemon]
    /\ leaving' = TRUE
    /\ UNCHANGED <<dir, daemon, child, result, starts, byHand, faults, crashes>>

shutdown ==
    /\ daemon # 0 /\ leaving
    /\ daemon' = 0
    /\ leaving' = FALSE
    /\ UNCHANGED <<dir, pc, old, child, result, starts, byHand, faults, crashes>>

Wait(u) ==
    /\ pc[u] = "waiting" /\ ~alive(old[u])
    /\ Goto(u, After["waiting"], "none")
    /\ UNCHANGED <<dir, daemon, leaving, old, child, starts, byHand, faults, crashes>>

(* The copy of an earlier updater is removed, and the package is copied.   *)
Copy(u) ==
    /\ \/ pc[u] = "clearing" /\ dir' = [dir EXCEPT !.local = Torn]
       \/ pc[u] = "copying" /\ dir' = [dir EXCEPT !.local = u]
    /\ Goto(u, After[pc[u]], "none")
    /\ UNCHANGED <<daemon, leaving, old, child, starts, byHand, faults, crashes>>

Remove(u) ==
    /\ pc[u] \in DOMAIN Removing
    /\ LET d == Removing[pc[u]]
       IN  \/ /\ Whole(d)
              /\ dir' = [dir EXCEPT ![d] = Torn]
              /\ UNCHANGED <<pc, result>>
           \/ /\ ~Whole(d)
              /\ dir' = [dir EXCEPT ![d] = Absent]
              /\ Goto(u, After[pc[u]], "none")
    /\ UNCHANGED <<daemon, leaving, old, child, starts, byHand, faults, crashes>>

CanRename(r) == dir[r.from] # Absent /\ dir[r.to] = Absent

Rename(u) ==
    /\ pc[u] \in DOMAIN Renaming
    /\ LET r == Renaming[pc[u]]
       IN  /\ CanRename(r)
           /\ dir' = [dir EXCEPT ![r.to] = dir[r.from], ![r.from] = Absent]
    /\ Goto(u, After[pc[u]], "failed")
    /\ UNCHANGED <<daemon, leaving, old, child, starts, byHand, faults, crashes>>

(* The process started from the installed package lives if that is whole   *)
(* and good and no other daemon has the port.                              *)
Started(pid) ==
    /\ starts' = pid
    /\ daemon' = IF Whole("target") /\ dir.target \notin Bad /\ daemon = 0 THEN pid ELSE daemon

Spawn(u) ==
    /\ pc[u] = "starting"
    /\ Started(starts + 1)
    /\ child' = [child EXCEPT ![u] = IF daemon' = starts + 1 THEN daemon' ELSE 0]
    /\ Goto(u, After["starting"], "none")
    /\ UNCHANGED <<dir, leaving, old, byHand, faults, crashes>>

(* Mutant of Watch: that the process was started is enough. *)
WatchBlindly(u) ==
    /\ pc[u] = "watching"
    /\ Goto(u, After["watching"], "none")
    /\ UNCHANGED <<dir, daemon, leaving, old, child, starts, byHand, faults, crashes>>

Watch(u) ==
    /\ pc[u] = "watching"
    /\ Goto(u, IF alive(child[u]) THEN After["watching"] ELSE OnFailure["watching"], "none")
    /\ UNCHANGED <<dir, daemon, leaving, old, child, starts, byHand, faults, crashes>>

(* Mutant of Restart: the package is back, the daemon is not. *)
RestartNobody(u) ==
    /\ pc[u] = "restarting"
    /\ Goto(u, After["restarting"], "none")
    /\ UNCHANGED <<dir, daemon, leaving, old, child, starts, byHand, faults, crashes>>

(* The old package is back: its daemon is started, and not watched. *)
Restart(u) ==
    /\ pc[u] = "restarting"
    /\ Started(starts + 1)
    /\ Goto(u, After["restarting"], "none")
    /\ UNCHANGED <<dir, leaving, old, child, byHand, faults, crashes>>

(* The result file is written. *)
Report(u) ==
    /\ \/ pc[u] = "reporting" /\ Goto(u, After["reporting"], "ok")
       \/ pc[u] = "admitting" /\ Goto(u, After["admitting"], "rolled back")
    /\ UNCHANGED <<dir, daemon, leaving, old, child, starts, byHand, faults, crashes>>

(* A call throws: a rename that cannot succeed has been tried for 10 s, or *)
(* the system refuses. A daemon that hangs in its exit is not replaced. A  *)
(* failure that cannot be written down either is like a crash.             *)
Fail(u) ==
    /\ pc[u] \in DOMAIN OnFailure \ {"watching"}
    /\ pc[u] = "waiting" => alive(old[u])
    /\ LET refused == pc[u] \in DOMAIN Renaming /\ ~CanRename(Renaming[pc[u]])
       IN  /\ refused \/ (pc[u] \in Faults /\ faults < MaxFaults)
           /\ faults' = IF refused THEN faults ELSE faults + 1
    /\ leaving' = (leaving /\ pc[u] # "waiting")
    /\ Goto(u, OnFailure[pc[u]], "failed")
    /\ UNCHANGED <<dir, daemon, old, child, starts, byHand, crashes>>

(* The updaters are killed, alone or with the daemon: power, session end.  *)
Crash ==
    /\ crashes < MaxCrashes /\ AtWork # {}
    /\ crashes' = crashes + 1
    /\ pc' = [u \in Update |-> IF u \in AtWork THEN "ended" ELSE pc[u]]
    /\ daemon' \in {0, daemon} /\ leaving' = FALSE
    /\ UNCHANGED <<dir, old, child, result, starts, byHand, faults>>

(* The user starts the daemon. *)
StartByHand ==
    /\ daemon = 0 /\ byHand < MaxStarts
    /\ Meddling \/ AtWork = {}
    /\ byHand' = byHand + 1
    /\ Started(starts + 1)
    /\ UNCHANGED <<dir, leaving, pc, old, child, result, faults, crashes>>
----------------------------------------------------------------------------
UpdaterStep(u) ==
    \/ Wait(u) \/ Copy(u) \/ Remove(u) \/ Rename(u) \/ Spawn(u) \/ Watch(u) \/ Restart(u)
    \/ Report(u) \/ Fail(u)

Next ==
    \/ \E u \in Update : runSelfUpdate(u) \/ UpdaterStep(u)
    \/ shutdown \/ Crash \/ StartByHand

(* An updater goes on until it ends, and a daemon that has answered exits. *)
Fairness ==
    /\ WF_vars(shutdown)
    /\ \A u \in Update : WF_vars(UpdaterStep(u))

Spec == Init /\ [][Next]_vars /\ Fairness
----------------------------------------------------------------------------
(* Properties.                                                             *)

(* Wherever the updater is stopped and whichever call fails, a whole       *)
(* package is installed or in the backup, from which it can be put back.   *)
PackageKept == Whole("target") \/ Whole("backup")

(* The result file says what has happened: an update that went well is     *)
(* installed and running, one that was rolled back has left another whole  *)
(* package.                                                                *)
ReportsTruth ==
    [][\A u \in Update : result'[u] # result[u] =>
         /\ result'[u] = "ok" => dir'.target = u /\ child[u] # 0 /\ daemon' = child[u]
         /\ result'[u] = "rolled back" => dir'.target \in Version \ {u}]_vars

(* When no call failed and nothing crashed, a daemon runs in the end,      *)
(* whatever package was offered.                                           *)
ComesBack == <>[](faults = 0 /\ crashes = 0 => daemon # 0)

=============================================================================
