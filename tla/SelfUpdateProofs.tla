-------------------------- MODULE SelfUpdateProofs --------------------------
(***************************************************************************)
(* Theorems about SelfUpdate: for any updates, failing calls and crashes,  *)
(* a whole package is kept and the result file tells the truth, as long as *)
(* a successful update does not fail at removing the backup or reporting   *)
(* and nobody interferes while an updater is at work. Both assumptions are *)
(* needed (see the README).                                                *)
(*                                                                         *)
(* The invariant Inv says, for each state of the updater, which            *)
(* directories are whole and that no daemon runs while the installed       *)
(* package is out. ReportInv adds which package is where, and that the     *)
(* daemon seen alive is not about to leave.                                *)
(***************************************************************************)
EXTENDS SelfUpdate, TLAPS

Dirs == {"target", "backup", "local"}
Phases == {"offered", "ended", "waiting", "clearing", "copying", "dropping", "moving", "placing",
           "starting", "watching", "tidying", "reporting", "restoring", "undoing", "returning",
           "restarting", "admitting"}

Typed ==
    /\ dir \in [Dirs -> Version \cup {Absent, Torn}]
    /\ pc \in [Update -> Phases]
    /\ old \in [Update -> Nat] /\ child \in [Update -> Nat]
    /\ starts \in Nat \ {0} /\ daemon \in Nat

OneAtWork == \A u, v \in AtWork : u = v

(* What the updater of u may rely on. *)
Relies(u) ==
    /\ pc[u] \in {"waiting", "clearing", "copying", "dropping", "moving", "starting", "watching",
                  "tidying", "reporting", "restarting", "admitting"} => Whole("target")
    /\ pc[u] \in {"placing", "restoring", "starting", "watching", "undoing", "returning"}
         => Whole("backup")
    /\ pc[u] = "moving" => dir["backup"] = Absent
    /\ pc[u] \in {"placing", "restoring", "returning"} => dir["target"] = Absent
    /\ pc[u] \in {"dropping", "moving", "placing"} => dir["local"] = u
    /\ pc[u] = "waiting" => daemon \in {0, old[u]}
    /\ pc[u] = "watching" => daemon \in {0, child[u]}
    /\ pc[u] \notin {"offered", "ended", "waiting", "watching", "tidying", "reporting",
                    "admitting"} => daemon = 0

Inv ==
    /\ Typed
    /\ OneAtWork
    /\ \A u \in Update : Relies(u)
    /\ PackageKept
    /\ daemon # 0 => Whole("target")
----------------------------------------------------------------------------
(* What the tables of the updater say. *)
LEMMA Tables ==
    /\ DOMAIN Removing = {"dropping", "tidying", "undoing"}
    /\ Removing["dropping"] = "backup" /\ Removing["tidying"] = "backup"
    /\ Removing["undoing"] = "target"
    /\ DOMAIN Renaming = {"moving", "placing", "restoring", "returning"}
    /\ Renaming["moving"].from = "target" /\ Renaming["moving"].to = "backup"
    /\ Renaming["placing"].from = "local" /\ Renaming["placing"].to = "target"
    /\ Renaming["restoring"].from = "backup" /\ Renaming["restoring"].to = "target"
    /\ Renaming["returning"].from = "backup" /\ Renaming["returning"].to = "target"
BY DEF Removing, Renaming

LEMMA Paths ==
    /\ After["waiting"] = "clearing" /\ After["clearing"] = "copying"
    /\ After["copying"] = "dropping" /\ After["dropping"] = "moving"
    /\ After["moving"] = "placing" /\ After["placing"] = "starting"
    /\ After["starting"] = "watching" /\ After["watching"] = "tidying"
    /\ After["tidying"] = "reporting" /\ After["reporting"] = "ended"
    /\ After["restoring"] = "ended"
    /\ After["undoing"] = "returning" /\ After["returning"] = "restarting"
    /\ After["restarting"] = "admitting" /\ After["admitting"] = "ended"
BY DEF After

LEMMA Failures ==
    /\ DOMAIN OnFailure \ {"watching"} =
           {"waiting", "clearing", "copying", "dropping", "moving", "placing", "restoring",
            "starting", "tidying", "reporting", "undoing", "returning", "restarting",
            "admitting"}
    /\ OnFailure["placing"] = "restoring" /\ OnFailure["restoring"] = "undoing"
    /\ OnFailure["starting"] = "undoing" /\ OnFailure["watching"] = "undoing"
    /\ \A p \in {"waiting", "clearing", "copying", "dropping", "moving", "undoing", "returning",
                "restarting", "admitting"} : OnFailure[p] = "ended"
BY DEF OnFailure

(* While the updater of u is at work, the other updaters do nothing, and   *)
(* only what it relies on matters.                                         *)
LEMMA OnlyOneMoves ==
    ASSUME Inv, NEW u \in Update, NEW next \in Phases, u \in AtWork,
           pc' = [pc EXCEPT ![u] = next], Typed', Relies(u)', PackageKept',
           daemon' # 0 => Whole("target")'
    PROVE  Inv'
<1>1. \A v \in Update \ {u} : pc'[v] = pc[v] /\ pc[v] \in {"offered", "ended"}
  BY DEF Inv, Typed, OneAtWork, AtWork
<1>2. \A v \in Update \ {u} : Relies(v)'
  BY <1>1 DEF Relies
<1>3. OneAtWork'
  BY <1>1 DEF OneAtWork, AtWork
<1> QED
  BY <1>2, <1>3 DEF Inv

(* Names of directories are told apart from their contents. *)
LEMMA Contents ==
    ASSUME UpdateAssumption, NEW u \in Version
    PROVE  u # Absent /\ u # Torn /\ Absent # Torn
BY DEF UpdateAssumption, Version, Absent, Torn

(* The steps of an updater that change directories. *)
LEMMA DirectorySteps ==
    ASSUME UpdateAssumption, Inv, NEW u \in Update, Copy(u) \/ Remove(u) \/ Rename(u)
    PROVE  Inv'
<1> USE DEF Whole
<1>0. /\ Typed /\ PackageKept /\ Relies(u) /\ (daemon # 0 => Whole("target"))
      /\ u # Absent /\ u # Torn /\ Absent # Torn /\ u \in Version
  BY Contents DEF Inv, Version
<1>1. /\ UNCHANGED <<daemon, leaving, old, child, starts, byHand, faults, crashes>>
      /\ u \in AtWork
  BY Tables DEF Copy, Remove, Rename, AtWork
<1>2. CASE Copy(u)
  <2>1. CASE pc[u] = "clearing" /\ dir' = [dir EXCEPT !.local = Torn]
    <3>1. pc' = [pc EXCEPT ![u] = "copying"]
      BY <1>2, <2>1, Paths DEF Copy, Goto
    <3>2. Typed'
      BY <1>0, <1>1, <2>1, <3>1 DEF Typed, Dirs, Phases
    <3>3. Relies(u)' /\ PackageKept' /\ (daemon' # 0 => Whole("target")')
      BY <1>0, <1>1, <2>1, <3>1 DEF Typed, Dirs, Relies, PackageKept
    <3> QED
      BY <1>1, <3>1, <3>2, <3>3, OnlyOneMoves DEF Phases
  <2>2. CASE pc[u] = "copying" /\ dir' = [dir EXCEPT !.local = u]
    <3>1. pc' = [pc EXCEPT ![u] = "dropping"]
      BY <1>2, <2>2, Paths DEF Copy, Goto
    <3>2. Typed'
      BY <1>0, <1>1, <2>2, <3>1 DEF Typed, Dirs, Phases
    <3>3. Relies(u)' /\ PackageKept' /\ (daemon' # 0 => Whole("target")')
      BY <1>0, <1>1, <2>2, <3>1 DEF Typed, Dirs, Relies, PackageKept
    <3> QED
      BY <1>1, <3>1, <3>2, <3>3, OnlyOneMoves DEF Phases
  <2> QED
    BY <1>2, <2>1, <2>2 DEF Copy
<1>3. CASE Remove(u)
  <2> DEFINE d == Removing[pc[u]]
  <2>1. /\ pc[u] \in {"dropping", "tidying", "undoing"}
        /\ d = IF pc[u] = "undoing" THEN "target" ELSE "backup"
    BY <1>3, Tables DEF Remove
  <2>2. CASE dir' = [dir EXCEPT ![d] = Torn] /\ UNCHANGED pc
    <3>1. pc' = [pc EXCEPT ![u] = pc[u]] /\ pc[u] \in Phases
      BY <1>0, <2>2 DEF Typed
    <3>2. Typed'
      BY <1>0, <1>1, <2>1, <2>2 DEF Typed, Dirs
    <3>3. Relies(u)' /\ PackageKept' /\ (daemon' # 0 => Whole("target")')
      BY <1>0, <1>1, <2>1, <2>2 DEF Typed, Dirs, Relies, PackageKept
    <3> QED
      BY <1>1, <3>1, <3>2, <3>3, OnlyOneMoves
  <2>3. CASE dir' = [dir EXCEPT ![d] = Absent] /\ pc' = [pc EXCEPT ![u] = After[pc[u]]]
    <3>1. /\ After[pc[u]] = IF pc[u] = "dropping" THEN "moving"
                            ELSE IF pc[u] = "tidying" THEN "reporting" ELSE "returning"
          /\ After[pc[u]] \in Phases
      BY <2>1, Paths DEF Phases
    <3>2. Typed'
      BY <1>0, <1>1, <2>1, <2>3, <3>1 DEF Typed, Dirs
    <3>3. Relies(u)' /\ PackageKept' /\ (daemon' # 0 => Whole("target")')
      BY <1>0, <1>1, <2>1, <2>3, <3>1 DEF Typed, Dirs, Relies, PackageKept
    <3> QED
      BY <1>1, <2>3, <3>1, <3>2, <3>3, OnlyOneMoves
  <2> QED
    BY <1>3, <2>2, <2>3 DEF Remove, Goto
<1>4. CASE Rename(u)
  <2> DEFINE r == Renaming[pc[u]]
  <2>1. /\ pc[u] \in {"moving", "placing", "restoring", "returning"}
        /\ dir' = [dir EXCEPT ![r.to] = dir[r.from], ![r.from] = Absent]
        /\ pc' = [pc EXCEPT ![u] = After[pc[u]]]
    BY <1>4, Tables DEF Rename, Goto
  <2>2. CASE pc[u] = "moving"
    <3>1. dir' = [dir EXCEPT !["backup"] = dir["target"], !["target"] = Absent]
      BY <2>1, <2>2, Tables
    <3>2. pc' = [pc EXCEPT ![u] = "placing"]
      BY <2>1, <2>2, Paths
    <3>3. Typed'
      BY <1>0, <1>1, <3>1, <3>2 DEF Typed, Dirs, Phases
    <3>4. Relies(u)' /\ PackageKept' /\ (daemon' # 0 => Whole("target")')
      BY <1>0, <1>1, <2>2, <3>1, <3>2 DEF Typed, Dirs, Relies, PackageKept
    <3> QED
      BY <1>1, <3>2, <3>3, <3>4, OnlyOneMoves DEF Phases
  <2>3. CASE pc[u] = "placing"
    <3>1. dir' = [dir EXCEPT !["target"] = dir["local"], !["local"] = Absent]
      BY <2>1, <2>3, Tables
    <3>2. pc' = [pc EXCEPT ![u] = "starting"]
      BY <2>1, <2>3, Paths
    <3>3. Typed'
      BY <1>0, <1>1, <3>1, <3>2 DEF Typed, Dirs, Phases
    <3>4. Relies(u)' /\ PackageKept' /\ (daemon' # 0 => Whole("target")')
      BY <1>0, <1>1, <2>3, <3>1, <3>2 DEF Typed, Dirs, Relies, PackageKept
    <3> QED
      BY <1>1, <3>2, <3>3, <3>4, OnlyOneMoves DEF Phases
  <2>4. CASE pc[u] \in {"restoring", "returning"}
    <3>1. dir' = [dir EXCEPT !["target"] = dir["backup"], !["backup"] = Absent]
      BY <2>1, <2>4, Tables
    <3>2. /\ After[pc[u]] = IF pc[u] = "restoring" THEN "ended" ELSE "restarting"
          /\ After[pc[u]] \in Phases
      BY <2>4, Paths DEF Phases
    <3>3. Typed'
      BY <1>0, <1>1, <2>1, <3>1, <3>2 DEF Typed, Dirs
    <3>4. Relies(u)' /\ PackageKept' /\ (daemon' # 0 => Whole("target")')
      BY <1>0, <1>1, <2>1, <2>4, <3>1, <3>2 DEF Typed, Dirs, Relies, PackageKept
    <3> QED
      BY <1>1, <2>1, <3>2, <3>3, <3>4, OnlyOneMoves
  <2> QED
    BY <2>1, <2>2, <2>3, <2>4
<1> QED
  BY <1>2, <1>3, <1>4

(* The steps of an updater that start, watch or wait for a process. *)
LEMMA ProcessSteps ==
    ASSUME Inv, NEW u \in Update,
           Wait(u) \/ Spawn(u) \/ Watch(u) \/ Restart(u) \/ Report(u)
    PROVE  Inv'
<1>0. /\ Typed /\ PackageKept /\ Relies(u) /\ (daemon # 0 => Whole("target"))
      /\ daemon \in Nat /\ starts \in Nat /\ starts + 1 \in Nat \ {0}
  BY DEF Inv, Typed
<1>1. dir' = dir /\ old' = old /\ u \in AtWork
  BY DEF Wait, Spawn, Watch, Restart, Report, AtWork
<1>2. PackageKept' /\ Whole("target")' = Whole("target") /\ Whole("backup")' = Whole("backup")
  BY <1>0, <1>1 DEF PackageKept, Whole
<1>3. CASE Wait(u)
  <2>1. pc' = [pc EXCEPT ![u] = "clearing"] /\ UNCHANGED <<daemon, child, starts>>
    BY <1>3, Paths DEF Wait, Goto
  <2>2. Typed'
    BY <1>0, <1>1, <2>1 DEF Typed, Phases
  <2>3. pc[u] = "waiting" /\ daemon = 0
    BY <1>0, <1>3 DEF Wait, alive, Relies
  <2>4. Relies(u)'
    BY <1>0, <1>1, <1>2, <2>1, <2>3 DEF Typed, Relies
  <2> QED
    BY <1>0, <1>1, <1>2, <2>1, <2>2, <2>4, OnlyOneMoves DEF Phases
<1>4. CASE Spawn(u)
  <2>1. pc' = [pc EXCEPT ![u] = "watching"] /\ pc[u] = "starting"
    BY <1>4, Paths DEF Spawn, Goto
  <2>2. /\ daemon = 0 /\ Whole("target") /\ Whole("backup")
        /\ daemon' \in {0, starts + 1} /\ starts' = starts + 1
        /\ child' = [child EXCEPT ![u] = IF daemon' = starts + 1 THEN daemon' ELSE 0]
    BY <1>0, <1>4, <2>1 DEF Spawn, Started, Relies
  <2>3. Typed'
    BY <1>0, <1>1, <2>1, <2>2 DEF Typed, Phases
  <2>4. Relies(u)'
    BY <1>0, <1>1, <1>2, <2>1, <2>2 DEF Typed, Relies
  <2> QED
    BY <1>1, <1>2, <2>1, <2>2, <2>3, <2>4, OnlyOneMoves DEF Phases
<1>5. CASE Watch(u)
  <2>1. /\ pc[u] = "watching" /\ UNCHANGED <<daemon, child, starts>>
        /\ pc' = [pc EXCEPT ![u] = IF alive(child[u]) THEN "tidying" ELSE "undoing"]
    BY <1>5, Paths, Failures DEF Watch, Goto
  <2>2. Typed'
    BY <1>0, <1>1, <2>1 DEF Typed, Phases
  <2>3. ~alive(child[u]) => daemon = 0
    BY <1>0, <2>1 DEF alive, Relies
  <2>4. Relies(u)'
    BY <1>0, <1>1, <1>2, <2>1, <2>3 DEF Typed, Relies
  <2> QED
    BY <1>0, <1>1, <1>2, <2>1, <2>2, <2>4, OnlyOneMoves DEF Phases
<1>6. CASE Restart(u)
  <2>1. pc' = [pc EXCEPT ![u] = "admitting"] /\ pc[u] = "restarting"
    BY <1>6, Paths DEF Restart, Goto
  <2>2. /\ Whole("target") /\ daemon' \in Nat /\ starts' = starts + 1 /\ child' = child
    BY <1>0, <1>6, <2>1 DEF Restart, Started, Relies
  <2>3. Typed'
    BY <1>0, <1>1, <2>1, <2>2 DEF Typed, Phases
  <2>4. Relies(u)'
    BY <1>0, <1>2, <2>1, <2>2 DEF Typed, Relies
  <2> QED
    BY <1>1, <1>2, <2>1, <2>2, <2>3, <2>4, OnlyOneMoves DEF Phases
<1>7. CASE Report(u)
  <2>1. pc' = [pc EXCEPT ![u] = "ended"] /\ UNCHANGED <<daemon, child, starts>>
    BY <1>7, Paths DEF Report, Goto
  <2>2. Typed'
    BY <1>0, <1>1, <2>1 DEF Typed, Phases
  <2>3. Relies(u)'
    BY <1>0, <2>1 DEF Typed, Relies
  <2> QED
    BY <1>0, <1>1, <1>2, <2>1, <2>2, <2>3, OnlyOneMoves DEF Phases
<1> QED
  BY <1>3, <1>4, <1>5, <1>6, <1>7

(* A call that fails leads to a state whose reliances hold.                *)
LEMMA FailStep ==
    ASSUME Inv, Faults \cap {"tidying", "reporting"} = {}, NEW u \in Update, Fail(u)
    PROVE  Inv'
<1>0. Typed /\ PackageKept /\ Relies(u) /\ (daemon # 0 => Whole("target"))
  BY DEF Inv
<1>1. /\ UNCHANGED <<dir, daemon, old, child, starts>> /\ u \in AtWork
      /\ pc' = [pc EXCEPT ![u] = OnFailure[pc[u]]]
  BY Failures DEF Fail, Goto, AtWork
<1>2. pc[u] \in {"waiting", "clearing", "copying", "dropping", "moving", "placing", "restoring",
                 "starting", "undoing", "returning", "restarting", "admitting"}
  BY Failures, Tables DEF Fail
<1>3. OnFailure[pc[u]] = IF pc[u] = "placing" THEN "restoring"
                         ELSE IF pc[u] \in {"restoring", "starting"} THEN "undoing" ELSE "ended"
  BY <1>2, Failures
<1>4. Typed'
  BY <1>0, <1>1, <1>3 DEF Typed, Phases
<1>5. PackageKept' /\ Whole("target")' = Whole("target") /\ Whole("backup")' = Whole("backup")
  BY <1>0, <1>1 DEF PackageKept, Whole
<1>6. Relies(u)'
  BY <1>0, <1>1, <1>2, <1>3, <1>5 DEF Typed, Relies
<1> QED
  BY <1>0, <1>1, <1>3, <1>4, <1>5, <1>6, OnlyOneMoves DEF Phases

LEMMA NextStep ==
    ASSUME UpdateAssumption, ~Meddling, Faults \cap {"tidying", "reporting"} = {}, Inv, [Next]_vars
    PROVE  Inv'
<1>1. ASSUME NEW u \in Update, UpdaterStep(u) PROVE Inv'
  BY <1>1, DirectorySteps, ProcessSteps, FailStep DEF UpdaterStep
<1>2. ASSUME NEW u \in Update, runSelfUpdate(u) PROVE Inv'
  <2>1. /\ AtWork = {} /\ pc[u] = "offered" /\ daemon # 0 /\ Whole("target")
        /\ pc' = [pc EXCEPT ![u] = "waiting"] /\ old' = [old EXCEPT ![u] = daemon]
        /\ UNCHANGED <<dir, daemon, child, starts>>
    BY <1>2 DEF runSelfUpdate, Inv
  <2>2. Typed'
    BY <2>1 DEF Inv, Typed, Phases
  <2>3. \A v \in Update : pc'[v] = IF v = u THEN "waiting" ELSE pc[v]
    BY <2>1 DEF Inv, Typed
  <2>4. \A v \in Update : pc[v] \in {"offered", "ended"}
    BY <2>1 DEF AtWork
  <2>5. OneAtWork'
    BY <2>3, <2>4 DEF OneAtWork, AtWork
  <2>6. \A v \in Update : Relies(v)'
    BY <2>1, <2>3, <2>4 DEF Inv, Typed, Relies, Whole
  <2> QED
    BY <2>1, <2>2, <2>5, <2>6 DEF Inv, PackageKept, Whole
<1>3. CASE shutdown
  BY <1>3 DEF shutdown, Inv, Typed, OneAtWork, AtWork, Relies, PackageKept, Whole
<1>4. CASE Crash
  <2>1. /\ daemon' \in {0, daemon} /\ UNCHANGED <<dir, old, child, starts>>
        /\ pc' = [v \in Update |-> IF v \in AtWork THEN "ended" ELSE pc[v]]
    BY <1>4 DEF Crash
  <2>2. \A v \in Update : pc'[v] \in {"offered", "ended"}
    BY <2>1 DEF AtWork
  <2>3. Typed'
    BY <2>1 DEF Inv, Typed, Phases
  <2>4. OneAtWork' /\ \A v \in Update : Relies(v)'
    BY <2>2 DEF OneAtWork, AtWork, Relies
  <2> QED
    BY <2>1, <2>3, <2>4 DEF Inv, PackageKept, Whole
<1>5. CASE StartByHand
  <2>1. /\ AtWork = {} /\ UNCHANGED <<dir, pc, old, child>> /\ starts' = starts + 1
        /\ daemon' # 0 => Whole("target")
        /\ daemon' \in {daemon, starts + 1}
    BY <1>5 DEF StartByHand, Started, Inv
  <2>2. Typed'
    BY <2>1 DEF Inv, Typed
  <2>3. \A v \in Update : pc'[v] \in {"offered", "ended"}
    BY <2>1 DEF AtWork
  <2>4. OneAtWork' /\ \A v \in Update : Relies(v)'
    BY <2>3 DEF OneAtWork, AtWork, Relies
  <2> QED
    BY <2>1, <2>2, <2>4 DEF Inv, PackageKept, Whole
<1>6. CASE UNCHANGED vars
  BY <1>6 DEF vars, Inv, Typed, OneAtWork, AtWork, Relies, PackageKept, Whole
<1> QED
  BY <1>1, <1>2, <1>3, <1>4, <1>5, <1>6 DEF Next

LEMMA Start == ASSUME UpdateAssumption, Init PROVE Inv
<1>1. dir["target"] = Installed /\ dir["backup"] = Absent /\ dir["local"] = Absent /\ daemon = 1
  BY DEF Init
<1>2. Installed \in Version /\ Installed # Absent /\ Installed # Torn
  BY Contents DEF Version
<1>3. Typed
  BY <1>2 DEF Init, Typed, Dirs, Phases
<1>4. \A u \in Update : pc[u] = "offered"
  BY DEF Init
<1> QED
  BY <1>1, <1>2, <1>3, <1>4 DEF Inv, OneAtWork, AtWork, Relies, PackageKept, Whole
----------------------------------------------------------------------------
(* A whole package is installed or in the backup at all times, for any     *)
(* updates, failing calls and crashes of the updater, if the removal of    *)
(* the backup and the report at the end of a successful update do not fail *)
(* and updates do not overlap.                                             *)
THEOREM PackageIsKept ==
    ASSUME ~Meddling, Faults \cap {"tidying", "reporting"} = {}
    PROVE  Spec => []PackageKept
<1>1. Init => Inv
  BY Start, UpdateAssumption
<1>2. Inv /\ [Next]_vars => Inv'
  BY NextStep, UpdateAssumption
<1>3. Inv => PackageKept
  BY DEF Inv
<1> QED
  BY <1>1, <1>2, <1>3, PTL DEF Spec
----------------------------------------------------------------------------
(* What the updater of u may say: it replaces another package by u, and    *)
(* the daemon it has seen alive is still the one that runs, because nobody *)
(* is told to leave while it works.                                        *)
Tells(u) ==
    /\ pc[u] = "offered" => \A d \in Dirs : dir[d] # u
    /\ pc[u] \in {"waiting", "clearing", "copying", "dropping", "moving", "restarting",
                  "admitting"} => dir["target"] # u
    /\ pc[u] \in {"placing", "restoring", "starting", "watching", "undoing", "returning"}
         => dir["backup"] # u
    /\ pc[u] \in {"starting", "watching", "tidying", "reporting"} => dir["target"] = u
    /\ pc[u] \notin {"offered", "ended", "waiting"} => ~leaving
    /\ pc[u] \in {"tidying", "reporting"} => child[u] # 0 /\ daemon = child[u]

ReportInv ==
    /\ Inv
    /\ leaving \in BOOLEAN /\ (leaving => daemon # 0)
    /\ result \in [Update -> {"none", "ok", "failed", "rolled back"}]
    /\ \A u \in Update : Tells(u)

Reported(u) ==
    result'[u] # result[u] =>
        /\ result'[u] = "ok" => dir'.target = u /\ child[u] # 0 /\ daemon' = child[u]
        /\ result'[u] = "rolled back" => dir'.target \in Version \ {u}

(* The rest of ReportInv after a step of the updater of u. *)
Rest(u) ==
    /\ leaving \in BOOLEAN /\ (leaving => daemon # 0)
    /\ result \in [Update -> {"none", "ok", "failed", "rolled back"}]
    /\ Tells(u)

(* While the updater of u works, only u gets into directories anew.        *)
LEMMA OthersTell ==
    ASSUME UpdateAssumption, ReportInv, NEW u \in Update, u \in AtWork, NEW next,
           pc' = [pc EXCEPT ![u] = next], Rest(u)',
           \A d \in Dirs : \/ dir'[d] \in {Torn, Absent, u}
                           \/ \E x \in Dirs : dir'[d] = dir[x]
    PROVE  leaving' \in BOOLEAN /\ (leaving' => daemon' # 0)
           /\ (result \in [Update -> {"none", "ok", "failed", "rolled back"}])'
           /\ \A v \in Update : Tells(v)'
<1>1. \A v \in Update \ {u} : pc'[v] = pc[v] /\ pc[v] \in {"offered", "ended"}
  BY DEF ReportInv, Inv, Typed, OneAtWork, AtWork
<1>2. ASSUME NEW v \in Update \ {u}
      PROVE  Tells(v)'
  <2>1. v # Torn /\ v # Absent /\ v # u
    BY Contents DEF Version
  <2>2. CASE pc[v] = "offered"
    <3>1. \A d \in Dirs : dir[d] # v
      BY <2>2 DEF ReportInv, Tells
    <3>2. ASSUME NEW d \in Dirs PROVE dir'[d] # v
      <4>1. CASE dir'[d] \in {Torn, Absent, u}
        BY <4>1, <2>1
      <4>2. CASE \E x \in Dirs : dir'[d] = dir[x]
        BY <4>2, <3>1
      <4> QED
        BY <4>1, <4>2
    <3> QED
      BY <1>1, <2>2, <3>2 DEF Tells
  <2>3. CASE pc[v] = "ended"
    BY <1>1, <2>3 DEF Tells
  <2> QED
    BY <1>1, <2>2, <2>3
<1>3. Tells(u)' /\ leaving' \in BOOLEAN /\ (leaving' => daemon' # 0)
      /\ (result \in [Update -> {"none", "ok", "failed", "rolled back"}])'
  BY DEF Rest
<1> QED
  BY <1>2, <1>3

(* What Goto does to the state and the result of an updater.               *)
LEMMA GotoResult ==
    ASSUME ReportInv, NEW u \in Update, NEW next, NEW verdict, Goto(u, next, verdict)
    PROVE  /\ pc'[u] = next
           /\ \A v \in Update : result'[v] # result[v] =>
                 v = u /\ next = "ended" /\ result'[v] = verdict
BY DEF ReportInv, Inv, Typed, Goto

(* A step that ends no updater, or ends it as failed, reports nothing that *)
(* could be wrong.                                                         *)
LEMMA Uneventful ==
    ASSUME ReportInv, NEW u \in Update, NEW next, NEW verdict \in {"none", "failed"},
           Goto(u, next, verdict)
    PROVE  \A v \in Update : Reported(v)
<1>1. \A v \in Update : result'[v] # result[v] => result'[v] = verdict
  BY GotoResult
<1> QED
  BY <1>1 DEF Reported

(* What is known of an updater at work, and what is left to show of it.    *)
LEMMA RestOf ==
    ASSUME ReportInv, NEW u \in Update, NEW next,
           NEW verdict \in {"none", "ok", "failed", "rolled back"},
           Goto(u, next, verdict), Tells(u)', leaving' = leaving \/ leaving' = FALSE,
           leaving' => daemon' # 0
    PROVE  Rest(u)'
<1>1. result' \in [Update -> {"none", "ok", "failed", "rolled back"}]
  BY DEF ReportInv, Goto
<1> QED
  BY <1>1 DEF Rest, ReportInv

LEMMA WaitTells ==
    ASSUME UpdateAssumption, ReportInv, NEW u \in Update, Wait(u)
    PROVE  Rest(u)' /\ \A v \in Update : Reported(v)
<1>1. /\ UNCHANGED <<dir, daemon, leaving, old, child>> /\ ~alive(old[u]) /\ pc[u] = "waiting"
      /\ Goto(u, "clearing", "none")
  BY Paths DEF Wait
<1>2. pc'[u] = "clearing"
  BY <1>1, GotoResult
<1>3. Relies(u) /\ Tells(u)
  BY DEF ReportInv, Inv
<1>4. ~leaving
  BY <1>1, <1>3 DEF Relies, alive, ReportInv
<1>5. Tells(u)'
  BY <1>1, <1>2, <1>3, <1>4 DEF Tells
<1>6. leaving' = leaving /\ ~leaving'
  BY <1>1, <1>4
<1> QED
  BY <1>1, <1>5, <1>6, RestOf, Uneventful

LEMMA CopyTells ==
    ASSUME UpdateAssumption, ReportInv, NEW u \in Update, Copy(u)
    PROVE  Rest(u)' /\ \A v \in Update : Reported(v)
<1>1. /\ UNCHANGED <<daemon, leaving, old, child>> /\ pc[u] \in {"clearing", "copying"}
      /\ Goto(u, After[pc[u]], "none")
  BY DEF Copy
<1>2. pc'[u] = After[pc[u]] /\ After[pc[u]] \in {"copying", "dropping"}
  BY <1>1, GotoResult, Paths
<1>3. Tells(u) /\ Typed
  BY DEF ReportInv, Inv
<1>4. dir'["target"] = dir["target"]
  BY <1>3 DEF Copy, Typed, Dirs
<1>5. Tells(u)'
  BY <1>1, <1>2, <1>3, <1>4 DEF Tells
<1>6. leaving' = leaving /\ (leaving' => daemon' # 0)
  BY <1>1 DEF ReportInv
<1> QED
  BY <1>1, <1>5, <1>6, RestOf, Uneventful

LEMMA RemoveTells ==
    ASSUME UpdateAssumption, ReportInv, NEW u \in Update, Remove(u)
    PROVE  Rest(u)' /\ \A v \in Update : Reported(v)
<1> DEFINE d == Removing[pc[u]]
<1>1. /\ UNCHANGED <<daemon, leaving, old, child>>
      /\ pc[u] \in {"dropping", "tidying", "undoing"}
      /\ d = IF pc[u] = "undoing" THEN "target" ELSE "backup"
  BY Tables DEF Remove
<1>2. Tells(u) /\ Typed
  BY DEF ReportInv, Inv
<1>3. leaving' = leaving /\ (leaving' => daemon' # 0)
  BY <1>1 DEF ReportInv
<1>4. u # Absent /\ u # Torn
  BY Contents DEF Version
<1>5. dir' = [dir EXCEPT ![d] = Torn] \/ dir' = [dir EXCEPT ![d] = Absent]
  BY DEF Remove
<1>6. \A x \in Dirs \ {d} : dir'[x] = dir[x]
  BY <1>2, <1>5 DEF Typed
<1>7. pc[u] # "undoing" => dir'["target"] = dir["target"]
  BY <1>1, <1>6 DEF Dirs
<1>8. pc[u] = "undoing" => dir'["backup"] = dir["backup"]
  BY <1>1, <1>6 DEF Dirs
<1> HIDE DEF d
<1>9. CASE UNCHANGED <<pc, result>>
  <2>1. Tells(u)'
    BY <1>1, <1>2, <1>7, <1>8, <1>9 DEF Tells
  <2> QED
    BY <1>1, <1>3, <1>9, <2>1 DEF Rest, Reported, ReportInv
<1>10. CASE Goto(u, After[pc[u]], "none")
  <2>1. pc'[u] = IF pc[u] = "dropping" THEN "moving"
                 ELSE IF pc[u] = "tidying" THEN "reporting" ELSE "returning"
    BY <1>1, <1>10, GotoResult, Paths
  <2>2. Tells(u)'
    BY <1>1, <1>2, <1>7, <1>8, <2>1 DEF Tells
  <2> QED
    BY <1>10, <1>3, <2>2, RestOf, Uneventful
<1> QED
  BY <1>9, <1>10 DEF Remove

LEMMA RenameTells ==
    ASSUME UpdateAssumption, ReportInv, NEW u \in Update, Rename(u)
    PROVE  Rest(u)' /\ \A v \in Update : Reported(v)
<1> DEFINE r == Renaming[pc[u]]
<1>1. /\ UNCHANGED <<daemon, leaving, old, child>>
      /\ pc[u] \in {"moving", "placing", "restoring", "returning"}
      /\ dir' = [dir EXCEPT ![r.to] = dir[r.from], ![r.from] = Absent]
      /\ Goto(u, After[pc[u]], "failed")
  BY Tables DEF Rename
<1>2. Tells(u) /\ Relies(u) /\ Typed
  BY DEF ReportInv, Inv
<1>3. leaving' = leaving /\ (leaving' => daemon' # 0)
  BY <1>1 DEF ReportInv
<1>4. pc'[u] = After[pc[u]]
  BY <1>1, GotoResult
<1>5. CASE pc[u] = "moving"
  <2>1. dir' = [dir EXCEPT !["backup"] = dir["target"], !["target"] = Absent]
    BY <1>1, <1>5, Tables
  <2>2. pc'[u] = "placing" /\ dir'["backup"] = dir["target"]
    BY <1>2, <1>4, <1>5, <2>1, Paths DEF Typed, Dirs
  <2>3. Tells(u)'
    BY <1>1, <1>2, <1>5, <2>2 DEF Tells
  <2> QED
    BY <1>1, <1>3, <2>3, RestOf, Uneventful
<1>6. CASE pc[u] = "placing"
  <2>1. dir' = [dir EXCEPT !["target"] = dir["local"], !["local"] = Absent]
    BY <1>1, <1>6, Tables
  <2>2. pc'[u] = "starting" /\ dir'["backup"] = dir["backup"] /\ dir'["target"] = u
    BY <1>2, <1>4, <1>6, <2>1, Paths DEF Typed, Dirs, Relies
  <2>3. Tells(u)'
    BY <1>1, <1>2, <1>6, <2>2 DEF Tells
  <2> QED
    BY <1>1, <1>3, <2>3, RestOf, Uneventful
<1>7. CASE pc[u] \in {"restoring", "returning"}
  <2>1. dir' = [dir EXCEPT !["target"] = dir["backup"], !["backup"] = Absent]
    BY <1>1, <1>7, Tables
  <2>2. pc'[u] \in {"ended", "restarting"} /\ dir'["target"] = dir["backup"]
    BY <1>2, <1>4, <1>7, <2>1, Paths DEF Typed, Dirs
  <2>3. Tells(u)'
    BY <1>1, <1>2, <1>7, <2>2 DEF Tells
  <2> QED
    BY <1>1, <1>3, <2>3, RestOf, Uneventful
<1> QED
  BY <1>1, <1>5, <1>6, <1>7

LEMMA SpawnTells ==
    ASSUME UpdateAssumption, ReportInv, NEW u \in Update, Spawn(u)
    PROVE  Rest(u)' /\ \A v \in Update : Reported(v)
<1>1. dir' = dir /\ leaving' = leaving /\ pc[u] = "starting" /\ Goto(u, "watching", "none")
  BY Paths DEF Spawn
<1>2. pc'[u] = "watching" /\ Tells(u)
  BY <1>1, GotoResult DEF ReportInv
<1>3. ~leaving' /\ leaving' = leaving
  BY <1>1, <1>2 DEF Tells
<1>4. Tells(u)'
  BY <1>1, <1>2, <1>3 DEF Tells
<1> QED
  BY <1>1, <1>3, <1>4, RestOf, Uneventful

LEMMA WatchTells ==
    ASSUME UpdateAssumption, ReportInv, NEW u \in Update, Watch(u)
    PROVE  Rest(u)' /\ \A v \in Update : Reported(v)
<1>1. /\ UNCHANGED <<dir, daemon, leaving, child>> /\ pc[u] = "watching"
      /\ Goto(u, IF alive(child[u]) THEN "tidying" ELSE "undoing", "none")
  BY Paths, Failures DEF Watch
<1>2. /\ pc'[u] = IF alive(child[u]) THEN "tidying" ELSE "undoing"
      /\ Tells(u)
  BY <1>1, GotoResult DEF ReportInv
<1>3. ~leaving' /\ leaving' = leaving
  BY <1>1, <1>2 DEF Tells
<1>4. Tells(u)'
  BY <1>1, <1>2, <1>3 DEF Tells, alive
<1> QED
  BY <1>1, <1>3, <1>4, RestOf, Uneventful

LEMMA RestartTells ==
    ASSUME UpdateAssumption, ReportInv, NEW u \in Update, Restart(u)
    PROVE  Rest(u)' /\ \A v \in Update : Reported(v)
<1>1. /\ dir' = dir /\ leaving' = leaving /\ pc[u] = "restarting"
      /\ Goto(u, "admitting", "none")
  BY Paths DEF Restart
<1>2. pc'[u] = "admitting" /\ Tells(u)
  BY <1>1, GotoResult DEF ReportInv
<1>3. ~leaving' /\ leaving' = leaving
  BY <1>1, <1>2 DEF Tells
<1>4. Tells(u)'
  BY <1>1, <1>2, <1>3 DEF Tells
<1> QED
  BY <1>1, <1>3, <1>4, RestOf, Uneventful

LEMMA ReportTells ==
    ASSUME UpdateAssumption, ReportInv, NEW u \in Update, Report(u)
    PROVE  Rest(u)' /\ \A v \in Update : Reported(v)
<1>1. UNCHANGED <<dir, daemon, leaving, child>> /\ pc[u] \in {"reporting", "admitting"}
  BY DEF Report
<1>2. Tells(u) /\ Relies(u) /\ Typed
  BY DEF ReportInv, Inv
<1>3. ~leaving' /\ leaving' = leaving
  BY <1>1, <1>2 DEF Tells
<1>4. CASE pc[u] = "reporting" /\ Goto(u, "ended", "ok")
  <2>1. pc'[u] = "ended"
    BY <1>4, GotoResult
  <2>2. Tells(u)'
    BY <1>3, <2>1 DEF Tells
  <2>3. \A v \in Update : result'[v] # result[v] => v = u /\ result'[v] = "ok"
    BY <1>4, GotoResult
  <2>4. dir'["target"] = u /\ child[u] # 0 /\ daemon' = child[u]
    BY <1>1, <1>2, <1>4 DEF Tells
  <2> QED
    BY <1>3, <1>4, <2>2, <2>3, <2>4, RestOf DEF Reported
<1>5. CASE pc[u] = "admitting" /\ Goto(u, "ended", "rolled back")
  <2>1. pc'[u] = "ended"
    BY <1>5, GotoResult
  <2>2. Tells(u)'
    BY <1>3, <2>1 DEF Tells
  <2>3. \A v \in Update : result'[v] # result[v] => v = u /\ result'[v] = "rolled back"
    BY <1>5, GotoResult
  <2>4. dir'["target"] \in Version \ {u}
    BY <1>1, <1>2, <1>5 DEF Tells, Relies, Typed, Whole, Dirs
  <2> QED
    BY <1>3, <1>5, <2>2, <2>3, <2>4, RestOf DEF Reported
<1> QED
  BY <1>4, <1>5, Paths DEF Report

LEMMA FailTells ==
    ASSUME UpdateAssumption, Faults \cap {"tidying", "reporting"} = {}, ReportInv,
           NEW u \in Update, Fail(u)
    PROVE  Rest(u)' /\ \A v \in Update : Reported(v)
<1>1. /\ UNCHANGED <<dir, daemon, child>> /\ leaving' = (leaving /\ pc[u] # "waiting")
      /\ Goto(u, OnFailure[pc[u]], "failed")
  BY DEF Fail
<1>2. pc[u] \in {"waiting", "clearing", "copying", "dropping", "moving", "placing", "restoring",
                 "starting", "undoing", "returning", "restarting", "admitting"}
  BY Failures, Tables DEF Fail
<1>3. /\ pc'[u] = IF pc[u] = "placing" THEN "restoring"
                  ELSE IF pc[u] \in {"restoring", "starting"} THEN "undoing" ELSE "ended"
      /\ Tells(u)
  <2>1. pc'[u] = OnFailure[pc[u]]
    BY <1>1, GotoResult
  <2>2. OnFailure[pc[u]] = IF pc[u] = "placing" THEN "restoring"
                           ELSE IF pc[u] \in {"restoring", "starting"} THEN "undoing" ELSE "ended"
    BY <1>2, Failures
  <2>3. Tells(u)
    BY DEF ReportInv
  <2> QED
    BY <2>1, <2>2, <2>3
<1>4. Tells(u)'
  BY <1>1, <1>2, <1>3 DEF Tells, ReportInv
<1>5. (leaving' = leaving \/ leaving' = FALSE) /\ (leaving' => daemon' # 0)
  BY <1>1 DEF ReportInv
<1> QED
  BY <1>1, <1>4, <1>5, RestOf, Uneventful

(* An updater fills directories with its own package or with one that was  *)
(* there.                                                                  *)
LEMMA NothingAnew ==
    ASSUME Inv, NEW u \in Update, UpdaterStep(u), NEW d \in Dirs
    PROVE  dir'[d] \in {Torn, Absent, u} \/ \E x \in Dirs : dir'[d] = dir[x]
<1>1. Typed
  BY DEF Inv
<1>2. CASE Copy(u)
  BY <1>1, <1>2 DEF Copy, Typed, Dirs
<1>3. CASE Remove(u)
  BY <1>1, <1>3 DEF Remove, Typed
<1>4. CASE Rename(u)
  <2>1. pc[u] \in {"moving", "placing", "restoring", "returning"}
    BY <1>4, Tables DEF Rename
  <2>2. PICK t \in Dirs, f \in Dirs : dir' = [dir EXCEPT ![t] = dir[f], ![f] = Absent]
    BY <1>4, <2>1, Tables DEF Rename, Dirs
  <2> QED
    BY <1>1, <2>2 DEF Typed
<1>5. CASE dir' = dir
  BY <1>5
<1> QED
  BY <1>2, <1>3, <1>4, <1>5 DEF UpdaterStep, Wait, Spawn, Watch, Restart, Report, Fail

(* The step of an updater.                                                 *)
LEMMA UpdaterTells ==
    ASSUME UpdateAssumption, Faults \cap {"tidying", "reporting"} = {}, ReportInv, Inv',
           NEW u \in Update, UpdaterStep(u)
    PROVE  ReportInv' /\ \A v \in Update : Reported(v)
<1>1. Rest(u)' /\ \A v \in Update : Reported(v)
  BY WaitTells, CopyTells, RemoveTells, RenameTells, SpawnTells, WatchTells, RestartTells,
     ReportTells, FailTells DEF UpdaterStep
<1>2. u \in AtWork /\ \E next : pc' = [pc EXCEPT ![u] = next]
  <2>1. pc[u] \notin {"offered", "ended"}
    BY Tables, Failures
       DEF UpdaterStep, Wait, Copy, Remove, Rename, Spawn, Watch, Restart, Report, Fail
  <2>2. pc' = pc => pc' = [pc EXCEPT ![u] = pc[u]]
    BY DEF ReportInv, Inv, Typed
  <2>3. pc' = pc \/ \E next : pc' = [pc EXCEPT ![u] = next]
    BY DEF UpdaterStep, Wait, Copy, Remove, Rename, Spawn, Watch, Restart, Report, Fail, Goto
  <2> QED
    BY <2>1, <2>2, <2>3 DEF AtWork
<1>3. PICK next : pc' = [pc EXCEPT ![u] = next]
  BY <1>2
<1>4. \A d \in Dirs : \/ dir'[d] \in {Torn, Absent, u}
                      \/ \E x \in Dirs : dir'[d] = dir[x]
  BY NothingAnew DEF ReportInv
<1>5. leaving' \in BOOLEAN /\ (leaving' => daemon' # 0)
      /\ (result \in [Update -> {"none", "ok", "failed", "rolled back"}])'
      /\ \A v \in Update : Tells(v)'
  BY <1>1, <1>2, <1>3, <1>4, OthersTell
<1> QED
  BY <1>1, <1>5 DEF ReportInv

(* Every step keeps the invariant, and what it reports is true.            *)
LEMMA ReportStep ==
    ASSUME UpdateAssumption, ~Meddling, Faults \cap {"tidying", "reporting"} = {}, ReportInv,
           [Next]_vars
    PROVE  ReportInv' /\ \A v \in Update : Reported(v)
<1>0. Inv'
  BY NextStep DEF ReportInv
<1>1. ASSUME NEW u \in Update, UpdaterStep(u)
      PROVE  ReportInv' /\ \A v \in Update : Reported(v)
  BY <1>0, <1>1, UpdaterTells
<1>2. ASSUME NEW u \in Update, runSelfUpdate(u)
      PROVE  ReportInv' /\ result' = result
  <2>1. /\ AtWork = {} /\ pc[u] = "offered" /\ daemon # 0 /\ leaving' = TRUE
        /\ pc' = [pc EXCEPT ![u] = "waiting"] /\ UNCHANGED <<dir, daemon, child, result>>
    BY <1>2 DEF runSelfUpdate
  <2>2. \A v \in Update : pc'[v] = IF v = u THEN "waiting" ELSE pc[v]
    BY <2>1 DEF ReportInv, Inv, Typed
  <2>3. \A v \in Update : pc[v] \in {"offered", "ended"}
    BY <2>1 DEF AtWork
  <2>4. ASSUME NEW v \in Update PROVE Tells(v)'
    <3>1. Tells(v) /\ "target" \in Dirs
      BY DEF ReportInv, Dirs
    <3>2. v = u => pc'[v] = "waiting" /\ dir'["target"] # v
      BY <2>1, <2>2, <3>1 DEF Tells
    <3>3. v # u => pc'[v] = pc[v] /\ pc'[v] \in {"offered", "ended"}
      BY <2>2, <2>3
    <3>4. CASE v = u
      BY <3>2, <3>4 DEF Tells
    <3>5. CASE v # u
      BY <2>1, <3>1, <3>3, <3>5 DEF Tells
    <3> QED
      BY <3>4, <3>5
  <2> QED
    BY <1>0, <2>1, <2>4 DEF ReportInv
<1>3. CASE shutdown
  <2>1. /\ UNCHANGED <<dir, pc, old, child, result>> /\ leaving /\ leaving' = FALSE
    BY <1>3 DEF shutdown
  <2>2. ASSUME NEW v \in Update PROVE Tells(v)'
    BY <2>1 DEF ReportInv, Tells
  <2> QED
    BY <1>0, <2>1, <2>2 DEF ReportInv, Reported
<1>4. CASE Crash
  <2>1. /\ UNCHANGED <<dir, old, child, result>> /\ leaving' = FALSE
        /\ pc' = [v \in Update |-> IF v \in AtWork THEN "ended" ELSE pc[v]]
    BY <1>4 DEF Crash
  <2>2. ASSUME NEW v \in Update PROVE Tells(v)'
    <3>1. pc'[v] = IF v \in AtWork THEN "ended" ELSE pc[v]
      BY <2>1
    <3>2. v \notin AtWork => pc[v] \in {"offered", "ended"}
      BY DEF AtWork
    <3>3. pc'[v] = "ended" \/ (pc'[v] = "offered" /\ pc[v] = "offered")
      BY <3>1, <3>2
    <3>4. Tells(v)
      BY DEF ReportInv
    <3> QED
      BY <2>1, <3>3, <3>4 DEF Tells
  <2> QED
    BY <1>0, <2>1, <2>2 DEF ReportInv, Reported
<1>5. CASE StartByHand
  <2>1. AtWork = {} /\ UNCHANGED <<dir, leaving, pc, old, child, result>> /\ daemon = 0
    BY <1>5 DEF StartByHand
  <2>2. ~leaving
    BY <2>1 DEF ReportInv
  <2>3. ASSUME NEW v \in Update PROVE Tells(v)'
    <3>1. pc[v] \in {"offered", "ended"} /\ Tells(v)
      BY <2>1 DEF AtWork, ReportInv
    <3> QED
      BY <2>1, <3>1 DEF Tells
  <2> QED
    BY <1>0, <2>1, <2>2, <2>3 DEF ReportInv, Reported
<1>6. CASE UNCHANGED vars
  <2>1. \A v \in Update : Tells(v)'
    BY <1>6 DEF vars, ReportInv, Tells
  <2> QED
    BY <1>0, <1>6, <2>1 DEF vars, ReportInv, Reported
<1>7. result' = result => \A v \in Update : Reported(v)
  BY DEF Reported
<1> QED
  BY <1>1, <1>2, <1>3, <1>4, <1>5, <1>6, <1>7 DEF Next

(* The result file says what has happened: under the assumptions of        *)
(* PackageIsKept, "ok" is written only when the new package is installed   *)
(* and the daemon that runs is the one the updater has started and seen    *)
(* alive, and "rolled back" only when another whole package is installed   *)
(* again.                                                                  *)
THEOREM ReportsAreTrue ==
    ASSUME ~Meddling, Faults \cap {"tidying", "reporting"} = {}
    PROVE  Spec => ReportsTruth
<1>1. Init => ReportInv
  <2>1. ASSUME Init PROVE Inv
    BY <2>1, Start, UpdateAssumption
  <2>2. ASSUME Init PROVE \A u \in Update : Tells(u)
    <3>1. \A u \in Update : u # Installed /\ u # Absent
      BY UpdateAssumption, Contents DEF Version
    <3> QED
      BY <2>2, <3>1 DEF Init, Tells, Dirs
  <2> QED
    BY <2>1, <2>2 DEF Init, ReportInv
<1>2. ReportInv /\ [Next]_vars => ReportInv' /\ \A v \in Update : Reported(v)
  BY ReportStep, UpdateAssumption
<1>3. ReportInv /\ [Next]_vars =>
        [\A u \in Update : result'[u] # result[u] =>
           /\ result'[u] = "ok" => dir'.target = u /\ child[u] # 0 /\ daemon' = child[u]
           /\ result'[u] = "rolled back" => dir'.target \in Version \ {u}]_vars
  BY <1>2 DEF Reported
<1> QED
  BY <1>1, <1>2, <1>3, PTL DEF Spec, ReportsTruth

=============================================================================
