--------------------------- MODULE VersionVector ---------------------------
(***************************************************************************)
(* Version vectors and the planning rule that is built on them:            *)
(* src/version.ts, compareFileState of src/index.ts and src/plan.ts.       *)
(*                                                                         *)
(* A VersionVector of the code is a Map from device id to counter in which *)
(* an absent device counts as 0 (`?? 0`) and no counter is ever stored as  *)
(* 0, so a total function Device -> Nat represents it one to one.          *)
(***************************************************************************)
EXTENDS Naturals

CONSTANTS
    Device,     \* device identifiers
    NoEntry     \* "the index has no entry for this path" (undefined)

Version == [Device -> Nat]

(* A new vector: createVersionVector(). *)
createVersionVector == [d \in Device |-> 0]

incrementVersion(vector, deviceId) == [vector EXCEPT ![deviceId] = @ + 1]

(* a dominates b: no device counts fewer changes in a than in b. *)
Dominates(a, b) == \A d \in Device : b[d] <= a[d]

Relation == {"equal", "a-newer", "b-newer", "concurrent"}

compareVersions(a, b) ==
    CASE Dominates(a, b) /\ Dominates(b, a)   -> "equal"
      [] Dominates(a, b) /\ ~Dominates(b, a)  -> "a-newer"
      [] ~Dominates(a, b) /\ Dominates(b, a)  -> "b-newer"
      [] ~Dominates(a, b) /\ ~Dominates(b, a) -> "concurrent"

mergeVersions(a, b) == [d \in Device |-> IF a[d] >= b[d] THEN a[d] ELSE b[d]]

----------------------------------------------------------------------------
(* The state of one path in two indexes; an entry has at least the fields  *)
(* version and deleted.                                                    *)

compareFileState(local, remote) ==
    IF local = NoEntry
    THEN IF remote = NoEntry THEN "equal" ELSE "remote-newer"
    ELSE IF remote = NoEntry THEN "local-newer"
    ELSE LET relation == compareVersions(local.version, remote.version)
         IN  CASE relation = "equal"      -> "equal"
               [] relation = "a-newer"    -> "local-newer"
               [] relation = "b-newer"    -> "remote-newer"
               [] relation = "concurrent" -> "conflict"

(* What the local device does about one path; "none" is `undefined`. *)
planPath(local, remote) ==
    LET relation == compareFileState(local, remote)
    IN  CASE relation = "equal"        -> "none"
          [] relation = "local-newer"  -> IF local.deleted THEN "delete" ELSE "send"
          [] relation = "remote-newer" -> IF remote.deleted THEN "delete" ELSE "receive"
          [] relation = "conflict"     -> "conflict"

(* A plan names the paths that it visits, with "none" where the code adds  *)
(* no action: the union of both indexes for a full exchange (buildPlan),   *)
(* only the paths that the message mentions for a delta (buildDeltaPlan).  *)
(* Indexes are functions from a set of paths to entries or NoEntry.        *)
Mentioned(index) == {p \in DOMAIN index : index[p] # NoEntry}

buildPlan(local, remote) ==
    [p \in Mentioned(local) \cup Mentioned(remote) |-> planPath(local[p], remote[p])]

(* Mutant of buildDeltaPlan: a delta is planned like a full index. *)
buildDeltaPlanOverUnion(local, remote) == buildPlan(local, remote)

(* Mutant of buildDeltaPlan: paths the local index does not know are passed over. *)
buildDeltaPlanOfKnown(local, remote) ==
    [p \in Mentioned(local) \cap Mentioned(remote) |-> planPath(local[p], remote[p])]

buildDeltaPlan(local, remote) ==
    [p \in Mentioned(remote) |-> planPath(local[p], remote[p])]

============================================================================
