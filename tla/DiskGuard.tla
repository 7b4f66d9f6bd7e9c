------------------------------ MODULE DiskGuard ------------------------------
(***************************************************************************)
(* What the peer announces to a device whose disk may be full, over the    *)
(* sessions of PeerSessions: an index that needs more room than there is   *)
(* is kept by the SyncPeer it came to, to be planned again once there is   *)
(* room (src/peer.ts, src/session-manager.ts). A receive is one step       *)
(* (modules FolderSync and ReceiveStore).                                  *)
(***************************************************************************)
EXTENDS PeerSessions

CONSTANTS
    Update,     \* what the peer may announce, an update of a path of its own each
    Removal,    \* the updates that are deletions: they need no room
    MaxFills    \* bound: times the disk fills up

ASSUME UpdateAssumption == Removal \subseteq Update /\ MaxFills \in Nat

VARIABLES
    theirs,     \* updates in the peer's index
    got,        \* updates that are in the index here
    space,      \* there is room on the disk
    fills,      \* times the disk has filled up
    diskBlocked,        \* folder.diskBlocked: the folder is known to lack room
    diskBlockedRetry,   \* the index that the SyncPeer of a session keeps for later
    stranded    \* history: kept updates that were dropped or passed over

guardVars == <<theirs, got, space, fills, diskBlocked, diskBlockedRetry, stranded>>
vars == <<sessionVars, guardVars>>
----------------------------------------------------------------------------
GuardInit ==
    /\ theirs = {}
    /\ got = {}
    /\ space = TRUE
    /\ fills = 0
    /\ diskBlocked = FALSE
    /\ diskBlockedRetry = [s \in Session |-> {}]
    /\ stranded = {}

Needs(updates) == (updates \ got) \ Removal # {}
KeptBy(sessions) == UNION {diskBlockedRetry[s] : s \in sessions}

(* Mutant of Replaying: whoever keeps an index has to wait for the next one. *)
ReplayingNobody == {}

(* checkFolderDiskSpace finds room again: the SyncPeer in folder.peers has *)
(* its index planned anew.                                                 *)
Replaying == {registered} \ {None}

(* onPeerIndex without room: receives are put off, deletions apply.        *)
PutOff(s, updates) ==
    /\ diskBlocked' = TRUE
    /\ diskBlockedRetry' = [diskBlockedRetry EXCEPT ![s] = updates]
    /\ got' = got \cup (updates \cap Removal)
    /\ stranded' = stranded \cup (diskBlockedRetry[s] \ updates)

(* onPeerIndex with room, or no need of it: what s kept is cleared, and if *)
(* room was lacking before, it is told to who waits for it.                *)
PutOn(s, updates) ==
    LET recovers == diskBlocked /\ Needs(updates)
        replaying == IF recovers THEN Replaying ELSE {}
    IN  /\ diskBlocked' = (diskBlocked /\ ~recovers)
        /\ diskBlockedRetry' = [t \in Session |-> IF t \in replaying \cup {s} THEN {}
                                                 ELSE diskBlockedRetry[t]]
        /\ got' = got \cup updates \cup KeptBy(replaying)
        /\ stranded' = stranded
               \cup (KeptBy({s} \ replaying) \ updates)
               \cup (IF recovers THEN KeptBy(Session \ {s, registered}) ELSE {})

onPeerIndex(s, updates) ==
    IF Needs(updates) /\ ~space THEN PutOff(s, updates) ELSE PutOn(s, updates)

(* The peer announces an update on one of the sessions it has.             *)
Announce(u) ==
    /\ u \notin theirs
    /\ theirs' = theirs \cup {u}
    /\ \/ \E s \in Transports : socket[s] = "open" /\ onPeerIndex(s, {u})
       \/ /\ ~\E s \in Transports : socket[s] = "open"
          /\ UNCHANGED <<got, diskBlocked, diskBlockedRetry, stranded>>
    /\ UNCHANGED <<sessionVars, space, fills>>

(* The scan looks at the disk of a folder that lacks room.                 *)
scanOnce ==
    /\ diskBlocked /\ space /\ ~paused
    /\ diskBlocked' = FALSE
    /\ got' = got \cup KeptBy(Replaying)
    /\ diskBlockedRetry' = [s \in Session |-> IF s \in Replaying THEN {} ELSE diskBlockedRetry[s]]
    /\ stranded' = stranded \cup KeptBy(Session \ {registered})
    /\ UNCHANGED <<sessionVars, theirs, space, fills>>

Fill ==
    /\ space /\ fills < MaxFills
    /\ space' = FALSE
    /\ fills' = fills + 1
    /\ UNCHANGED <<sessionVars, theirs, got, diskBlocked, diskBlockedRetry, stranded>>

Free ==
    /\ ~space
    /\ space' = TRUE
    /\ UNCHANGED <<sessionVars, theirs, got, fills, diskBlocked, diskBlockedRetry, stranded>>

(* Mutant of Detached: what a SyncPeer kept is still there when it is gone. *)
DetachedKeeps(sessions) ==
    UNCHANGED <<diskBlockedRetry, theirs, got, space, fills, diskBlocked>>

(* A SyncPeer takes what it keeps with it. *)
Detached(sessions) ==
    /\ diskBlockedRetry' = [s \in Session |-> IF s \in sessions THEN {} ELSE diskBlockedRetry[s]]
    /\ UNCHANGED <<theirs, got, space, fills, diskBlocked>>

PauseGuard == Pause /\ Detached(Session) /\ UNCHANGED stranded

CloseGuard(s) ==
    /\ onClose(s)
    /\ Detached({s})
    /\ stranded' = stranded \cup IF \E t \in Transports \ {s} : channel[t] = "ready"
                                 THEN diskBlockedRetry[s] ELSE {}

ExchangeGuard(s) ==
    /\ Exchange(s)
    /\ onPeerIndex(s, theirs)
    /\ UNCHANGED <<theirs, space, fills>>
----------------------------------------------------------------------------
GuardedInit == Init /\ GuardInit

GuardedStep(s) ==
    \/ (Vanish(s) \/ heartbeat(s) \/ Cut(s) \/ Arrive(s)) /\ UNCHANGED guardVars
    \/ CloseGuard(s) \/ ExchangeGuard(s)

GuardedNext ==
    \/ /\ Meet \/ Dial \/ DialSucceeds \/ DialFails \/ forgetAndCloseSessions \/ Resume \/ Edit
       /\ UNCHANGED guardVars
    \/ PauseGuard
    \/ \E s \in Session : GuardedStep(s)
    \/ \E u \in Update : Announce(u)
    \/ scanOnce \/ Fill \/ Free

(* Timers, heartbeat, sockets and scans go on, and the peer answers some   *)
(* dial. Users, the disk and the peer need not do anything.                *)
Fairness ==
    /\ WF_vars(Dial /\ UNCHANGED guardVars)
    /\ SF_vars(DialSucceeds /\ UNCHANGED guardVars)
    /\ WF_vars(scanOnce)
    /\ \A s \in Session :
        /\ WF_vars(heartbeat(s) /\ UNCHANGED guardVars)
        /\ WF_vars(Arrive(s) /\ UNCHANGED guardVars)
        /\ WF_vars(CloseGuard(s))
        /\ WF_vars(ExchangeGuard(s))

GuardedSpec == GuardedInit /\ [][GuardedNext]_vars /\ Fairness
----------------------------------------------------------------------------
(* Properties.                                                             *)

Connected == bookmark # None /\ socket[bookmark] = "open"

GuardTypeOK ==
    /\ TypeOK
    /\ theirs \subseteq Update /\ got \subseteq theirs /\ stranded \subseteq theirs
    /\ space \in BOOLEAN /\ fills \in 0..MaxFills
    /\ diskBlocked \in BOOLEAN
    /\ diskBlockedRetry \in [Session -> SUBSET theirs]
    /\ \A s \in Session : diskBlockedRetry[s] # {} => s \in Transports

(* As long as its address is known, a peer that goes on answering is met   *)
(* again after every loss, whoever dialled the sessions that are gone.     *)
Reconnects == <>[](url => Connected)

(* Once the devices stay connected, the peer has every local change but    *)
(* those that were announced on a session that then died while another one *)
(* was in use: nothing repeats these.                                      *)
EditsArrive == <>[](Connected /\ ~paused => 1..edits \ astray \subseteq heard)

(* What a full disk held back arrives once there is room again, unless a   *)
(* later index took its place, or it waits at a session that folder.peers  *)
(* does not name: "释放空间后自动恢复" (session-manager.ts).                   *)
HeldBackArrives == <>[](Connected /\ ~paused /\ space => theirs \ stranded \subseteq got)

=============================================================================
