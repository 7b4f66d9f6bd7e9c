---------------------------- MODULE PeerSessions ----------------------------
(***************************************************************************)
(* The sessions one device keeps with one peer, and the channels of one    *)
(* folder on them (src/session-manager.ts, src/broadcast.ts). Both sides   *)
(* may dial at once, so that several sessions overlap: one is bookmarked   *)
(* for control messages, the others are backups.                           *)
(*                                                                         *)
(* A session is numbered by when it started: that is the order of          *)
(* activeSessions and of the folder's transports. The initial exchange is  *)
(* one step (module IndexExchange); local changes are numbers.             *)
(***************************************************************************)
EXTENDS Naturals

CONSTANTS
    None,           \* no session
    MaxSessions,    \* bound: sessions; the last one stays
    MaxPauses,      \* bound: pauses of the folder
    MaxEdits        \* bound: local changes

ASSUME BoundAssumption == MaxSessions \in Nat /\ MaxPauses \in Nat /\ MaxEdits \in Nat
ASSUME NoneAssumption == None \notin Nat

VARIABLES
    started,    \* sessions started so far
    socket,     \* socket[s]: "lost" still looks open, "closing" waits for its close event
    channel,    \* channel[s]: the folder on session s (session.peers, folder.transports)
    bookmark,   \* peerSessions: the session that control messages take
    registered, \* folder.peers: the session whose SyncPeer the folder uses
    url,        \* an address of the peer is known (outboundPeerUrls)
    retry,      \* reconnectTimers, with the timers that the map forgot and the dials
    paused,     \* the folder is paused
    pauses,     \* pauses so far
    edits,      \* local changes so far
    mail,       \* mail[s]: changes announced on s and not arrived
    heard,      \* changes that the peer has
    astray      \* history: changes lost with a session while another one was in use

sessionVars == <<started, socket, channel, bookmark, registered, url, retry, paused,
                 pauses, edits, mail, heard, astray>>

Session == 1..MaxSessions
Active == {s \in 1..started : socket[s] # "closed"}     \* activeSessions
sessionAlive(s) == socket[s] \in {"open", "lost"}        \* readyState is OPEN
Transports == {s \in Active : channel[s] # "detached"}
First(sessions) == {s \in sessions : \A t \in sessions : s <= t}
Last(sessions) == {s \in sessions : \A t \in sessions : t <= s}

(* Sessions that die leave one to be started. *)
Spare == started < MaxSessions
----------------------------------------------------------------------------
Init ==
    /\ started = 0
    /\ socket = [s \in Session |-> "closed"]
    /\ channel = [s \in Session |-> "detached"]
    /\ bookmark = None
    /\ registered = None
    /\ url = FALSE
    /\ retry = [timer |-> FALSE, strays |-> 0, dials |-> 0]
    /\ paused = FALSE
    /\ pauses = 0
    /\ edits = 0
    /\ mail = [s \in Session |-> {}]
    /\ heard = {}
    /\ astray = {}

(* Attaching makes the newest of the sessions the one that is registered.  *)
Attached(sessions) ==
    /\ channel' = [s \in Session |-> IF s \in sessions THEN "exchanging" ELSE channel[s]]
    /\ registered' \in IF sessions = {} THEN {registered} ELSE Last(sessions)

(* startSyncSession, registerPeer: the bookmark stays with a live session. *)
startSyncSession(learned) ==
    LET s == started + 1
    IN  /\ Spare
        /\ started' = s
        /\ socket' = [socket EXCEPT ![s] = "open"]
        /\ url' = (url \/ learned)
        /\ bookmark' = IF bookmark = None \/ ~sessionAlive(bookmark) THEN s ELSE bookmark
        /\ Attached(IF paused THEN {} ELSE {s})

(* The peer dials in, or a dial of discovery or of the configuration succeeds. *)
Meet ==
    /\ \E learned \in BOOLEAN : startSyncSession(learned)
    /\ retry' = [retry EXCEPT !.timer = FALSE]
    /\ UNCHANGED <<paused, pauses, edits, mail, heard, astray>>

(* scheduleReconnect: one more timer; the map has room for one.            *)
scheduleReconnect(r) ==
    IF ~url THEN r
    ELSE [r EXCEPT !.timer = TRUE, !.strays = @ + IF r.timer THEN 1 ELSE 0]

(* A reconnect timer fires and empties the map, which may hold another one. *)
Dial ==
    /\ \/ /\ retry.timer
          /\ retry' = [retry EXCEPT !.timer = FALSE, !.dials = @ + 1]
       \/ /\ retry.strays > 0
          /\ retry' = [timer |-> FALSE, dials |-> retry.dials + 1,
                       strays |-> IF retry.timer THEN retry.strays ELSE retry.strays - 1]
    /\ UNCHANGED <<started, socket, channel, bookmark, registered, url, paused, pauses,
                   edits, mail, heard, astray>>

DialSucceeds ==
    /\ retry.dials > 0
    /\ startSyncSession(TRUE)
    /\ retry' = [retry EXCEPT !.timer = FALSE, !.dials = @ - 1]
    /\ UNCHANGED <<paused, pauses, edits, mail, heard, astray>>

(* Mutant of DialFails: a dial that fails is only logged. *)
DialFailsForGood ==
    /\ retry.dials > 0
    /\ retry' = [retry EXCEPT !.dials = @ - 1]
    /\ UNCHANGED <<started, socket, channel, bookmark, registered, url, paused, pauses,
                   edits, mail, heard, astray>>

DialFails ==
    /\ retry.dials > 0
    /\ retry' = scheduleReconnect([retry EXCEPT !.dials = @ - 1])
    /\ UNCHANGED <<started, socket, channel, bookmark, registered, url, paused, pauses,
                   edits, mail, heard, astray>>

(* The peer vanishes without a word, which only the heartbeat finds out; or *)
(* the connection is cut.                                                   *)
Vanish(s) ==
    /\ Spare /\ s \in Active /\ socket[s] = "open"
    /\ socket' = [socket EXCEPT ![s] = "lost"]
    /\ UNCHANGED <<started, channel, bookmark, registered, url, retry, paused, pauses,
                   edits, mail, heard, astray>>

heartbeat(s) ==
    /\ s \in Active /\ socket[s] = "lost"
    /\ socket' = [socket EXCEPT ![s] = "closing"]
    /\ UNCHANGED <<started, channel, bookmark, registered, url, retry, paused, pauses,
                   edits, mail, heard, astray>>

Cut(s) ==
    /\ Spare /\ s \in Active /\ socket[s] = "open"
    /\ socket' = [socket EXCEPT ![s] = "closing"]
    /\ UNCHANGED <<started, channel, bookmark, registered, url, retry, paused, pauses,
                   edits, mail, heard, astray>>

(* forgetAndCloseSessions. *)
forgetAndCloseSessions ==
    /\ Spare
    /\ url' = FALSE
    /\ socket' = [s \in Session |-> IF s \in Active THEN "closing" ELSE socket[s]]
    /\ UNCHANGED <<started, channel, bookmark, registered, retry, paused, pauses,
                   edits, mail, heard, astray>>

(* Mutant of Backup: the bookmark is cleared although a backup lives.      *)
BackupNever(s) == {}

Backup(s) == First({t \in Active \ {s} : sessionAlive(t)})

(* The close event: the bookmark moves to the oldest live backup, or the   *)
(* peer is dialled again.                                                  *)
onClose(s) ==
    /\ s \in Active /\ socket[s] = "closing"
    /\ socket' = [socket EXCEPT ![s] = "closed"]
    /\ channel' = [channel EXCEPT ![s] = "detached"]
    /\ registered' = IF registered = s THEN None ELSE registered
    /\ \/ bookmark # s /\ UNCHANGED <<bookmark, retry>>
       \/ bookmark = s /\ bookmark' \in Backup(s) /\ UNCHANGED retry
       \/ /\ bookmark = s /\ Backup(s) = {}
          /\ bookmark' = None
          /\ retry' = scheduleReconnect(retry)
    /\ mail' = [mail EXCEPT ![s] = {}]
    /\ astray' = astray \cup IF \E t \in Transports \ {s} : channel[t] = "ready"
                             THEN mail[s] ELSE {}
    /\ UNCHANGED <<started, url, paused, pauses, edits, heard>>

(* applyPausedState detaches the folder everywhere, or attaches it again.  *)
Pause ==
    /\ ~paused /\ pauses < MaxPauses
    /\ paused' = TRUE
    /\ pauses' = pauses + 1
    /\ channel' = [s \in Session |-> "detached"]
    /\ registered' = IF Transports = {} THEN registered ELSE None
    /\ UNCHANGED <<started, socket, bookmark, url, retry, edits, mail, heard, astray>>

Resume ==
    /\ paused
    /\ paused' = FALSE
    /\ Attached(Active)
    /\ UNCHANGED <<started, socket, bookmark, url, retry, pauses, edits, mail, heard, astray>>

(* The indexes of the two sides are exchanged: the peer has every change.  *)
Exchange(s) ==
    /\ s \in Active /\ channel[s] = "exchanging" /\ socket[s] = "open"
    /\ channel' = [channel EXCEPT ![s] = "ready"]
    /\ heard' = 1..edits
    /\ UNCHANGED <<started, socket, bookmark, registered, url, retry, paused, pauses,
                   edits, mail, astray>>

(* Mutant of Covered: the announcement goes to the backup sessions only.   *)
CoveredBackups == Transports \ First(Transports)

(* broadcastFolderUpdates: one transport per device, the first.            *)
Covered == First(Transports)

(* A scan finds a change and announces it. *)
Edit ==
    /\ ~paused /\ edits < MaxEdits
    /\ edits' = edits + 1
    /\ mail' = [s \in Session |-> IF s \in Covered THEN mail[s] \cup {edits + 1} ELSE mail[s]]
    /\ UNCHANGED <<started, socket, channel, bookmark, registered, url, retry, paused,
                   pauses, heard, astray>>

Arrive(s) ==
    /\ s \in Active /\ socket[s] = "open" /\ mail[s] # {}
    /\ heard' = heard \cup mail[s]
    /\ mail' = [mail EXCEPT ![s] = {}]
    /\ UNCHANGED <<started, socket, channel, bookmark, registered, url, retry, paused,
                   pauses, edits, astray>>

----------------------------------------------------------------------------
Step(s) ==
    \/ Vanish(s) \/ heartbeat(s) \/ Cut(s) \/ onClose(s) \/ Exchange(s) \/ Arrive(s)

Next ==
    \/ Meet \/ Dial \/ DialSucceeds \/ DialFails \/ forgetAndCloseSessions
    \/ Pause \/ Resume \/ Edit
    \/ \E s \in Session : Step(s)

Spec == Init /\ [][Next]_sessionVars
----------------------------------------------------------------------------
(* Properties.                                                             *)

TypeOK ==
    /\ started \in 0..MaxSessions
    /\ socket \in [Session -> {"open", "lost", "closing", "closed"}]
    /\ channel \in [Session -> {"detached", "exchanging", "ready"}]
    /\ {bookmark, registered} \subseteq Active \cup {None}
    /\ url \in BOOLEAN
    /\ retry \in [timer : BOOLEAN, strays : Nat, dials : Nat]
    /\ paused \in BOOLEAN
    /\ pauses \in 0..MaxPauses
    /\ edits \in 0..MaxEdits
    /\ mail \in [Session -> SUBSET (1..edits)]
    /\ heard \subseteq 1..edits /\ astray \subseteq 1..edits

(* While any session with the peer is alive, there is a bookmarked one for *)
(* control messages (a dead one only until its close event hands it on).   *)
BookmarkKept == (\E s \in Active : sessionAlive(s)) => bookmark # None

(* A peer whose address is known and that has no session is being dialled  *)
(* or will be: no interleaving of inbound connections, timers and failing  *)
(* dials drops the last timer.                                             *)
NeverAbandoned ==
    url /\ bookmark = None => retry.timer \/ retry.strays > 0 \/ retry.dials > 0

(* The folder's channels are those of the live sessions, none while it is  *)
(* paused, and what the folder has registered is one of them.              *)
ChannelsMatch ==
    /\ Transports = IF paused THEN {} ELSE Active
    /\ registered \in Transports \cup {None}

(* What the three tables of sessions promise, through every overlap.       *)
SessionsConsistent == BookmarkKept /\ NeverAbandoned /\ ChannelsMatch

=============================================================================
