--------------------------- MODULE DiskGuardProofs ---------------------------
(***************************************************************************)
(* Theorems about PeerSessions and DiskGuard: for any number of sessions,  *)
(* pauses, changes and updates, the three tables of sessions agree, and    *)
(* what a full disk holds back is kept at a session that can replay it.    *)
(*                                                                         *)
(* SessionsConsistent is not inductive: a session that is attached while   *)
(* the folder is paused relies on its channel being detached before it     *)
(* starts, which SessionInv adds.                                          *)
(***************************************************************************)
EXTENDS DiskGuard, WellFoundedInduction, TLAPS

(* A session that is not there has no channel of the folder. *)
IdleDetached == \A s \in Session : s \notin Active => channel[s] = "detached"

SessionInv == TypeOK /\ SessionsConsistent /\ IdleDetached
----------------------------------------------------------------------------
(* The oldest session. *)

(* Every nonempty set of sessions has an oldest one: activeSessions is     *)
(* searched in the order in which the sessions started.                    *)
LEMMA FirstExists == ASSUME NEW S, S \subseteq Nat, S # {} PROVE First(S) # {}
<1> DEFINE Less == {pair \in Nat \X Nat : pair[1] < pair[2]}
<1>1. IsWellFoundedOn(Less, Nat)
  BY NatLessThanWellFounded DEF OpToRel
<1>2. PICK x \in S : \A y \in S : ~(<<y, x>> \in Less)
  <2> HIDE DEF Less
  <2> QED BY <1>1, WFMin
<1>3. \A y \in S : <<y, x>> \in Nat \X Nat /\ <<y, x>>[1] = y /\ <<y, x>>[2] = x
  OBVIOUS
<1>4. \A y \in S : ~(y < x)
  BY <1>2, <1>3
<1> QED
  BY <1>2, <1>4 DEF First

(* The handler of a close finds a backup whenever another session is alive. *)
LEMMA BackupFound ==
    ASSUME BoundAssumption, TypeOK, NEW s, Backup(s) = {}
    PROVE  \A t \in Active \ {s} : ~sessionAlive(t)
<1>1. {t \in Active \ {s} : sessionAlive(t)} \subseteq Nat
  BY DEF Active, TypeOK, BoundAssumption
<1> QED
  BY <1>1, FirstExists DEF Backup

(* Sessions are natural numbers, and None is not one of them. *)
LEMMA SessionFacts ==
    ASSUME BoundAssumption, NoneAssumption, TypeOK
    PROVE  /\ Active \subseteq Session
           /\ None \notin Session
           /\ started + 1 \notin Active
BY DEF Active, Session, TypeOK, BoundAssumption, NoneAssumption
----------------------------------------------------------------------------
(* The steps. *)

(* One more timer keeps the record of timers and dials well typed. *)
LEMMA RescheduleType ==
    ASSUME NEW r \in [timer : BOOLEAN, strays : Nat, dials : Nat]
    PROVE  scheduleReconnect(r) \in [timer : BOOLEAN, strays : Nat, dials : Nat]
<1>1. r.strays \in Nat /\ r.strays + 1 \in Nat /\ r.strays + 0 \in Nat
  OBVIOUS
<1> QED
  BY <1>1 DEF scheduleReconnect

(* A session that starts keeps the tables in agreement. *)
LEMMA StartKeeps ==
    ASSUME BoundAssumption, NoneAssumption, SessionInv,
           NEW learned \in BOOLEAN, startSyncSession(learned),
           UNCHANGED <<paused, pauses, edits, mail, heard, astray>>,
           retry' \in [timer : BOOLEAN, strays : Nat, dials : Nat]
    PROVE  SessionInv'
<1> DEFINE n == started + 1
<1>1. n \in Session /\ n \notin Active /\ started' = n /\ socket' = [socket EXCEPT ![n] = "open"]
  BY SessionFacts DEF startSyncSession, Spare, SessionInv, TypeOK, Session, BoundAssumption
<1>2. Active' = Active \cup {n}
  <2>1. \A s \in Session : socket'[s] = IF s = n THEN "open" ELSE socket[s]
    BY <1>1 DEF SessionInv, TypeOK
  <2>2. 1..started' = (1..started) \cup {n} /\ 1..started' \subseteq Session
    BY <1>1 DEF SessionInv, TypeOK, Session, BoundAssumption
  <2> QED
    BY <2>1, <2>2, <1>1 DEF Active
<1>3. channel' = [s \in Session |-> IF s = n /\ ~paused THEN "exchanging" ELSE channel[s]]
  BY DEF startSyncSession, Attached, SessionInv, TypeOK
<1>4. registered' = IF paused THEN registered ELSE n
  BY <1>1 DEF startSyncSession, Attached, Last
<1>5. bookmark' = (IF bookmark = None \/ ~sessionAlive(bookmark) THEN n ELSE bookmark)
  BY DEF startSyncSession
<1> HIDE DEF n
<1>6. IdleDetached'
  BY <1>1, <1>2, <1>3 DEF SessionInv, IdleDetached
<1>7. Transports' = IF paused' THEN {} ELSE Active'
  BY <1>1, <1>2, <1>3, SessionFacts DEF SessionInv, SessionsConsistent, ChannelsMatch, Transports,
     IdleDetached, startSyncSession
<1>8. registered' \in Transports' \cup {None}
  BY <1>1, <1>2, <1>4, <1>7 DEF SessionInv, SessionsConsistent, ChannelsMatch
<1>9. bookmark' # None /\ bookmark' \in Active' \cup {None}
  BY <1>1, <1>2, <1>5, SessionFacts DEF SessionInv, TypeOK
<1>10. TypeOK'
  <2>1. started' \in 0..MaxSessions /\ url' \in BOOLEAN
    BY DEF startSyncSession, Spare, SessionInv, TypeOK, BoundAssumption
  <2>2. socket' \in [Session -> {"open", "lost", "closing", "closed"}]
    BY <1>1 DEF SessionInv, TypeOK
  <2>3. channel' \in [Session -> {"detached", "exchanging", "ready"}]
    BY <1>3 DEF SessionInv, TypeOK
  <2>4. registered' \in Active' \cup {None}
    BY <1>8 DEF Transports
  <2> QED
    BY <2>1, <2>2, <2>3, <2>4, <1>9 DEF SessionInv, TypeOK
<1> QED
  BY <1>6, <1>7, <1>8, <1>9, <1>10 DEF SessionInv, SessionsConsistent, BookmarkKept,
     NeverAbandoned, ChannelsMatch

(* A socket that changes without being closed leaves the tables alone. *)
LEMMA SocketKeeps ==
    ASSUME BoundAssumption, NoneAssumption, SessionInv,
           NEW live \in SUBSET Active, socket' \in [Session -> {"open", "lost", "closing", "closed"}],
           \A s \in Session : IF s \in live THEN socket'[s] \in {"lost", "closing"}
                                           ELSE socket'[s] = socket[s],
           UNCHANGED <<started, channel, bookmark, registered, paused, pauses, edits,
                       mail, heard, astray>>
    PROVE  /\ Active' = Active
           /\ IdleDetached' /\ ChannelsMatch'
           /\ (\A s \in live : socket[s] \in {"open", "lost"}) => BookmarkKept'
<1>1. Active' = Active
  <2>1. 1..started \subseteq Session /\ started' = started
    BY DEF SessionInv, TypeOK, Session, BoundAssumption
  <2>2. \A s \in Session : socket'[s] = "closed" <=> socket[s] = "closed"
    BY DEF Active
  <2> QED
    BY <2>1, <2>2 DEF Active
<1>2. \A s \in Session : socket'[s] \in {"open", "lost"} => socket[s] \in {"open", "lost"}
                                                         \/ s \in live
  OBVIOUS
<1>3. IdleDetached' /\ ChannelsMatch'
  BY <1>1 DEF SessionInv, SessionsConsistent, IdleDetached, ChannelsMatch, Transports
<1>4. ASSUME \A s \in live : socket[s] \in {"open", "lost"} PROVE BookmarkKept'
  BY <1>1, <1>2, <1>4, SessionFacts DEF SessionInv, SessionsConsistent, BookmarkKept, sessionAlive
<1> QED
  BY <1>1, <1>3, <1>4

(* The close of a session hands the bookmark on, or has the peer dialled.  *)
LEMMA CloseKeeps ==
    ASSUME BoundAssumption, NoneAssumption, SessionInv, NEW s \in Session, onClose(s)
    PROVE  SessionInv'
<1>1. s \in Active /\ socket[s] = "closing"
  BY DEF onClose
<1>2. \A t \in Session : socket'[t] = IF t = s THEN "closed" ELSE socket[t]
  BY DEF onClose, SessionInv, TypeOK
<1>3. \A t \in Session : channel'[t] = IF t = s THEN "detached" ELSE channel[t]
  BY DEF onClose, SessionInv, TypeOK
<1>4. Active' = Active \ {s} /\ Active' \subseteq Session
  BY <1>2, SessionFacts DEF onClose, Active, SessionInv
<1>5. Transports' = Transports \ {s}
  BY <1>3, <1>4 DEF Transports
<1>6. registered' = IF registered = s THEN None ELSE registered
  BY DEF onClose
<1>7. bookmark' \in Active' \cup {None}
  <2>1. Backup(s) \subseteq Active \ {s}
    BY DEF Backup, First
  <2> QED
    BY <2>1, <1>4 DEF onClose, SessionInv, TypeOK
<1>8. retry' = retry \/ retry' = scheduleReconnect(retry)
  BY DEF onClose
<1>9. retry' \in [timer : BOOLEAN, strays : Nat, dials : Nat]
  <2>1. retry \in [timer : BOOLEAN, strays : Nat, dials : Nat]
    BY DEF SessionInv, TypeOK
  <2> QED
    BY <1>8, <2>1, RescheduleType
<1>10. TypeOK'
  <2>1. socket' \in [Session -> {"open", "lost", "closing", "closed"}]
    BY DEF onClose, SessionInv, TypeOK
  <2>2. channel' \in [Session -> {"detached", "exchanging", "ready"}]
    BY DEF onClose, SessionInv, TypeOK
  <2>3. registered' \in Active' \cup {None}
    BY <1>4, <1>6 DEF SessionInv, TypeOK
  <2>4. mail' \in [Session -> SUBSET (1..edits)] /\ astray' \subseteq 1..edits
    BY DEF onClose, SessionInv, TypeOK
  <2> QED
    BY <2>1, <2>2, <2>3, <2>4, <1>7, <1>9 DEF onClose, SessionInv, TypeOK
<1>11. IdleDetached'
  BY <1>3, <1>4 DEF SessionInv, IdleDetached
<1>12. ChannelsMatch'
  BY <1>4, <1>5, <1>6 DEF onClose, SessionInv, SessionsConsistent, ChannelsMatch
<1>13. BookmarkKept'
  <2>1. \A t \in Active' : sessionAlive(t)' => sessionAlive(t)
    BY <1>2, <1>4 DEF sessionAlive
  <2>2. CASE bookmark # s
    BY <2>1, <2>2, <1>4 DEF onClose, SessionInv, SessionsConsistent, BookmarkKept
  <2>3. CASE bookmark = s /\ Backup(s) # {}
    <3>1. bookmark' \in Backup(s)
      BY <2>3 DEF onClose
    <3>2. bookmark' \in Active
      BY <3>1 DEF Backup, First
    <3> QED
      BY <3>2, SessionFacts DEF BookmarkKept, SessionInv
  <2>4. CASE Backup(s) = {}
    BY <2>1, <2>4, <1>4, BackupFound DEF SessionInv, BookmarkKept
  <2> QED
    BY <2>2, <2>3, <2>4
<1>14. NeverAbandoned'
  <2>1. CASE retry' = scheduleReconnect(retry)
    BY <2>1 DEF scheduleReconnect, onClose, SessionInv, TypeOK, NeverAbandoned
  <2>2. CASE bookmark' = bookmark /\ retry' = retry
    BY <2>2 DEF onClose, SessionInv, SessionsConsistent, NeverAbandoned
  <2>3. CASE bookmark' \in Backup(s)
    <3>1. bookmark' \in Active
      BY <2>3 DEF Backup, First
    <3> QED
      BY <3>1, SessionFacts DEF NeverAbandoned, SessionInv
  <2> QED
    BY <2>1, <2>2, <2>3 DEF onClose
<1> QED
  BY <1>10, <1>11, <1>12, <1>13, <1>14 DEF SessionInv, SessionsConsistent

(* Every step of the sessions keeps the strengthened invariant. *)
LEMMA SessionStep ==
    ASSUME BoundAssumption, NoneAssumption, SessionInv, [Next]_sessionVars
    PROVE  SessionInv'
<1> DEFINE Retry == [timer : BOOLEAN, strays : Nat, dials : Nat]
<1> USE DEF SessionInv
<1>0. retry \in Retry /\ retry.timer \in BOOLEAN /\ retry.strays \in Nat /\ retry.dials \in Nat
  BY DEF TypeOK
<1>1. CASE Meet
  <2>1. retry' \in Retry
    BY <1>0, <1>1 DEF Meet
  <2> QED
    BY <1>1, <2>1, StartKeeps DEF Meet
<1>2. CASE Dial
  <2>0. retry.dials + 1 \in Nat /\ retry.dials + 1 > 0
        /\ (retry.strays > 0 => retry.strays - 1 \in Nat)
    BY <1>0
  <2>1. retry' \in Retry /\ retry'.dials > 0
    <3>1. CASE retry' = [retry EXCEPT !.timer = FALSE, !.dials = @ + 1]
      BY <1>0, <2>0, <3>1
    <3>2. CASE /\ retry.strays > 0
               /\ retry' = [timer |-> FALSE, dials |-> retry.dials + 1,
                            strays |-> IF retry.timer THEN retry.strays ELSE retry.strays - 1]
      BY <1>0, <2>0, <3>2
    <3> QED
      BY <1>2, <3>1, <3>2 DEF Dial
  <2> QED
    BY <1>2, <2>1 DEF Dial, TypeOK, Active, IdleDetached, SessionsConsistent, BookmarkKept,
       sessionAlive, NeverAbandoned, ChannelsMatch, Transports
<1>3. CASE DialSucceeds
  <2>1. retry' \in Retry
    <3>1. retry.dials - 1 \in Nat /\ retry' = [retry EXCEPT !.timer = FALSE, !.dials = @ - 1]
      BY <1>0, <1>3 DEF DialSucceeds
    <3> QED
      BY <1>0, <3>1
  <2> QED
    BY <1>3, <2>1, StartKeeps DEF DialSucceeds
<1>4. CASE DialFails
  <2> DEFINE done == [retry EXCEPT !.dials = @ - 1]
  <2>1. done \in Retry
    BY <1>0, <1>4 DEF DialFails
  <2>2. retry' \in Retry
    BY <2>1, <1>4, RescheduleType DEF DialFails
  <2>3. url => retry'.timer
    BY <2>1, <1>4 DEF DialFails, scheduleReconnect
  <2> QED
    BY <1>4, <2>2, <2>3 DEF DialFails, TypeOK, Active, IdleDetached, SessionsConsistent,
       BookmarkKept, sessionAlive, NeverAbandoned, ChannelsMatch, Transports
<1>5. CASE forgetAndCloseSessions
  <2>1. \A s \in Session : IF s \in Active THEN socket'[s] \in {"lost", "closing"}
                                           ELSE socket'[s] = socket[s]
    BY <1>5 DEF forgetAndCloseSessions
  <2>2. socket' \in [Session -> {"open", "lost", "closing", "closed"}]
    BY <1>5 DEF forgetAndCloseSessions, TypeOK
  <2>3. Active' = Active /\ IdleDetached' /\ ChannelsMatch'
    BY <1>5, <2>1, <2>2, SocketKeeps DEF forgetAndCloseSessions
  <2>4. BookmarkKept'
    BY <1>5, <2>3, SessionFacts DEF forgetAndCloseSessions, BookmarkKept, sessionAlive
  <2>5. NeverAbandoned'
    BY <1>5 DEF forgetAndCloseSessions, NeverAbandoned
  <2> QED
    BY <1>5, <2>2, <2>3, <2>4, <2>5 DEF forgetAndCloseSessions, TypeOK, SessionsConsistent
<1>6. CASE Pause
  <2>1. Active' = Active /\ \A s \in Session : channel'[s] = "detached"
    BY <1>6 DEF Pause, Active
  <2>2. Transports' = {} /\ registered' = None
    BY <1>6, <2>1, SessionFacts DEF Pause, Transports, SessionsConsistent, ChannelsMatch
  <2>3. TypeOK'
    BY <1>6, <2>1, <2>2 DEF Pause, TypeOK, BoundAssumption
  <2> QED
    BY <1>6, <2>1, <2>2, <2>3, SessionFacts DEF Pause, IdleDetached, SessionsConsistent,
       BookmarkKept, sessionAlive, NeverAbandoned, ChannelsMatch
<1>7. CASE Resume
  <2>1. Active' = Active /\ \A s \in Session : channel'[s] = IF s \in Active THEN "exchanging" ELSE channel[s]
    BY <1>7 DEF Resume, Active, Attached
  <2>2. Transports' = Active
    BY <2>1, SessionFacts DEF Transports
  <2>3. registered' \in Active \cup {None}
    BY <1>7 DEF Resume, Attached, Last, TypeOK
  <2>4. channel' \in [Session -> {"detached", "exchanging", "ready"}]
    BY <1>7 DEF Resume, Attached, TypeOK
  <2>5. TypeOK'
    BY <1>7, <2>1, <2>3, <2>4 DEF Resume, TypeOK
  <2> QED
    BY <1>7, <2>1, <2>2, <2>3, <2>5 DEF Resume, IdleDetached, SessionsConsistent,
       BookmarkKept, sessionAlive, NeverAbandoned, ChannelsMatch
<1>8. CASE Edit
  <2>1. edits' \in 0..MaxEdits /\ 1..edits \subseteq 1..edits' /\ edits + 1 \in 1..edits'
    BY <1>8 DEF Edit, TypeOK, BoundAssumption
  <2>2. mail' \in [Session -> SUBSET (1..edits')]
    BY <1>8, <2>1 DEF Edit, TypeOK
  <2> QED
    BY <1>8, <2>1, <2>2 DEF Edit, TypeOK, Active, IdleDetached, SessionsConsistent,
       BookmarkKept, sessionAlive, NeverAbandoned, ChannelsMatch, Transports
<1>9. ASSUME NEW s \in Session, Vanish(s) \/ heartbeat(s) \/ Cut(s) PROVE SessionInv'
  <2>1. s \in Active /\ UNCHANGED <<started, channel, bookmark, registered, url, retry, paused,
                                    pauses, edits, mail, heard, astray>>
    BY <1>9 DEF Vanish, heartbeat, Cut
  <2>2. socket' \in [Session -> {"open", "lost", "closing", "closed"}]
    BY <1>9 DEF Vanish, heartbeat, Cut, TypeOK
  <2>3. \A t \in Session : IF t \in {s} THEN socket'[t] \in {"lost", "closing"}
                                        ELSE socket'[t] = socket[t]
    BY <1>9 DEF Vanish, heartbeat, Cut, TypeOK
  <2>4. \A t \in {s} : socket[t] \in {"open", "lost"}
    BY <1>9 DEF Vanish, heartbeat, Cut
  <2>5. {s} \in SUBSET Active
    BY <2>1
  <2>6. Active' = Active /\ IdleDetached' /\ ChannelsMatch' /\ BookmarkKept'
    BY <2>1, <2>2, <2>3, <2>4, <2>5, SocketKeeps
  <2> QED
    BY <2>1, <2>2, <2>6 DEF TypeOK, SessionsConsistent, NeverAbandoned
<1>10. ASSUME NEW s \in Session, Exchange(s) PROVE SessionInv'
  <2>1. Active' = Active /\ Transports' = Transports /\ IdleDetached'
    BY <1>10 DEF Exchange, TypeOK, Active, Transports, IdleDetached
  <2> QED
    BY <1>10, <2>1 DEF Exchange, TypeOK, SessionsConsistent, BookmarkKept, sessionAlive,
       NeverAbandoned, ChannelsMatch
<1>11. ASSUME NEW s \in Session, Arrive(s) PROVE SessionInv'
  <2>1. mail' \in [Session -> SUBSET (1..edits)] /\ heard' \subseteq 1..edits
    BY <1>11 DEF Arrive, TypeOK
  <2> QED
    BY <1>11, <2>1 DEF Arrive, TypeOK, Active, IdleDetached, SessionsConsistent,
       BookmarkKept, sessionAlive, NeverAbandoned, ChannelsMatch, Transports
<1>12. CASE UNCHANGED sessionVars
  BY <1>12 DEF sessionVars, TypeOK, Active, IdleDetached, SessionsConsistent,
     BookmarkKept, sessionAlive, NeverAbandoned, ChannelsMatch, Transports
<1>13. ASSUME NEW s \in Session, onClose(s) PROVE SessionInv'
  BY <1>13, CloseKeeps
<1> QED
  BY <1>1, <1>2, <1>3, <1>4, <1>5, <1>6, <1>7, <1>8, <1>9, <1>10, <1>11, <1>12, <1>13
     DEF Next, Step

LEMMA SessionStart == ASSUME BoundAssumption, NoneAssumption, Init PROVE SessionInv
<1>1. Active = {} /\ Transports = {}
  BY DEF Init, Active, Transports
<1>2. retry \in [timer : BOOLEAN, strays : Nat, dials : Nat]
  BY DEF Init
<1>3. TypeOK
  <2>1. started \in 0..MaxSessions /\ pauses \in 0..MaxPauses /\ edits \in 0..MaxEdits
    BY DEF Init, BoundAssumption
  <2>2. mail \in [Session -> SUBSET (1..edits)] /\ heard \subseteq 1..edits /\ astray \subseteq 1..edits
    BY DEF Init
  <2>3. /\ socket \in [Session -> {"open", "lost", "closing", "closed"}]
        /\ channel \in [Session -> {"detached", "exchanging", "ready"}]
    BY DEF Init
  <2>4. {bookmark, registered} \subseteq Active \cup {None} /\ url \in BOOLEAN /\ paused \in BOOLEAN
    BY DEF Init
  <2> QED
    BY <1>2, <2>1, <2>2, <2>3, <2>4 DEF TypeOK
<1>4. SessionsConsistent /\ IdleDetached
  BY <1>1 DEF Init, SessionsConsistent, BookmarkKept, NeverAbandoned, ChannelsMatch, IdleDetached
<1> QED
  BY <1>3, <1>4 DEF SessionInv
----------------------------------------------------------------------------
(* The disk guard. *)

(* What is kept for later is kept by a SyncPeer that exists. *)
KeptAtTransports == \A s \in Session : diskBlockedRetry[s] # {} => s \in Transports

GuardInv == SessionInv /\ GuardTypeOK

(* A step of the guard is one of the sessions, or leaves them alone. *)
LEMMA GuardedIsSession == GuardedNext => [Next]_sessionVars
<1> SUFFICES ASSUME GuardedNext PROVE [Next]_sessionVars
  OBVIOUS
<1>1. CASE Meet \/ Dial \/ DialSucceeds \/ DialFails \/ forgetAndCloseSessions \/ Resume \/ Edit
  BY <1>1 DEF Next
<1>2. CASE PauseGuard
  BY <1>2 DEF PauseGuard, Next
<1>3. ASSUME NEW s \in Session, GuardedStep(s) PROVE Next
  BY <1>3 DEF GuardedStep, CloseGuard, ExchangeGuard, Next, Step
<1>4. ASSUME NEW u \in Update, Announce(u) PROVE UNCHANGED sessionVars
  BY <1>4 DEF Announce
<1>5. CASE scanOnce \/ Fill \/ Free
  BY <1>5 DEF scanOnce, Fill, Free
<1> QED
  BY <1>1, <1>2, <1>3, <1>4, <1>5 DEF GuardedNext

(* An index that comes to a session that has a channel is applied, or kept *)
(* by that session; what others keep stays or is replayed.                 *)
LEMMA IndexKeeps ==
    ASSUME BoundAssumption, NoneAssumption, GuardTypeOK,
           NEW s \in Session, NEW updates \in SUBSET theirs',
           theirs \subseteq theirs', theirs' \subseteq Update, onPeerIndex(s, updates),
           UNCHANGED <<space, fills>>, Transports' = Transports, s \in Transports
    PROVE  /\ got' \subseteq theirs' /\ stranded' \subseteq theirs'
           /\ diskBlocked' \in BOOLEAN
           /\ diskBlockedRetry' \in [Session -> SUBSET theirs']
           /\ KeptAtTransports'
<1>1. /\ got \subseteq theirs' /\ stranded \subseteq theirs'
      /\ diskBlockedRetry \in [Session -> SUBSET theirs']
      /\ \A t \in Session : diskBlockedRetry[t] # {} => t \in Transports
  BY DEF GuardTypeOK
<1>2. CASE PutOff(s, updates)
  BY <1>1, <1>2 DEF PutOff, KeptAtTransports
<1>3. CASE PutOn(s, updates)
  <2>1. \A sessions : KeptBy(sessions \cap Session) \subseteq theirs'
    BY <1>1 DEF KeptBy
  <2> DEFINE replaying == IF diskBlocked /\ Needs(updates) THEN Replaying ELSE {}
  <2>2. /\ diskBlocked' = (diskBlocked /\ ~(diskBlocked /\ Needs(updates)))
        /\ diskBlockedRetry' = [t \in Session |-> IF t \in replaying \cup {s} THEN {}
                                                  ELSE diskBlockedRetry[t]]
        /\ got' = got \cup updates \cup KeptBy(replaying)
        /\ stranded' \subseteq stranded \cup KeptBy({s}) \cup KeptBy(Session)
    BY <1>3 DEF PutOn, KeptBy
  <2>3. replaying \subseteq Session
    <3>1. registered \in Session \cup {None}
      BY SessionFacts DEF GuardTypeOK, TypeOK
    <3> QED
      BY <3>1 DEF Replaying
  <2>4. /\ KeptBy(replaying) \subseteq theirs' /\ KeptBy({s}) \subseteq theirs'
        /\ KeptBy(Session) \subseteq theirs'
    <3>1. replaying = replaying \cap Session /\ {s} = {s} \cap Session
      BY <2>3
    <3> QED
      BY <2>1, <3>1
  <2> HIDE DEF replaying
  <2>5. got' \subseteq theirs' /\ stranded' \subseteq theirs'
    BY <1>1, <2>2, <2>4
  <2>6. diskBlockedRetry' \in [Session -> SUBSET theirs'] /\ KeptAtTransports'
    BY <1>1, <2>2 DEF KeptAtTransports
  <2> QED
    BY <2>2, <2>5, <2>6
<1> QED
  BY <1>2, <1>3 DEF onPeerIndex
(* No session ends and the folder is not paused: what is kept stays kept.  *)
LEMMA GuardUntouched ==
    ASSUME GuardInv, SessionInv', UNCHANGED guardVars,
           \A s \in Active : s \in Active', paused' => paused
    PROVE  GuardTypeOK'
<1>1. Transports \subseteq Transports'
  BY DEF GuardInv, SessionInv, SessionsConsistent, ChannelsMatch
<1> QED
  BY <1>1 DEF guardVars, GuardInv, GuardTypeOK, SessionInv

(* Only a close ends a session. *)
LEMMA SessionsLast ==
    ASSUME BoundAssumption, NoneAssumption, SessionInv,
           \/ Meet \/ Dial \/ DialSucceeds \/ DialFails \/ forgetAndCloseSessions \/ Resume \/ Edit
           \/ \E s \in Session : Vanish(s) \/ heartbeat(s) \/ Cut(s) \/ Arrive(s)
    PROVE  (\A t \in Active : t \in Active') /\ (paused' => paused)
<1> USE DEF SessionInv
<1>0. started' = started => 1..started' = 1..started
  OBVIOUS
<1>1. CASE \E learned \in BOOLEAN : startSyncSession(learned) /\ UNCHANGED paused
  <2>1. /\ started' = started + 1 /\ paused' = paused
        /\ socket' = [socket EXCEPT ![started + 1] = "open"]
    BY <1>1 DEF startSyncSession
  <2>2. 1..started \subseteq 1..started' /\ 1..started \subseteq Session
        /\ started + 1 \notin 1..started
    BY <2>1 DEF TypeOK, Session, BoundAssumption
  <2> QED
    BY <2>1, <2>2 DEF TypeOK, Active
<1>2. CASE Dial \/ DialFails \/ Resume \/ Edit \/ \E s \in Session : Arrive(s)
  BY <1>2 DEF Dial, DialFails, Resume, Edit, Arrive, Active
<1>3. CASE forgetAndCloseSessions
  BY <1>3, SessionFacts DEF forgetAndCloseSessions, Active
<1>4. ASSUME NEW s \in Session, Vanish(s) \/ heartbeat(s) \/ Cut(s)
      PROVE  (\A t \in Active : t \in Active') /\ (paused' => paused)
  BY <1>4, SessionFacts DEF Vanish, heartbeat, Cut, Active, TypeOK
<1> QED
  BY <1>1, <1>2, <1>3, <1>4 DEF Meet, DialSucceeds

LEMMA GuardStep ==
    ASSUME BoundAssumption, NoneAssumption, UpdateAssumption, GuardInv, [GuardedNext]_vars
    PROVE  GuardInv'
<1>1. SessionInv'
  <2>1. [Next]_sessionVars
    BY GuardedIsSession DEF vars
  <2> QED
    BY <2>1, SessionStep DEF GuardInv
<1>2. ASSUME UNCHANGED guardVars,
             \/ Meet \/ Dial \/ DialSucceeds \/ DialFails \/ forgetAndCloseSessions \/ Resume \/ Edit
             \/ \E s \in Session : Vanish(s) \/ heartbeat(s) \/ Cut(s) \/ Arrive(s)
      PROVE  GuardTypeOK'
  <2>1. (\A t \in Active : t \in Active') /\ (paused' => paused)
    BY <1>2, SessionsLast DEF GuardInv
  <2> QED
    BY <1>1, <1>2, <2>1, GuardUntouched
<1>3. CASE PauseGuard
  <2>1. \A s \in Session : diskBlockedRetry'[s] = {}
    BY <1>3 DEF PauseGuard, Detached
  <2>2. diskBlockedRetry' \in [Session -> SUBSET theirs']
    BY <1>3 DEF PauseGuard, Detached, GuardInv, GuardTypeOK
  <2> QED
    BY <1>1, <1>3, <2>1, <2>2 DEF PauseGuard, Detached, GuardInv, GuardTypeOK, SessionInv
<1>4. ASSUME NEW s \in Session, CloseGuard(s) PROVE GuardTypeOK'
  <2>1. diskBlockedRetry' = [t \in Session |-> IF t = s THEN {} ELSE diskBlockedRetry[t]]
    BY <1>4 DEF CloseGuard, Detached
  <2>2. \A t \in Transports \ {s} : t \in Transports'
    BY <1>4, SessionFacts DEF CloseGuard, onClose, Transports, Active, GuardInv, SessionInv, TypeOK
  <2>3. stranded' \subseteq theirs
    BY <1>4 DEF CloseGuard, GuardInv, GuardTypeOK
  <2>4. UNCHANGED <<theirs, got, space, fills, diskBlocked>>
    BY <1>4 DEF CloseGuard, Detached
  <2> QED
    BY <1>1, <2>1, <2>2, <2>3, <2>4 DEF GuardInv, GuardTypeOK, SessionInv
<1>5. ASSUME NEW s \in Session, ExchangeGuard(s) PROVE GuardTypeOK'
  <2>1. Transports' = Transports /\ s \in Transports
    BY <1>5 DEF ExchangeGuard, Exchange, Transports, Active, GuardInv, SessionInv, TypeOK
  <2>2. onPeerIndex(s, theirs) /\ UNCHANGED <<theirs, space, fills>>
    BY <1>5 DEF ExchangeGuard
  <2>3. theirs \subseteq Update
    BY DEF GuardInv, GuardTypeOK
  <2>4. /\ got' \subseteq theirs' /\ stranded' \subseteq theirs' /\ diskBlocked' \in BOOLEAN
        /\ diskBlockedRetry' \in [Session -> SUBSET theirs'] /\ KeptAtTransports'
    BY <2>1, <2>2, <2>3, IndexKeeps DEF GuardInv
  <2> QED
    BY <1>1, <2>2, <2>3, <2>4 DEF GuardInv, GuardTypeOK, SessionInv, KeptAtTransports
<1>6. ASSUME NEW u \in Update, Announce(u) PROVE GuardTypeOK'
  <2>1. theirs' = theirs \cup {u} /\ UNCHANGED <<sessionVars, space, fills>>
    BY <1>6 DEF Announce
  <2>2. Transports' = Transports /\ theirs' \subseteq Update
    BY <2>1 DEF sessionVars, Transports, Active, GuardInv, GuardTypeOK
  <2>3. CASE UNCHANGED <<got, diskBlocked, diskBlockedRetry, stranded>>
    BY <1>1, <2>1, <2>2, <2>3 DEF GuardInv, GuardTypeOK, SessionInv
  <2>4. ASSUME NEW s \in Transports, onPeerIndex(s, {u}) PROVE GuardTypeOK'
    <3>1. s \in Session /\ {u} \in SUBSET theirs'
      BY <2>1, SessionFacts DEF Transports, GuardInv, SessionInv
    <3>2. /\ got' \subseteq theirs' /\ stranded' \subseteq theirs' /\ diskBlocked' \in BOOLEAN
          /\ diskBlockedRetry' \in [Session -> SUBSET theirs'] /\ KeptAtTransports'
      BY <2>1, <2>2, <2>4, <3>1, IndexKeeps DEF GuardInv
    <3> QED
      BY <1>1, <2>1, <2>2, <3>2 DEF GuardInv, GuardTypeOK, SessionInv, KeptAtTransports
  <2> QED
    BY <1>6, <2>3, <2>4 DEF Announce
<1>7. CASE scanOnce
  <2>1. KeptBy(Replaying) \subseteq theirs /\ KeptBy(Session \ {registered}) \subseteq theirs
    <3>1. Replaying \subseteq Session
      BY SessionFacts DEF Replaying, GuardInv, SessionInv, TypeOK
    <3> QED
      BY <3>1 DEF KeptBy, GuardInv, GuardTypeOK
  <2>2. diskBlockedRetry' = [s \in Session |-> IF s \in Replaying THEN {} ELSE diskBlockedRetry[s]]
    BY <1>7 DEF scanOnce
  <2>3. Transports' = Transports
    BY <1>7 DEF scanOnce, sessionVars, Transports, Active
  <2>4. /\ got' \subseteq theirs' /\ stranded' \subseteq theirs' /\ diskBlocked' \in BOOLEAN
        /\ UNCHANGED <<theirs, space, fills>>
    BY <1>7, <2>1 DEF scanOnce, GuardInv, GuardTypeOK
  <2> QED
    BY <1>1, <2>2, <2>3, <2>4 DEF GuardInv, GuardTypeOK, SessionInv
<1>8. CASE Fill \/ Free
  <2>1. fills' \in 0..MaxFills /\ space' \in BOOLEAN
    <3>1. fills \in 0..MaxFills /\ MaxFills \in Nat
      BY DEF GuardInv, GuardTypeOK, UpdateAssumption
    <3>2. CASE Fill
      <4>1. fills < MaxFills /\ fills' = fills + 1 /\ space' = FALSE
        BY <3>2 DEF Fill
      <4>2. fills' \in 0..MaxFills
        BY <3>1, <4>1
      <4> QED
        BY <4>1, <4>2
    <3>3. CASE Free
      BY <3>1, <3>3 DEF Free
    <3> QED
      BY <1>8, <3>2, <3>3
  <2>2. Transports' = Transports
    BY <1>8 DEF Fill, Free, sessionVars, Transports, Active
  <2> QED
    BY <1>1, <1>8, <2>1, <2>2 DEF Fill, Free, GuardInv, GuardTypeOK, SessionInv
<1>9. CASE UNCHANGED vars
  <2>1. Transports' = Transports
    BY <1>9 DEF vars, sessionVars, Transports, Active
  <2> QED
    BY <1>1, <1>9, <2>1 DEF vars, guardVars, GuardInv, GuardTypeOK, SessionInv
<1>10. GuardTypeOK'
  <2>1. ASSUME NEW s \in Session, GuardedStep(s) PROVE GuardTypeOK'
    BY <1>2, <1>4, <1>5, <2>1 DEF GuardedStep
  <2>2. CASE GuardedNext
    <3>1. CASE /\ \/ Meet \/ Dial \/ DialSucceeds \/ DialFails \/ forgetAndCloseSessions
                  \/ Resume \/ Edit
               /\ UNCHANGED guardVars
      BY <1>2, <3>1
    <3>2. CASE \E s \in Session : GuardedStep(s)
      BY <2>1, <3>2
    <3>3. CASE \E u \in Update : Announce(u)
      BY <1>6, <3>3
    <3> QED
      BY <1>3, <1>7, <1>8, <2>2, <3>1, <3>2, <3>3 DEF GuardedNext, GuardInv
  <2> QED
    BY <1>9, <2>2 DEF GuardInv
<1> QED
  BY <1>1, <1>10 DEF GuardInv

LEMMA GuardStart ==
    ASSUME BoundAssumption, NoneAssumption, UpdateAssumption, GuardedInit PROVE GuardInv
<1>1. SessionInv
  BY SessionStart DEF GuardedInit
<1>2. fills \in 0..MaxFills
  BY DEF GuardedInit, GuardInit, UpdateAssumption
<1> QED
  BY <1>1, <1>2 DEF GuardInv, GuardTypeOK, SessionInv, GuardedInit, GuardInit

LEMMA GuardInvHolds == GuardedSpec => []GuardInv
<1>1. GuardedInit => GuardInv
  BY GuardStart, BoundAssumption, NoneAssumption, UpdateAssumption
<1>2. GuardInv /\ [GuardedNext]_vars => GuardInv'
  BY GuardStep, BoundAssumption, NoneAssumption, UpdateAssumption
<1> QED
  BY <1>1, <1>2, PTL DEF GuardedSpec
----------------------------------------------------------------------------
(* Every state is well typed: in particular, what a full disk holds back   *)
(* is kept at a session that has a channel of the folder, never at one     *)
(* that is gone or paused (diskBlockedRetry of a SyncPeer).                *)
THEOREM GuardTypeCorrect == GuardedSpec => []GuardTypeOK
<1>1. GuardInv => GuardTypeOK
  BY DEF GuardInv
<1> QED
  BY <1>1, GuardInvHolds, PTL

(* Through every overlap of sessions the bookmark, the reconnect timers    *)
(* and the channels agree with the sessions there are (onClose,            *)
(* scheduleReconnect, attachFolderToSession).                              *)
THEOREM SessionsStayConsistent == GuardedSpec => []SessionsConsistent
<1>1. GuardInv => SessionsConsistent
  BY DEF GuardInv, SessionInv
<1> QED
  BY <1>1, GuardInvHolds, PTL
=============================================================================
