---------------------------- MODULE IndexExchange ----------------------------
(***************************************************************************)
(* How two devices that meet again bring one folder up to date: the index  *)
(* fingerprint, the answer to it, the full index that an answer or a       *)
(* timeout sends, and the deltas around them (src/peer.ts,                 *)
(* src/session-manager.ts, src/net/wire.ts).                               *)
(*                                                                         *)
(* An index is the set of the updates it holds: each is a new version of a *)
(* path only one device edits, so that indexes merge by union (what two    *)
(* conflicting entries make of each other is module FolderSync). Frames    *)
(* leave in the order the transport takes them: no bandwidth limit is set. *)
(***************************************************************************)
EXTENDS Naturals, Sequences, SequencesExt

CONSTANTS
    Left, Right,    \* the two devices
    Update,         \* the updates their indexes may hold
    Author,     \* the device that edits an update's path
    Large,          \* the indexes too large for one frame
    FirstChunk,     \* the updates that the first chunk of such an index lists
    CalmTransfers,  \* TRUE: no edit while a large index is on its way
    NoChannel,      \* the folder is not attached to the session
    MaxConnects,    \* bound: sessions
    MaxPauses       \* bound: pauses of the folder

ASSUME DeviceAssumption == Left # Right
ASSUME AuthorAssumption == Author \in [Update -> {Left, Right}]
ASSUME ChunkAssumption == Large \subseteq SUBSET Update /\ CalmTransfers \in BOOLEAN
ASSUME ChannelAssumption == NoChannel \notin [settled : BOOLEAN, owed : SUBSET Update]
ASSUME BoundAssumption == MaxConnects \in Nat /\ MaxPauses \in Nat

VARIABLES
    known,      \* known[d]: localIndex of the folder on d
    paused,     \* paused[d]: the folder is paused on d
    up,         \* a session is established
    channel,    \* channel[d]: d's SyncPeer for the folder in this session
    wire,       \* wire[d]: frames sent by d, not yet handled
    bulk,       \* bulk[d]: chunks of full indexes that d has still to send
    assembly,   \* assembly[d]: chunks d has of the index it is putting together
    sent,       \* sent[d]: the full index d sent last (fullIndexSent), if any
    connects,   \* sessions so far
    pauses      \* pauses so far

vars == <<known, paused, up, channel, wire, bulk, assembly, sent, connects, pauses>>

Device == {Left, Right}
Peer(d) == IF d = Left THEN Right ELSE Left
Attached(d) == channel[d] # NoChannel
Joined == Attached(Left) /\ Attached(Right)

Fingerprint(updates) == [type |-> "index-fingerprint", updates |-> updates]
Reply(kind) == [type |-> kind, updates |-> {}]
Delta(updates) == [type |-> "delta", updates |-> updates]
Full(updates) == [type |-> "full", updates |-> updates]
Chunk(updates, seq) ==
    [type |-> "chunk", seq |-> seq,
     updates |-> IF seq = 1 THEN updates \cap FirstChunk ELSE updates \ FirstChunk]

(* The frames on their way once d has sent more of them after rest.        *)
Put(rest, d, frames) == [rest EXCEPT ![d] = @ \o frames]

(* sendEntries of the whole index: one frame, or chunks that wait for room *)
(* on the wire while other frames overtake them.                           *)
SendFull(rest, d) ==
    IF known[d] \in Large
    THEN /\ bulk' = [bulk EXCEPT ![d] = @ \cup {[updates |-> known[d], next |-> 1]}]
         /\ wire' = rest
    ELSE /\ wire' = Put(rest, d, <<Full(known[d])>>)
         /\ UNCHANGED bulk
----------------------------------------------------------------------------
Init ==
    /\ known = [d \in Device |-> {}]
    /\ paused = [d \in Device |-> FALSE]
    /\ up = FALSE
    /\ channel = [d \in Device |-> NoChannel]
    /\ wire = [d \in Device |-> <<>>]
    /\ bulk = [d \in Device |-> {}]
    /\ assembly = [d \in Device |-> {}]
    /\ sent = [d \in Device |-> {}]
    /\ connects = 0
    /\ pauses = 0

Connect ==
    /\ ~up /\ connects < MaxConnects
    /\ up' = TRUE
    /\ connects' = connects + 1
    /\ UNCHANGED <<known, paused, channel, wire, bulk, assembly, sent, pauses>>

(* Mutant of Disconnect: the channels of the dead session stay attached.   *)
DisconnectKeepsChannels ==
    /\ up /\ connects < MaxConnects
    /\ up' = FALSE
    /\ wire' = [d \in Device |-> <<>>]
    /\ UNCHANGED <<known, paused, channel, bulk, assembly, sent, connects, pauses>>

(* The last session stays. *)
Disconnect ==
    /\ up /\ connects < MaxConnects
    /\ up' = FALSE
    /\ channel' = [d \in Device |-> NoChannel]
    /\ wire' = [d \in Device |-> <<>>]
    /\ bulk' = [d \in Device |-> {}]
    /\ assembly' = [d \in Device |-> {}]
    /\ UNCHANGED <<known, paused, sent, connects, pauses>>

(* attachFolderToSession and beginInitialIndexExchange: each side gets to  *)
(* it in its own time.                                                     *)
Attach(d) ==
    /\ up /\ ~paused[d] /\ ~Attached(d)
    /\ channel' = [channel EXCEPT ![d] = [settled |-> FALSE, owed |-> {}]]
    /\ wire' = Put(wire, d, <<Fingerprint(known[d])>>)
    /\ UNCHANGED <<known, paused, up, bulk, assembly, sent, connects, pauses>>

(* Pausing detaches the folder: its receives are given up.                 *)
Pause(d) ==
    /\ ~paused[d] /\ pauses < MaxPauses
    /\ paused' = [paused EXCEPT ![d] = TRUE]
    /\ channel' = [channel EXCEPT ![d] = NoChannel]
    /\ pauses' = pauses + 1
    /\ UNCHANGED <<known, up, wire, bulk, assembly, sent, connects>>

Resume(d) ==
    /\ paused[d]
    /\ paused' = [paused EXCEPT ![d] = FALSE]
    /\ UNCHANGED <<known, up, channel, wire, bulk, assembly, sent, connects, pauses>>

(* Chunks of an index of d have still to reach the peer or to be put together. *)
Transferring(d) ==
    \/ bulk[d] # {} \/ assembly[Peer(d)] # {}
    \/ \E i \in DOMAIN wire[d] : wire[d][i].type = "chunk"

(* A scan of d finds an edit and announces it to the attached peer.        *)
Edit(d, u) ==
    /\ Author[u] = d /\ u \notin known[d] /\ ~paused[d]
    /\ CalmTransfers => ~Transferring(d)
    /\ known' = [known EXCEPT ![d] = @ \cup {u}]
    /\ wire' = Put(wire, d, IF Attached(d) THEN <<Delta({u})>> ELSE <<>>)
    /\ UNCHANGED <<paused, up, channel, bulk, assembly, sent, connects, pauses>>

SendChunk(d) ==
    \E b \in bulk[d] :
        /\ wire' = Put(wire, d, <<Chunk(b.updates, b.next)>>)
        /\ bulk' = [bulk EXCEPT ![d] = (@ \ {b}) \cup
                        IF b.next = 2 THEN {} ELSE {[b EXCEPT !.next = 2]}]
        /\ UNCHANGED <<known, paused, up, channel, assembly, sent, connects, pauses>>

----------------------------------------------------------------------------
(* Handlers of the first frame at d.                                       *)

Arrives(d, type) == wire[Peer(d)] # <<>> /\ Head(wire[Peer(d)]).type = type
Frame(d) == Head(wire[Peer(d)])
Handled(d) == [wire EXCEPT ![Peer(d)] = Tail(@)]

Settle(d) == channel' = [channel EXCEPT ![d].settled = TRUE]

(* A frame of a folder that is not attached is dropped.                    *)
Drop(d) ==
    /\ wire[Peer(d)] # <<>> /\ ~Attached(d)
    /\ wire' = Handled(d)
    /\ UNCHANGED <<known, paused, up, channel, bulk, assembly, sent, connects, pauses>>

(* Mutant of Answer: a peer that knows less is told to skip its index.     *)
AnswerSubset(d, updates) == IF updates \subseteq known[d] THEN "index-ack" ELSE "index-request"

Answer(d, updates) == IF updates = known[d] THEN "index-ack" ELSE "index-request"

onIndexFingerprint(d) ==
    /\ Attached(d) /\ Arrives(d, "index-fingerprint")
    /\ Settle(d)
    /\ wire' = Put(Handled(d), d, <<Reply(Answer(d, Frame(d).updates))>>)
    /\ UNCHANGED <<known, paused, up, bulk, assembly, sent, connects, pauses>>

onIndexAck(d) ==
    /\ Attached(d) /\ Arrives(d, "index-ack")
    /\ Settle(d)
    /\ wire' = Handled(d)
    /\ UNCHANGED <<known, paused, up, bulk, assembly, sent, connects, pauses>>

onIndexRequest(d) ==
    /\ Attached(d) /\ Arrives(d, "index-request")
    /\ Settle(d)
    /\ sent' = [sent EXCEPT ![d] = {known[d]}]
    /\ SendFull(Handled(d), d)
    /\ UNCHANGED <<known, paused, up, assembly, connects, pauses>>

(* Nobody answered in time: the full index goes out, unless the gate knows *)
(* that this very index was sent to the peer within the window.            *)
Fallback(d) ==
    /\ Attached(d) /\ ~channel[d].settled
    /\ Settle(d)
    /\ \/ /\ SendFull(wire, d)
          /\ sent' = [sent EXCEPT ![d] = {known[d]}]
       \/ /\ known[d] \in sent[d]
          /\ UNCHANGED <<wire, bulk, sent>>
    /\ UNCHANGED <<known, paused, up, assembly, connects, pauses>>

(* Mutant of Plan: a full index is not answered.                           *)
PlanOneWay(d, updates, full) ==
    /\ channel' = [channel EXCEPT ![d].owed = (updates \ known[d]) \cup @]
    /\ wire' = Handled(d)

(* onPeerIndex: what is missing here is owed; a full index also has the    *)
(* receives dropped that it does not mention and is answered with what the *)
(* peer is missing.                                                        *)
Plan(d, updates, full) ==
    /\ channel' = [channel EXCEPT ![d].owed =
                        (updates \ known[d]) \cup IF full THEN {} ELSE @]
    /\ LET back == IF full THEN known[d] \ updates ELSE {}
       IN  wire' = Put(Handled(d), d, IF back = {} THEN <<>> ELSE <<Delta(back)>>)

onPeerIndex(d) ==
    /\ Attached(d)
    /\ \E type \in {"full", "delta"} :
        /\ Arrives(d, type)
        /\ Plan(d, Frame(d).updates, type = "full")
    /\ assembly' = [assembly EXCEPT ![d] = {}]
    /\ UNCHANGED <<known, paused, up, bulk, sent, connects, pauses>>

(* acceptIndexChunk: chunk 0 starts over, a chunk held already is ignored, *)
(* the last one missing hands the index over.                              *)
Assembled(d, chunk) ==
    IF chunk.seq = 1 THEN {chunk}
    ELSE IF \E c \in assembly[d] : c.seq = chunk.seq THEN assembly[d]
    ELSE assembly[d] \cup {chunk}

acceptIndexChunk(d) ==
    /\ Attached(d) /\ Arrives(d, "chunk")
    /\ LET parts == Assembled(d, Frame(d))
       IN  IF {c.seq : c \in parts} = {1, 2}
           THEN /\ assembly' = [assembly EXCEPT ![d] = {}]
                /\ Plan(d, UNION {c.updates : c \in parts}, TRUE)
           ELSE /\ assembly' = [assembly EXCEPT ![d] = parts]
                /\ wire' = Handled(d)
                /\ UNCHANGED channel
    /\ UNCHANGED <<known, paused, up, bulk, sent, connects, pauses>>

(* A receive ends: the peer's channel serves its blocks, or the requests   *)
(* go unanswered until they are given up.                                  *)
Land(d, u) ==
    /\ Attached(d) /\ u \in channel[d].owed /\ Attached(Peer(d))
    /\ known' = [known EXCEPT ![d] = @ \cup {u}]
    /\ channel' = [channel EXCEPT ![d].owed = @ \ {u}]
    /\ UNCHANGED <<paused, up, wire, bulk, assembly, sent, connects, pauses>>

GiveUp(d, u) ==
    /\ Attached(d) /\ u \in channel[d].owed /\ ~Attached(Peer(d))
    /\ channel' = [channel EXCEPT ![d].owed = @ \ {u}]
    /\ UNCHANGED <<known, paused, up, wire, bulk, assembly, sent, connects, pauses>>

Handle(d) ==
    \/ Drop(d) \/ onIndexFingerprint(d) \/ onIndexAck(d) \/ onIndexRequest(d)
    \/ onPeerIndex(d) \/ acceptIndexChunk(d)

Next ==
    \/ Connect \/ Disconnect
    \/ \E d \in Device : \/ Attach(d) \/ Pause(d) \/ Resume(d)
                         \/ Handle(d) \/ SendChunk(d) \/ Fallback(d)
    \/ \E d \in Device, u \in Update : Edit(d, u) \/ Land(d, u) \/ GiveUp(d, u)

(* The event loop of each device runs its sockets and timers; a lost       *)
(* session is dialled again. Users may stop editing and never resume.      *)
Fairness ==
    /\ WF_vars(Connect)
    /\ \A d \in Device :
        /\ WF_vars(Attach(d))
        /\ WF_vars(Handle(d))
        /\ WF_vars(SendChunk(d))
        /\ WF_vars(Fallback(d))
        /\ WF_vars(\E u \in Update : Land(d, u) \/ GiveUp(d, u))

Spec == Init /\ [][Next]_vars /\ Fairness
----------------------------------------------------------------------------
(* Properties.                                                             *)

Channel == [settled : BOOLEAN, owed : SUBSET Update]
Bulk == [updates : SUBSET Update, next : 1..2]
Message ==
    [type : {"index-fingerprint", "index-ack", "index-request", "delta", "full"},
     updates : SUBSET Update]
        \cup [type : {"chunk"}, seq : 1..2, updates : SUBSET Update]

(* Types; nothing is attached or on its way without a session.             *)
TypeOK ==
    /\ known \in [Device -> SUBSET Update]
    /\ paused \in [Device -> BOOLEAN]
    /\ up \in BOOLEAN
    /\ channel \in [Device -> Channel \cup {NoChannel}]
    /\ wire \in [Device -> Seq(Message)]
    /\ bulk \in [Device -> SUBSET Bulk]
    /\ assembly \in [Device -> SUBSET Message]
    /\ sent \in [Device -> SUBSET SUBSET Update]
    /\ connects \in 0..MaxConnects /\ pauses \in 0..MaxPauses
    /\ \A d \in Device : ~up => ~Attached(d) /\ wire[d] = <<>> /\ bulk[d] = {}
    /\ \A d \in Device : paused[d] => ~Attached(d)

Sent(d, type) == {m \in Range(wire[d]) : m.type = type}

(* What will make d, attached to an attached peer, ask for update u of its *)
(* peer or be sent it.                                                     *)
Coming(d, u) ==
    LET e == Peer(d)
    IN  \/ u \in channel[d].owed
        \/ \E m \in Sent(e, "delta") \cup Sent(e, "full") : u \in m.updates
        \/ \E m \in Sent(e, "index-fingerprint") : u \in m.updates
        \/ \E m \in Sent(d, "index-fingerprint") \cup Sent(d, "full") : u \notin m.updates
        \/ \E b \in bulk[e] \cup Sent(e, "chunk") \cup assembly[d] : u \in b.updates
        \/ \E b \in bulk[d] : u \notin b.updates
        \/ Sent(d, "chunk") # {} \/ assembly[e] # {}
        \/ Sent(d, "index-request") # {} \/ Sent(e, "index-request") # {}

(* An index is only ever skipped when nothing is missing, and nobody waits *)
(* for a message that nobody is going to send: while both sides are        *)
(* attached, whatever one of them lacks is on its way, or a message is     *)
(* that will fetch it (index-fingerprint.ts, peer.ts: fingerprint, answer  *)
(* and fallback are equivalent to always sending the full index).          *)
NothingForgotten ==
    Joined => \A d \in Device : \A u \in known[Peer(d)] \ known[d] : Coming(d, u)

(* Whatever was edited while they were apart, two devices that stay        *)
(* attached end up with the same index and stop talking.                   *)
Converges ==
    <>[](Joined => known[Left] = known[Right] /\ \A d \in Device : wire[d] = <<>>)

=============================================================================
