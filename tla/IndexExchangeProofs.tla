------------------------ MODULE IndexExchangeProofs ------------------------
(***************************************************************************)
(* Proofs about IndexExchange for any updates, authors and bounds: its     *)
(* types and, when every index fits in one frame, NothingForgotten.        *)
(***************************************************************************)
EXTENDS IndexExchange, TLAPS

----------------------------------------------------------------------------
(* Facts about devices and frames.                                         *)

LEMMA PeerFacts ==
    ASSUME NEW d \in Device
    PROVE  Peer(d) \in Device /\ Peer(d) # d /\ Peer(Peer(d)) = d /\ Device = {d, Peer(d)}
  BY DeviceAssumption DEF Device, Peer

LEMMA FrameTypes ==
    ASSUME NEW S \in SUBSET Update
    PROVE  /\ Fingerprint(S) \in Message /\ Delta(S) \in Message /\ Full(S) \in Message
           /\ Chunk(S, 1) \in Message /\ Chunk(S, 2) \in Message
           /\ \A T \in SUBSET Update : Reply(Answer(Left, T)) \in Message
                                    /\ Reply(Answer(Right, T)) \in Message
  BY DEF Fingerprint, Delta, Full, Chunk, Reply, Answer, Message

(* The frames of a queue after its first one is handled or one more sent.  *)
LEMMA TailFrames ==
    ASSUME NEW q \in Seq(Message), q # <<>>
    PROVE  /\ Head(q) \in Message /\ Tail(q) \in Seq(Message)
           /\ Head(q) = q[1] /\ 1 \in DOMAIN q
           /\ \A i \in DOMAIN Tail(q) : i + 1 \in DOMAIN q /\ Tail(q)[i] = q[i + 1]
           /\ Range(q) = {Head(q)} \cup Range(Tail(q))
  <1>1. /\ Head(q) \in Message /\ Tail(q) \in Seq(Message)
        /\ Head(q) = q[1] /\ 1 \in DOMAIN q
        /\ DOMAIN q = 1..Len(q) /\ DOMAIN Tail(q) = 1..Len(q) - 1 /\ Len(q) \in Nat
        /\ \A i \in DOMAIN Tail(q) : Tail(q)[i] = q[i + 1]
    OBVIOUS
  <1>2. \A i \in DOMAIN Tail(q) : i + 1 \in DOMAIN q
    BY <1>1
  <1>3. \A i \in DOMAIN q : i = 1 \/ (i - 1 \in DOMAIN Tail(q) /\ (i - 1) + 1 = i)
    BY <1>1
  <1> QED  BY <1>1, <1>2, <1>3 DEF Range

LEMMA AppendedFrames ==
    ASSUME NEW q \in Seq(Message), NEW m \in Message
    PROVE  /\ q \o <<m>> = Append(q, m) /\ q \o <<>> = q
           /\ Append(q, m) \in Seq(Message)
           /\ Range(Append(q, m)) = Range(q) \cup {m}
           /\ DOMAIN Append(q, m) = 1..Len(q) + 1 /\ Len(q) \in Nat /\ DOMAIN q = 1..Len(q)
           /\ Append(q, m)[Len(q) + 1] = m
           /\ \A i \in DOMAIN q : Append(q, m)[i] = q[i]
  <1>1. /\ q \o <<m>> = Append(q, m) /\ q \o <<>> = q
        /\ Append(q, m) \in Seq(Message)
        /\ DOMAIN Append(q, m) = 1..Len(q) + 1 /\ Len(q) \in Nat /\ DOMAIN q = 1..Len(q)
        /\ Append(q, m)[Len(q) + 1] = m
        /\ \A i \in DOMAIN q : Append(q, m)[i] = q[i]
    OBVIOUS
  <1>2. \A i \in DOMAIN Append(q, m) : i \in DOMAIN q \/ i = Len(q) + 1
    BY <1>1
  <1>3. Range(Append(q, m)) = Range(q) \cup {m}
    BY <1>1, <1>2 DEF Range
  <1> QED  BY <1>1, <1>3

(* Frames sent after some base. *)
LEMMA PutFacts ==
    ASSUME NEW base \in [Device -> Seq(Message)], NEW d \in Device, NEW m \in Message
    PROVE  /\ Put(base, d, <<m>>)[d] = Append(base[d], m)
           /\ \A x \in Device \ {d} : Put(base, d, <<m>>)[x] = base[x]
           /\ Put(base, d, <<>>) = base
           /\ Put(base, d, <<m>>) \in [Device -> Seq(Message)]
  <1>1. base[d] \in Seq(Message)
    OBVIOUS
  <1>2. base[d] \o <<m>> = Append(base[d], m) /\ base[d] \o <<>> = base[d]
        /\ Append(base[d], m) \in Seq(Message)
    BY <1>1, AppendedFrames
  <1>3. Put(base, d, <<m>>) = [base EXCEPT ![d] = Append(base[d], m)]
    BY <1>2 DEF Put
  <1>4. Put(base, d, <<>>) = [base EXCEPT ![d] = base[d]]
    BY <1>2 DEF Put
  <1>5. [base EXCEPT ![d] = base[d]] = base
    OBVIOUS
  <1>6. [base EXCEPT ![d] = Append(base[d], m)] \in [Device -> Seq(Message)]
    BY <1>2
  <1>7. Put(base, d, <<m>>)[d] = Append(base[d], m)
        /\ \A x \in Device \ {d} : Put(base, d, <<m>>)[x] = base[x]
    BY <1>3
  <1> QED  BY <1>3, <1>4, <1>5, <1>6, <1>7

LEMMA HandledFacts ==
    ASSUME TypeOK, NEW d \in Device, wire[Peer(d)] # <<>>
    PROVE  /\ Handled(d) \in [Device -> Seq(Message)]
           /\ Handled(d)[d] = wire[d] /\ Handled(d)[Peer(d)] = Tail(wire[Peer(d)])
           /\ Frame(d) \in Message
  BY PeerFacts, TailFrames DEF TypeOK, Handled, Frame

LEMMA HandledPut ==
    ASSUME TypeOK, NEW d \in Device, wire[Peer(d)] # <<>>, NEW m \in Message
    PROVE  /\ Put(Handled(d), d, <<m>>)[d] = Append(wire[d], m)
           /\ Put(Handled(d), d, <<m>>)[Peer(d)] = Tail(wire[Peer(d)])
           /\ Range(Put(Handled(d), d, <<m>>)[d]) = Range(wire[d]) \cup {m}
  <1> DEFINE base == Handled(d)
  <1>1. base[d] = wire[d] /\ base[Peer(d)] = Tail(wire[Peer(d)])
    BY HandledFacts
  <1>a. base \in [Device -> Seq(Message)]
    BY HandledFacts
  <1>2. wire[d] \in Seq(Message) /\ Peer(d) \in Device \ {d}
    BY PeerFacts DEF TypeOK
  <1> HIDE DEF base
  <1>3. Put(base, d, <<m>>)[d] = Append(base[d], m)
        /\ \A x \in Device \ {d} : Put(base, d, <<m>>)[x] = base[x]
    BY ONLY <1>a, d \in Device, m \in Message, PutFacts
  <1>4. Put(base, d, <<m>>)[d] = Append(wire[d], m)
        /\ Put(base, d, <<m>>)[Peer(d)] = Tail(wire[Peer(d)])
    BY <1>1, <1>2, <1>3
  <1>5. Range(Put(base, d, <<m>>)[d]) = Range(wire[d]) \cup {m}
    <2>1. Range(Append(wire[d], m)) = Range(wire[d]) \cup {m}
      BY <1>2, AppendedFrames
    <2> QED  BY <1>4, <2>1
  <1> QED  BY <1>4, <1>5 DEF base

----------------------------------------------------------------------------
(* Types.                                                                  *)

LEMMA NoFrames ==
    /\ <<>> \in Seq(Message)
    /\ [d \in Device |-> <<>>] \in [Device -> Seq(Message)]
  <1>1. <<>> \in Seq(Message)
    OBVIOUS
  <1> QED  BY <1>1

LEMMA TypeInit == Init => TypeOK
  <1> SUFFICES ASSUME Init  PROVE TypeOK
    OBVIOUS
  <1>1. wire \in [Device -> Seq(Message)]
    BY NoFrames DEF Init
  <1>2. /\ known \in [Device -> SUBSET Update] /\ paused \in [Device -> BOOLEAN]
        /\ channel \in [Device -> Channel \cup {NoChannel}]
        /\ bulk \in [Device -> SUBSET Bulk]
        /\ assembly \in [Device -> SUBSET Message] /\ sent \in [Device -> SUBSET SUBSET Update]
        /\ connects \in 0..MaxConnects /\ pauses \in 0..MaxPauses
    BY BoundAssumption DEF Init
  <1> QED  BY <1>1, <1>2 DEF Init, TypeOK, Attached

LEMMA BulkFacts ==
    ASSUME NEW b \in Bulk
    PROVE  /\ [b EXCEPT !.next = 2] \in Bulk
           /\ b.updates \in SUBSET Update /\ (b.next = 1 \/ b.next = 2)
  <1>1. PICK S \in SUBSET Update, n \in 1..2 : b = [updates |-> S, next |-> n]
    BY DEF Bulk
  <1>2. [b EXCEPT !.next = 2] = [updates |-> S, next |-> 2]
    BY <1>1
  <1> QED  BY <1>1, <1>2 DEF Bulk

LEMMA SendFullType ==
    ASSUME TypeOK, NEW d \in Device, NEW rest \in [Device -> Seq(Message)],
           SendFull(rest, d)
    PROVE  /\ wire' \in [Device -> Seq(Message)]
           /\ bulk' \in [Device -> SUBSET Bulk]
  <1>1. known[d] \in SUBSET Update
    BY DEF TypeOK
  <1>2. Full(known[d]) \in Message
    BY <1>1, FrameTypes
  <1>3. Put(rest, d, <<Full(known[d])>>) \in [Device -> Seq(Message)]
    BY <1>2, PutFacts
  <1>4. [updates |-> known[d], next |-> 1] \in Bulk
    BY <1>1 DEF Bulk
  <1>a. bulk[d] \cup {[updates |-> known[d], next |-> 1]} \in SUBSET Bulk
    BY <1>4 DEF TypeOK
  <1>b. [bulk EXCEPT ![d] = @ \cup {[updates |-> known[d], next |-> 1]}] \in [Device -> SUBSET Bulk]
    BY <1>a DEF TypeOK
  <1>5. CASE known[d] \in Large
    BY <1>b, <1>5 DEF SendFull
  <1>6. CASE known[d] \notin Large
    BY <1>3, <1>6 DEF SendFull, TypeOK
  <1> QED  BY <1>5, <1>6

LEMMA PlanType ==
    ASSUME TypeOK, NEW d \in Device, NEW S \in SUBSET Update, NEW full \in BOOLEAN,
           Attached(d), wire[Peer(d)] # <<>>, Plan(d, S, full)
    PROVE  /\ wire' \in [Device -> Seq(Message)]
           /\ channel' \in [Device -> Channel \cup {NoChannel}]
           /\ \A x \in Device : channel'[x] = NoChannel <=> channel[x] = NoChannel
  <1> DEFINE back == IF full THEN known[d] \ S ELSE {}
             owed == (S \ known[d]) \cup IF full THEN {} ELSE channel[d].owed
  <1>1. back \in SUBSET Update /\ Delta(back) \in Message
    BY FrameTypes DEF TypeOK
  <1>a. Handled(d) \in [Device -> Seq(Message)]
    BY HandledFacts
  <1>b. wire' = Put(Handled(d), d, IF back = {} THEN <<>> ELSE <<Delta(back)>>)
    BY DEF Plan
  <1>c. Put(Handled(d), d, <<>>) \in [Device -> Seq(Message)]
        /\ Put(Handled(d), d, <<Delta(back)>>) \in [Device -> Seq(Message)]
    BY <1>1, <1>a, PutFacts
  <1>2. wire' \in [Device -> Seq(Message)]
    BY <1>b, <1>c
  <1>3. channel[d] \in Channel /\ owed \in SUBSET Update
    BY DEF TypeOK, Attached, Channel
  <1>4. channel' = [channel EXCEPT ![d] = [channel[d] EXCEPT !.owed = owed]]
    BY DEF Plan
  <1>5. [channel[d] EXCEPT !.owed = owed] \in Channel
    BY <1>3 DEF Channel
  <1>6. NoChannel \notin Channel
    BY ChannelAssumption DEF Channel
  <1> QED  BY <1>2, <1>3, <1>4, <1>5, <1>6 DEF TypeOK

LEMMA TypeStep == TypeOK /\ [Next]_vars => TypeOK'
  <1> SUFFICES ASSUME TypeOK, [Next]_vars  PROVE TypeOK'
    OBVIOUS
  <1> USE DEF TypeOK, Attached
  <1>c. NoChannel \notin Channel
    BY ChannelAssumption DEF Channel
  <1>1. CASE Connect
    BY <1>1, BoundAssumption DEF Connect
  <1>2. CASE Disconnect
    BY <1>2, NoFrames DEF Disconnect
  <1>3. ASSUME NEW d \in Device, Attach(d)  PROVE TypeOK'
    <2>1. Fingerprint(known[d]) \in Message
      BY FrameTypes
    <2>2. wire' \in [Device -> Seq(Message)]
      BY <1>3, <2>1, PutFacts DEF Attach
    <2>3. [settled |-> FALSE, owed |-> {}] \in Channel
      BY DEF Channel
    <2> QED  BY <1>3, <2>2, <2>3 DEF Attach
  <1>4. ASSUME NEW d \in Device, Pause(d)  PROVE TypeOK'
    BY <1>4, BoundAssumption DEF Pause
  <1>5. ASSUME NEW d \in Device, Resume(d)  PROVE TypeOK'
    BY <1>5 DEF Resume
  <1>6. ASSUME NEW d \in Device, NEW u \in Update, Edit(d, u)  PROVE TypeOK'
    <2>1. Delta({u}) \in Message
      BY FrameTypes
    <2>2. /\ wire' \in [Device -> Seq(Message)]
          /\ ~Attached(d) => wire' = wire
      BY <1>6, <2>1, PutFacts DEF Edit
    <2>3. ~up => wire' = wire
      BY <2>2
    <2>4. known' \in [Device -> SUBSET Update]
      BY <1>6 DEF Edit
    <2> QED  BY <1>6, <2>2, <2>3, <2>4 DEF Edit
  <1>7. ASSUME NEW d \in Device, SendChunk(d)  PROVE TypeOK'
    <2>1. PICK b \in bulk[d] :
            /\ wire' = Put(wire, d, <<Chunk(b.updates, b.next)>>)
            /\ bulk' = [bulk EXCEPT ![d] = (@ \ {b}) \cup
                            IF b.next = 2 THEN {} ELSE {[b EXCEPT !.next = 2]}]
      BY <1>7 DEF SendChunk
    <2>b. b \in Bulk
      BY <2>1
    <2>2. [b EXCEPT !.next = 2] \in Bulk
      BY <2>b, BulkFacts
    <2>a. b.updates \in SUBSET Update /\ (b.next = 1 \/ b.next = 2)
      BY <2>b, BulkFacts
    <2>3. Chunk(b.updates, b.next) \in Message
      BY <2>a, FrameTypes
    <2>4. wire' \in [Device -> Seq(Message)]
      BY <2>1, <2>3, PutFacts
    <2>5. bulk' \in [Device -> SUBSET Bulk]
      BY <2>1, <2>b, <2>2
    <2>6. up /\ UNCHANGED <<known, paused, up, channel, assembly, sent, connects, pauses>>
      BY <1>7, <2>1 DEF SendChunk
    <2> QED  BY <2>4, <2>5, <2>6
  <1>8. ASSUME NEW d \in Device, Drop(d)  PROVE TypeOK'
    BY <1>8, HandledFacts, PeerFacts DEF Drop
  <1>9. ASSUME NEW d \in Device, Attached(d), Settle(d)
        PROVE  /\ channel' \in [Device -> Channel \cup {NoChannel}]
               /\ \A x \in Device : channel'[x] = NoChannel <=> channel[x] = NoChannel
    <2>a. channel[d] \in Channel
      BY <1>9
    <2>1. [channel[d] EXCEPT !.settled = TRUE] \in Channel
      BY <2>a DEF Channel
    <2> QED  BY <1>9, <2>1, <1>c DEF Settle
  <1>10. ASSUME NEW d \in Device, onIndexFingerprint(d) \/ onIndexAck(d)  PROVE TypeOK'
    <2>1. wire[Peer(d)] # <<>> /\ Attached(d) /\ Settle(d) /\ up
          /\ UNCHANGED <<known, paused, up, bulk, assembly, sent, connects, pauses>>
      BY <1>10 DEF onIndexFingerprint, onIndexAck, Arrives
    <2>2. Reply("index-ack") \in Message /\ Reply("index-request") \in Message
      BY DEF Reply, Message
    <2>3. /\ Handled(d) \in [Device -> Seq(Message)]
          /\ Put(Handled(d), d, <<Reply("index-ack")>>) \in [Device -> Seq(Message)]
          /\ Put(Handled(d), d, <<Reply("index-request")>>) \in [Device -> Seq(Message)]
      BY <2>1, <2>2, HandledFacts, PutFacts
    <2>4. \/ wire' = Handled(d) \/ wire' = Put(Handled(d), d, <<Reply("index-ack")>>)
          \/ wire' = Put(Handled(d), d, <<Reply("index-request")>>)
      BY <1>10 DEF onIndexFingerprint, onIndexAck, Answer
    <2> QED  BY <2>1, <2>3, <2>4, <1>9
  <1>11. ASSUME NEW d \in Device, onIndexRequest(d)  PROVE TypeOK'
    <2>1. wire[Peer(d)] # <<>> /\ Attached(d) /\ Settle(d) /\ up
      BY <1>11 DEF onIndexRequest, Arrives
    <2>2. wire' \in [Device -> Seq(Message)] /\ bulk' \in [Device -> SUBSET Bulk]
      BY <1>11, <2>1, HandledFacts, SendFullType DEF onIndexRequest
    <2>3. sent' \in [Device -> SUBSET SUBSET Update]
      BY <1>11 DEF onIndexRequest
    <2> QED  BY <1>11, <1>9, <2>1, <2>2, <2>3 DEF onIndexRequest
  <1>12. ASSUME NEW d \in Device, Fallback(d)  PROVE TypeOK'
    <2>1. Attached(d) /\ Settle(d) /\ up
      BY <1>12 DEF Fallback
    <2>2. wire' \in [Device -> Seq(Message)] /\ bulk' \in [Device -> SUBSET Bulk]
      BY <1>12, SendFullType DEF Fallback
    <2>3. sent' = sent \/ sent' = [sent EXCEPT ![d] = {known[d]}]
      BY <1>12 DEF Fallback
    <2>4. {known[d]} \in SUBSET SUBSET Update
      OBVIOUS
    <2>5. sent' \in [Device -> SUBSET SUBSET Update]
      BY <2>3, <2>4
    <2> QED  BY <1>12, <1>9, <2>1, <2>2, <2>5 DEF Fallback
  <1>13. ASSUME NEW d \in Device, onPeerIndex(d)  PROVE TypeOK'
    <2>1. wire[Peer(d)] # <<>> /\ Attached(d) /\ up
      BY <1>13 DEF onPeerIndex, Arrives
    <2>2. Frame(d).updates \in SUBSET Update
      BY <2>1, HandledFacts DEF Message
    <2>3. \E full \in BOOLEAN : Plan(d, Frame(d).updates, full)
      BY <1>13 DEF onPeerIndex
    <2>4. /\ wire' \in [Device -> Seq(Message)]
          /\ channel' \in [Device -> Channel \cup {NoChannel}]
          /\ \A x \in Device : channel'[x] = NoChannel <=> channel[x] = NoChannel
      BY <2>1, <2>2, <2>3, PlanType
    <2> QED  BY <1>13, <2>1, <2>4 DEF onPeerIndex
  <1>14. ASSUME NEW d \in Device, acceptIndexChunk(d)  PROVE TypeOK'
    <2> DEFINE parts == Assembled(d, Frame(d))
    <2>1. wire[Peer(d)] # <<>> /\ Attached(d) /\ up
      BY <1>14 DEF acceptIndexChunk, Arrives
    <2>2. Frame(d) \in Message /\ Handled(d) \in [Device -> Seq(Message)]
      BY <2>1, HandledFacts
    <2>3. parts \in SUBSET Message
      BY <2>2 DEF Assembled
    <2>4. UNION {c.updates : c \in parts} \in SUBSET Update
      BY <2>3 DEF Message
    <2>5. CASE Plan(d, UNION {c.updates : c \in parts}, TRUE)
      BY <1>14, <2>1, <2>4, <2>5, PlanType, <2>3 DEF acceptIndexChunk
    <2>6. CASE wire' = Handled(d) /\ UNCHANGED channel
      BY <1>14, <2>1, <2>2, <2>3, <2>6 DEF acceptIndexChunk
    <2> QED  BY <1>14, <2>5, <2>6 DEF acceptIndexChunk
  <1>15. ASSUME NEW d \in Device, NEW u \in Update, Land(d, u) \/ GiveUp(d, u)
         PROVE  TypeOK'
    <2>1. Attached(d) /\ up
      BY <1>15 DEF Land, GiveUp
    <2>a. channel[d] \in Channel
      BY <2>1
    <2>2. [channel[d] EXCEPT !.owed = @ \ {u}] \in Channel
      BY <2>a DEF Channel
    <2>3. channel' = [channel EXCEPT ![d] = [channel[d] EXCEPT !.owed = @ \ {u}]]
      BY <1>15 DEF Land, GiveUp
    <2>4. /\ channel' \in [Device -> Channel \cup {NoChannel}]
          /\ \A x \in Device : channel'[x] = NoChannel <=> channel[x] = NoChannel
      BY <2>1, <2>2, <2>3, <1>c
    <2>5. known' \in [Device -> SUBSET Update]
      <3>1. CASE Land(d, u)
        BY <3>1 DEF Land
      <3>2. CASE GiveUp(d, u)
        BY <3>2 DEF GiveUp
      <3> QED  BY <1>15, <3>1, <3>2
    <2> QED  BY <1>15, <2>1, <2>4, <2>5 DEF Land, GiveUp
  <1>16. CASE UNCHANGED vars
    BY <1>16 DEF vars
  <1> QED
    BY <1>1, <1>2, <1>3, <1>4, <1>5, <1>6, <1>7, <1>8, <1>10, <1>11, <1>12, <1>13,
       <1>14, <1>15, <1>16 DEF Next, Handle

(* Every variable keeps its type, and a lost session leaves nothing behind *)
(* (session-manager.ts, detachFolderFromSession).                          *)
THEOREM TypeCorrect == Spec => []TypeOK
  BY TypeInit, TypeStep, PTL DEF Spec
----------------------------------------------------------------------------
(* What makes NothingForgotten inductive when no index is cut into chunks. *)

(* Only the updates its sender had are in a frame, and a full index covers *)
(* every index sent before it.                                             *)
Truthful(q, S) == \A m \in Range(q) : m.type # "chunk" /\ m.updates \subseteq S

Grown(q) ==
    \A i, j \in DOMAIN q :
        i < j /\ q[i].type \in {"delta", "full"} /\ q[j].type = "full"
            => q[i].updates \subseteq q[j].updates

Covers(q, S) == \A m \in Range(q) : m.type = "full" => S \subseteq m.updates

FramesInv == \A d \in Device : Truthful(wire[d], known[d]) /\ Grown(wire[d])

WholeInv == \A d \in Device : bulk[d] = {} /\ assembly[d] = {}

(* What a device still receives, its peer has, and no full index on its    *)
(* way would have it dropped.                                              *)
OwedInv ==
    \A d \in Device : Attached(d) =>
        channel[d].owed \subseteq known[Peer(d)] /\ Covers(wire[Peer(d)], channel[d].owed)

IInv == TypeOK /\ FramesInv /\ WholeInv /\ OwedInv /\ NothingForgotten

LEMMA TailKeeps ==
    ASSUME NEW q \in Seq(Message), q # <<>>, NEW S, Truthful(q, S), Grown(q)
    PROVE  /\ Truthful(Tail(q), S) /\ Grown(Tail(q))
           /\ Head(q).type # "chunk" /\ Head(q).updates \subseteq S
           /\ Head(q).type \in {"delta", "full"} => Covers(Tail(q), Head(q).updates)
  <1>1. Truthful(Tail(q), S) /\ Head(q).type # "chunk" /\ Head(q).updates \subseteq S
    BY TailFrames DEF Truthful
  <1>2. \A i \in DOMAIN Tail(q) : i \in Nat /\ i \geq 1 /\ i + 1 \in DOMAIN q /\ Tail(q)[i] = q[i + 1]
    BY TailFrames
  <1>3. Grown(Tail(q))
    <2> SUFFICES ASSUME NEW i \in DOMAIN Tail(q), NEW j \in DOMAIN Tail(q), i < j,
                        Tail(q)[i].type \in {"delta", "full"}, Tail(q)[j].type = "full"
                 PROVE  Tail(q)[i].updates \subseteq Tail(q)[j].updates
      BY DEF Grown
    <2>1. i + 1 < j + 1 /\ i + 1 \in DOMAIN q /\ j + 1 \in DOMAIN q
      BY <1>2
    <2> QED  BY <2>1, <1>2 DEF Grown
  <1>4. ASSUME Head(q).type \in {"delta", "full"}  PROVE Covers(Tail(q), Head(q).updates)
    <2> SUFFICES ASSUME NEW j \in DOMAIN Tail(q), Tail(q)[j].type = "full"
                 PROVE  Head(q).updates \subseteq Tail(q)[j].updates
      BY DEF Covers, Range
    <2>1. 1 < j + 1 /\ 1 \in DOMAIN q /\ Head(q) = q[1]
      BY <1>2, TailFrames
    <2> QED  BY <2>1, <1>2, <1>4 DEF Grown
  <1> QED  BY <1>1, <1>3, <1>4

LEMMA AppendKeeps ==
    ASSUME NEW q \in Seq(Message), NEW S, Truthful(q, S), Grown(q), NEW m \in Message,
           m.type # "chunk", m.updates \subseteq S, m.type = "full" => m.updates = S
    PROVE  Truthful(Append(q, m), S) /\ Grown(Append(q, m))
  <1>1. Truthful(Append(q, m), S)
    BY AppendedFrames DEF Truthful
  <1>2. Grown(Append(q, m))
    <2> DEFINE r == Append(q, m)
    <2> SUFFICES ASSUME NEW i \in DOMAIN r, NEW j \in DOMAIN r, i < j,
                        r[i].type \in {"delta", "full"}, r[j].type = "full"
                 PROVE  r[i].updates \subseteq r[j].updates
      BY DEF Grown
    <2>1. i \in DOMAIN q /\ r[i] = q[i] /\ q[i] \in Range(q)
      BY AppendedFrames DEF Range
    <2>2. CASE j \in DOMAIN q
      BY <2>1, <2>2, AppendedFrames DEF Grown
    <2>3. CASE j \notin DOMAIN q
      <3>1. r[j] = m
        BY <2>3, AppendedFrames
      <3> QED  BY <2>1, <3>1 DEF Truthful
    <2> QED  BY <2>2, <2>3
  <1> QED  BY <1>1, <1>2

(* Coming, said of the frames and the receives themselves.                 *)
Bringing(u, owed, fromPeer, toPeer) ==
    \/ u \in owed
    \/ \E m \in fromPeer : m.type \in {"index-fingerprint", "delta", "full"} /\ u \in m.updates
    \/ \E m \in toPeer : m.type \in {"index-fingerprint", "full"} /\ u \notin m.updates
    \/ \E m \in fromPeer \cup toPeer : m.type = "index-request"

LEMMA ComingIsBringing ==
    ASSUME WholeInv, FramesInv, NEW d \in Device, NEW u
    PROVE  Coming(d, u) <=>
              Bringing(u, channel[d].owed, Range(wire[Peer(d)]), Range(wire[d]))
  <1>1. /\ bulk[d] = {} /\ bulk[Peer(d)] = {} /\ assembly[d] = {} /\ assembly[Peer(d)] = {}
        /\ Sent(d, "chunk") = {} /\ Sent(Peer(d), "chunk") = {}
    BY PeerFacts DEF WholeInv, FramesInv, Truthful, Sent
  <1> QED  BY <1>1 DEF Coming, Bringing, Sent

LEMMA BringingGrows ==
    ASSUME NEW u, NEW O, NEW O2, NEW W, NEW W2, NEW V, NEW V2,
           Bringing(u, O, W, V), O \subseteq O2, W \subseteq W2, V \subseteq V2
    PROVE  Bringing(u, O2, W2, V2)
  BY DEF Bringing

(* NothingForgotten holds after a step that leaves WholeInv and FramesInv  *)
(* if every missing update is brought.                                     *)
LEMMA ForgottenByFrames ==
    ASSUME WholeInv', FramesInv',
           Joined' => \A d \in Device : \A u \in known'[Peer(d)] \ known'[d] :
              Bringing(u, channel'[d].owed, Range(wire'[Peer(d)]), Range(wire'[d]))
    PROVE  NothingForgotten'
  <1>1. \A d \in Device : \A u : Coming(d, u)' <=>
            Bringing(u, channel'[d].owed, Range(wire'[Peer(d)]), Range(wire'[d]))
    <2> SUFFICES ASSUME NEW d \in Device, NEW u
                 PROVE  Coming(d, u)' <=>
                   Bringing(u, channel'[d].owed, Range(wire'[Peer(d)]), Range(wire'[d]))
      OBVIOUS
    <2>1. /\ bulk'[d] = {} /\ bulk'[Peer(d)] = {} /\ assembly'[d] = {} /\ assembly'[Peer(d)] = {}
          /\ Sent(d, "chunk")' = {} /\ Sent(Peer(d), "chunk")' = {}
      BY PeerFacts DEF WholeInv, FramesInv, Truthful, Sent
    <2> QED  BY <2>1 DEF Coming, Bringing, Sent
  <1> QED  BY <1>1 DEF NothingForgotten

LEMMA Brought ==
    ASSUME IInv, Joined, NEW d \in Device, NEW u \in known[Peer(d)] \ known[d]
    PROVE  Bringing(u, channel[d].owed, Range(wire[Peer(d)]), Range(wire[d]))
  BY ComingIsBringing DEF IInv, NothingForgotten

----------------------------------------------------------------------------
(* Every step keeps IInv when no index is too large for one frame.         *)

LEMMA IInit == Init => IInv
  <1> SUFFICES ASSUME Init  PROVE IInv
    OBVIOUS
  <1>1. TypeOK
    BY TypeInit
  <1>2. \A d \in Device : wire[d] = <<>> /\ Range(wire[d]) = {} /\ DOMAIN wire[d] = {}
    BY DEF Init, Range
  <1>3. FramesInv
    BY <1>2 DEF FramesInv, Truthful, Grown
  <1>4. Device # {} /\ \A d \in Device : ~Attached(d) /\ bulk[d] = {} /\ assembly[d] = {}
    BY DEF Init, Attached, Device
  <1>5. ~Joined
    BY <1>4 DEF Joined, Device
  <1> QED  BY <1>1, <1>3, <1>4, <1>5 DEF IInv, WholeInv, OwedInv, NothingForgotten

(* The queues after d has sent one frame m, or none.                       *)
LEMMA SendKeeps ==
    ASSUME IInv, NEW d \in Device, NEW m \in Message, m.type # "chunk",
           m.updates \subseteq known'[d], m.type = "full" => m.updates = known'[d],
           \A x \in Device : known[x] \subseteq known'[x],
           wire' = wire \/ wire' = Put(wire, d, <<m>>)
    PROVE  /\ FramesInv'
           /\ \A x \in Device : Range(wire[x]) \subseteq Range(wire'[x])
           /\ \A x \in Device \ {d} : wire'[x] = wire[x]
           /\ Range(wire'[d]) \subseteq Range(wire[d]) \cup {m}
           /\ wire' # wire => Range(wire'[d]) = Range(wire[d]) \cup {m}
  <1>1. wire \in [Device -> Seq(Message)]
    BY DEF IInv, TypeOK
  <1>2. \A x \in Device : Truthful(wire[x], known'[x]) /\ Grown(wire[x])
    BY DEF IInv, FramesInv, Truthful
  <1>3. CASE wire' = wire
    BY <1>2, <1>3 DEF FramesInv
  <1>4. CASE wire' = Put(wire, d, <<m>>)
    <2>1. wire[d] \in Seq(Message)
      BY <1>1
    <2>2. /\ wire'[d] = Append(wire[d], m)
          /\ \A x \in Device \ {d} : wire'[x] = wire[x]
      BY <1>1, <1>4, PutFacts
    <2>3. Truthful(wire'[d], known'[d]) /\ Grown(wire'[d])
      BY <1>2, <2>1, <2>2, AppendKeeps
    <2>4. Range(wire'[d]) = Range(wire[d]) \cup {m}
      BY <2>1, <2>2, AppendedFrames
    <2> QED  BY <1>2, <2>2, <2>3, <2>4 DEF FramesInv
  <1> QED  BY <1>3, <1>4

(* The queues after d has handled the first frame and sent m, or nothing.  *)
LEMMA HandleKeeps ==
    ASSUME IInv, NEW d \in Device, wire[Peer(d)] # <<>>, NEW m \in Message,
           m.type # "chunk", m.updates \subseteq known[d], m.type = "full" => m.updates = known[d],
           known' = known, wire' = Handled(d) \/ wire' = Put(Handled(d), d, <<m>>)
    PROVE  /\ FramesInv'
           /\ wire'[Peer(d)] = Tail(wire[Peer(d)])
           /\ Range(wire[Peer(d)]) = {Frame(d)} \cup Range(wire'[Peer(d)])
           /\ Range(wire[d]) \subseteq Range(wire'[d])
           /\ Range(wire'[d]) \subseteq Range(wire[d]) \cup {m}
           /\ wire' = Put(Handled(d), d, <<m>>) => Range(wire'[d]) = Range(wire[d]) \cup {m}
           /\ Frame(d) \in Message /\ Frame(d).type # "chunk"
           /\ Frame(d).updates \subseteq known[Peer(d)]
           /\ Frame(d).type \in {"delta", "full"} => Covers(wire'[Peer(d)], Frame(d).updates)
  <1> DEFINE e == Peer(d)
  <1>1. /\ Handled(d) \in [Device -> Seq(Message)]
        /\ Handled(d)[d] = wire[d] /\ Handled(d)[e] = Tail(wire[e]) /\ Frame(d) \in Message
        /\ wire[d] \in Seq(Message) /\ wire[e] \in Seq(Message) /\ e \in Device
        /\ e # d /\ Device = {d, e}
    BY HandledFacts, PeerFacts DEF IInv, TypeOK
  <1>2. /\ Truthful(wire[d], known[d]) /\ Grown(wire[d])
        /\ Truthful(wire[e], known[e]) /\ Grown(wire[e])
    BY <1>1 DEF IInv, FramesInv
  <1>3. /\ Truthful(Tail(wire[e]), known[e]) /\ Grown(Tail(wire[e]))
        /\ Frame(d).type # "chunk" /\ Frame(d).updates \subseteq known[e]
        /\ Frame(d).type \in {"delta", "full"} => Covers(Tail(wire[e]), Frame(d).updates)
    BY <1>1, <1>2, TailKeeps DEF Frame
  <1>4. Range(wire[e]) = {Frame(d)} \cup Range(Tail(wire[e]))
    BY <1>1, TailFrames DEF Frame
  <1>a. /\ Put(Handled(d), d, <<m>>)[d] = Append(wire[d], m)
        /\ Put(Handled(d), d, <<m>>)[e] = Tail(wire[e])
        /\ Range(Put(Handled(d), d, <<m>>)[d]) = Range(wire[d]) \cup {m}
    BY HandledPut DEF IInv
  <1>5. CASE wire' = Handled(d)
    <2>1. wire'[d] = wire[d] /\ wire'[e] = Tail(wire[e])
      BY <1>1, <1>5
    <2>2. Truthful(wire'[d], known'[d]) /\ Grown(wire'[d])
          /\ Truthful(wire'[e], known'[e]) /\ Grown(wire'[e])
      BY <1>2, <1>3, <2>1
    <2>3. FramesInv'
      BY <1>1, <2>2 DEF FramesInv
    <2>4. wire' = Put(Handled(d), d, <<m>>) => Range(wire'[d]) = Range(wire[d]) \cup {m}
      BY <1>a
    <2> QED  BY <1>1, <1>3, <1>4, <2>1, <2>3, <2>4
  <1>6. CASE wire' = Put(Handled(d), d, <<m>>)
    <2>2. wire'[d] = Append(wire[d], m) /\ wire'[e] = Tail(wire[e])
      BY <1>a, <1>6
    <2>3. Truthful(wire'[d], known[d]) /\ Grown(wire'[d])
      <3>1. Truthful(Append(wire[d], m), known[d]) /\ Grown(Append(wire[d], m))
        BY <1>1, <1>2, AppendKeeps
      <3> QED  BY <2>2, <3>1
    <2>4. Range(wire'[d]) = Range(wire[d]) \cup {m}
      BY <1>a, <1>6
    <2>5. Truthful(wire'[e], known'[e]) /\ Grown(wire'[e]) /\ known'[d] = known[d]
      BY <1>3, <2>2
    <2>6. FramesInv'
      BY <1>1, <2>3, <2>5 DEF FramesInv
    <2> QED  BY <1>1, <1>3, <1>4, <2>2, <2>4, <2>6
  <1> QED  BY <1>5, <1>6

----------------------------------------------------------------------------
(* The channel of d settles; nothing is owed more or less.                 *)
LEMMA SettleFacts ==
    ASSUME TypeOK, NEW d \in Device, Attached(d), Settle(d)
    PROVE  \A x \in Device : /\ Attached(x)' <=> Attached(x)
                             /\ Attached(x) => channel'[x].owed = channel[x].owed
  <1>1. channel[d] \in Channel /\ NoChannel \notin Channel
    BY ChannelAssumption DEF TypeOK, Attached, Channel
  <1>2. [channel[d] EXCEPT !.settled = TRUE] \in Channel
        /\ [channel[d] EXCEPT !.settled = TRUE].owed = channel[d].owed
    BY <1>1 DEF Channel
  <1>3. channel' = [channel EXCEPT ![d] = [channel[d] EXCEPT !.settled = TRUE]]
    BY DEF Settle
  <1> QED  BY <1>1, <1>2, <1>3 DEF TypeOK, Attached

LEMMA AttachKeeps ==
    ASSUME IInv, TypeOK', NEW d \in Device, Attach(d)
    PROVE  IInv'
  <1> DEFINE e == Peer(d)
             m == Fingerprint(known[d])
  <1>1. m \in Message /\ m.type = "index-fingerprint" /\ m.updates = known[d]
    BY FrameTypes DEF IInv, TypeOK, Fingerprint
  <1>2. known' = known /\ bulk' = bulk /\ assembly' = assembly
        /\ wire' = Put(wire, d, <<m>>)
        /\ channel' = [channel EXCEPT ![d] = [settled |-> FALSE, owed |-> {}]]
    BY DEF Attach
  <1>3. /\ FramesInv'
        /\ \A x \in Device : Range(wire[x]) \subseteq Range(wire'[x])
        /\ wire'[e] = wire[e]
        /\ Range(wire'[d]) \subseteq Range(wire[d]) \cup {m}
        /\ m \in Range(wire'[d])
    <2>1. wire' # wire => Range(wire'[d]) = Range(wire[d]) \cup {m}
      BY <1>1, <1>2, SendKeeps
    <2>2. wire' # wire
      <3>1. wire[d] \in Seq(Message) /\ wire \in [Device -> Seq(Message)]
        BY DEF IInv, TypeOK
      <3>2. wire'[d] = Append(wire[d], m)
        BY <3>1, <1>1, <1>2, PutFacts
      <3> QED  BY <3>1, <3>2, <1>1, AppendedFrames
    <2> QED  BY <1>1, <1>2, <2>1, <2>2, SendKeeps, PeerFacts
  <1>4. channel'[d].owed = {} /\ channel'[e] = channel[e]
    BY <1>2, PeerFacts DEF IInv, TypeOK
  <1>5. WholeInv'
    BY <1>2 DEF IInv, WholeInv
  <1>6. OwedInv'
    <2>1. Covers(wire'[e], {})
      BY DEF Covers
    <2>2. Attached(e) => channel[e].owed \subseteq known[d] /\ Covers(wire[d], channel[e].owed)
      BY PeerFacts DEF IInv, OwedInv
    <2>3. Attached(e) => Covers(wire'[d], channel[e].owed)
      BY <2>2, <1>1, <1>3 DEF Covers
    <2> QED  BY <1>2, <1>4, <2>1, <2>2, <2>3, PeerFacts DEF OwedInv, Attached
  <1>7. ASSUME NEW u \in known[e] \ known[d]
        PROVE  Bringing(u, channel'[d].owed, Range(wire'[e]), Range(wire'[d]))
    BY <1>1, <1>3 DEF Bringing
  <1>8. ASSUME NEW u \in known[d] \ known[e]
        PROVE  Bringing(u, channel'[e].owed, Range(wire'[d]), Range(wire'[e]))
    BY <1>1, <1>3 DEF Bringing
  <1>9. NothingForgotten'
    BY <1>2, <1>3, <1>5, <1>7, <1>8, ForgottenByFrames, PeerFacts
  <1> QED  BY <1>3, <1>5, <1>6, <1>9 DEF IInv

LEMMA EditKeeps ==
    ASSUME IInv, TypeOK', NEW d \in Device, NEW v \in Update, Edit(d, v)
    PROVE  IInv'
  <1> DEFINE e == Peer(d)
             m == Delta({v})
  <1>1. m \in Message /\ m.type = "delta" /\ m.updates = {v}
    BY FrameTypes DEF Delta
  <1>2. bulk' = bulk /\ assembly' = assembly /\ channel' = channel
        /\ known' = [known EXCEPT ![d] = known[d] \cup {v}]
        /\ wire' = Put(wire, d, IF Attached(d) THEN <<m>> ELSE <<>>)
    BY DEF Edit
  <1>3. /\ known'[d] = known[d] \cup {v} /\ known'[e] = known[e]
        /\ \A x \in Device : known[x] \subseteq known'[x]
    BY <1>2, PeerFacts DEF IInv, TypeOK
  <1>4. wire \in [Device -> Seq(Message)]
    BY DEF IInv, TypeOK
  <1>5. /\ wire' = wire \/ wire' = Put(wire, d, <<m>>)
        /\ Attached(d) => wire' = Put(wire, d, <<m>>) /\ m \in Range(wire'[d])
    <2>1. CASE Attached(d)
      <3>1. wire'[d] = Append(wire[d], m) /\ wire[d] \in Seq(Message)
        BY <1>1, <1>2, <1>4, <2>1, PutFacts
      <3>2. Range(wire'[d]) = Range(wire[d]) \cup {m}
        BY <1>1, <3>1, AppendedFrames
      <3> QED  BY <1>2, <2>1, <3>2
    <2>2. CASE ~Attached(d)
      BY <1>1, <1>2, <1>4, <2>2, PutFacts
    <2> QED  BY <2>1, <2>2
  <1>6. /\ FramesInv'
        /\ \A x \in Device : Range(wire[x]) \subseteq Range(wire'[x])
        /\ wire'[e] = wire[e] /\ Range(wire'[d]) \subseteq Range(wire[d]) \cup {m}
    BY <1>1, <1>3, <1>5, SendKeeps, PeerFacts
  <1>7. WholeInv'
    BY <1>2 DEF IInv, WholeInv
  <1>8. OwedInv'
    <2>1. /\ Attached(d) => channel[d].owed \subseteq known[e] /\ Covers(wire[e], channel[d].owed)
          /\ Attached(e) => channel[e].owed \subseteq known[d] /\ Covers(wire[d], channel[e].owed)
      BY PeerFacts DEF IInv, OwedInv
    <2>2. Attached(e) => Covers(wire'[d], channel[e].owed)
      BY <2>1, <1>1, <1>6 DEF Covers
    <2> QED  BY <1>2, <1>3, <1>6, <2>1, <2>2, PeerFacts DEF OwedInv, Attached
  <1>9. ASSUME Joined, NEW u \in known'[e] \ known'[d]
        PROVE  Bringing(u, channel'[d].owed, Range(wire'[e]), Range(wire'[d]))
    <2>1. Bringing(u, channel[d].owed, Range(wire[e]), Range(wire[d]))
      BY <1>3, <1>9, Brought
    <2> QED  BY <1>2, <1>6, <2>1, BringingGrows, PeerFacts
  <1>10. ASSUME Joined, NEW u \in known'[d] \ known'[e]
         PROVE  Bringing(u, channel'[e].owed, Range(wire'[d]), Range(wire'[e]))
    <2>1. CASE u = v
      BY <1>1, <1>5, <1>10, <2>1, PeerFacts DEF Bringing, Joined, Device
    <2>2. CASE u # v
      <3>1. Bringing(u, channel[e].owed, Range(wire[d]), Range(wire[e]))
        BY <1>3, <1>10, <2>2, Brought, PeerFacts
      <3>2. /\ channel[e].owed = channel'[e].owed
            /\ Range(wire[d]) \subseteq Range(wire'[d]) /\ Range(wire[e]) \subseteq Range(wire'[e])
        BY <1>2, <1>6, PeerFacts
      <3> QED  BY <3>1, <3>2, BringingGrows
    <2> QED  BY <2>1, <2>2
  <1>11. Joined' => Joined
    BY <1>2 DEF Joined, Attached
  <1>12. NothingForgotten'
    BY <1>6, <1>7, <1>9, <1>10, <1>11, ForgottenByFrames, PeerFacts
  <1> QED  BY <1>6, <1>7, <1>8, <1>12 DEF IInv

----------------------------------------------------------------------------
LEMMA FallbackKeeps ==
    ASSUME IInv, TypeOK', Large = {}, NEW d \in Device, Fallback(d)
    PROVE  IInv'
  <1> DEFINE e == Peer(d)
             m == Full(known[d])
  <1>1. m \in Message /\ m.type = "full" /\ m.updates = known[d]
    BY FrameTypes DEF IInv, TypeOK, Full
  <1>2. /\ known' = known /\ bulk' = bulk /\ assembly' = assembly
        /\ Attached(d) /\ Settle(d) /\ (wire' = wire \/ wire' = Put(wire, d, <<m>>))
    BY DEF Fallback, SendFull
  <1>3. /\ FramesInv'
        /\ \A x \in Device : Range(wire[x]) \subseteq Range(wire'[x])
        /\ wire'[e] = wire[e] /\ Range(wire'[d]) \subseteq Range(wire[d]) \cup {m}
    BY <1>1, <1>2, SendKeeps, PeerFacts
  <1>4. \A x \in Device : /\ Attached(x)' <=> Attached(x)
                          /\ Attached(x) => channel'[x].owed = channel[x].owed
    BY <1>2, SettleFacts DEF IInv
  <1>5. WholeInv'
    BY <1>2 DEF IInv, WholeInv
  <1>6. OwedInv'
    <2>1. /\ channel[d].owed \subseteq known[e] /\ Covers(wire[e], channel[d].owed)
          /\ Attached(e) => channel[e].owed \subseteq known[d] /\ Covers(wire[d], channel[e].owed)
      BY <1>2, PeerFacts DEF IInv, OwedInv
    <2>2. Attached(e) => Covers(wire'[d], channel[e].owed)
      BY <2>1, <1>1, <1>3 DEF Covers
    <2> QED  BY <1>2, <1>3, <1>4, <2>1, <2>2, PeerFacts DEF OwedInv
  <1>7. Joined' => Joined
    BY <1>4 DEF Joined, Device
  <1>8. ASSUME Joined, NEW x \in Device, NEW u \in known[Peer(x)] \ known[x]
        PROVE  Bringing(u, channel'[x].owed, Range(wire'[Peer(x)]), Range(wire'[x]))
    <2>1. Bringing(u, channel[x].owed, Range(wire[Peer(x)]), Range(wire[x]))
      BY <1>8, Brought
    <2>2. channel'[x].owed = channel[x].owed
      BY <1>4, <1>8 DEF Joined, Device
    <2> QED  BY <1>3, <2>1, <2>2, BringingGrows, PeerFacts
  <1>9. NothingForgotten'
    BY <1>2, <1>3, <1>5, <1>7, <1>8, ForgottenByFrames
  <1> QED  BY <1>3, <1>5, <1>6, <1>9 DEF IInv

LEMMA LandKeeps ==
    ASSUME IInv, TypeOK', NEW d \in Device, NEW v \in Update, Land(d, v)
    PROVE  IInv'
  <1> DEFINE e == Peer(d)
  <1>1. /\ bulk' = bulk /\ assembly' = assembly /\ wire' = wire
        /\ Attached(d) /\ Attached(e) /\ v \in channel[d].owed
        /\ known' = [known EXCEPT ![d] = known[d] \cup {v}]
        /\ channel' = [channel EXCEPT ![d] = [channel[d] EXCEPT !.owed = channel[d].owed \ {v}]]
    BY DEF Land
  <1>2. /\ known'[d] = known[d] \cup {v} /\ known'[e] = known[e]
        /\ \A x \in Device : known[x] \subseteq known'[x]
    BY <1>1, PeerFacts DEF IInv, TypeOK
  <1>3. channel[d] \in Channel
    BY <1>1 DEF IInv, TypeOK, Attached
  <1>4. [channel[d] EXCEPT !.owed = channel[d].owed \ {v}].owed = channel[d].owed \ {v}
    BY <1>3 DEF Channel
  <1>5. channel'[d].owed = channel[d].owed \ {v} /\ channel'[e] = channel[e]
    BY <1>1, <1>4, PeerFacts DEF IInv, TypeOK
  <1>6. FramesInv' /\ WholeInv'
    BY <1>1, <1>2 DEF IInv, FramesInv, WholeInv, Truthful
  <1>7. /\ channel[d].owed \subseteq known[e] /\ Covers(wire[e], channel[d].owed)
        /\ channel[e].owed \subseteq known[d] /\ Covers(wire[d], channel[e].owed)
    BY <1>1, PeerFacts DEF IInv, OwedInv
  <1>8. OwedInv'
    <2>1. Covers(wire[e], channel[d].owed \ {v})
      BY <1>7 DEF Covers
    <2> QED  BY <1>1, <1>2, <1>5, <1>7, <2>1, PeerFacts DEF OwedInv
  <1>9. Joined
    BY <1>1, PeerFacts DEF Joined, Device
  <1>10. ASSUME NEW u \in known'[e] \ known'[d]
         PROVE  Bringing(u, channel'[d].owed, Range(wire'[e]), Range(wire'[d]))
    BY <1>1, <1>2, <1>5, <1>9, <1>10, Brought DEF Bringing
  <1>11. ASSUME NEW u \in known'[d] \ known'[e]
         PROVE  Bringing(u, channel'[e].owed, Range(wire'[d]), Range(wire'[e]))
    <2>1. u \in known[d] \ known[e]
      BY <1>1, <1>2, <1>7, <1>11
    <2> QED  BY <1>1, <1>5, <1>9, <2>1, Brought, PeerFacts
  <1>12. NothingForgotten'
    BY <1>6, <1>10, <1>11, ForgottenByFrames, PeerFacts
  <1> QED  BY <1>6, <1>8, <1>12 DEF IInv

(* Steps after which at least one side is not attached, and steps that     *)
(* change nothing of the exchange.                                         *)
LEMMA QuietKeeps ==
    ASSUME IInv, TypeOK',
           \/ UNCHANGED <<known, channel, wire, bulk, assembly>>
           \/ Disconnect
           \/ \E d \in Device : Pause(d) \/ Drop(d) \/ \E u \in Update : GiveUp(d, u)
    PROVE  IInv'
  <1>1. CASE UNCHANGED <<known, channel, wire, bulk, assembly>>
    BY <1>1 DEF IInv, FramesInv, WholeInv, OwedInv, NothingForgotten, Joined, Attached, Coming, Sent
  <1>2. CASE Disconnect
    <2>1. \A x \in Device : wire'[x] = <<>> /\ Range(wire'[x]) = {} /\ DOMAIN wire'[x] = {}
      BY <1>2 DEF Disconnect, Range
    <2>2. FramesInv'
      BY <2>1 DEF FramesInv, Truthful, Grown
    <2> QED  BY <1>2, <2>2 DEF Disconnect, IInv, WholeInv, OwedInv, NothingForgotten, Joined,
                 Attached, Device
  <1>3. ASSUME NEW d \in Device, Pause(d)  PROVE IInv'
    <2>1. ~Joined'
      BY <1>3 DEF Pause, Joined, Attached, Device, IInv, TypeOK
    <2>2. FramesInv' /\ WholeInv'
      BY <1>3 DEF Pause, IInv, FramesInv, WholeInv
    <2>3. OwedInv'
      BY <1>3, PeerFacts DEF Pause, IInv, TypeOK, OwedInv, Attached
    <2> QED  BY <2>1, <2>2, <2>3 DEF IInv, NothingForgotten
  <1>4. ASSUME NEW d \in Device, Drop(d)  PROVE IInv'
    <2>1. /\ wire[Peer(d)] # <<>> /\ ~Attached(d) /\ wire' = Handled(d)
          /\ UNCHANGED <<known, channel, bulk, assembly>>
      BY <1>4 DEF Drop
    <2>2. Reply("index-ack") \in Message /\ Reply("index-ack").type = "index-ack"
          /\ Reply("index-ack").updates = {}
      BY DEF Reply, Message
    <2>3. FramesInv'
      BY <2>1, <2>2, HandleKeeps
    <2>4. wire'[d] = wire[d]
      BY <2>1, HandledFacts DEF IInv
    <2>5. OwedInv'
      BY <2>1, <2>4, PeerFacts DEF IInv, OwedInv, Attached
    <2>6. ~Joined'
      BY <2>1 DEF Joined, Attached, Device
    <2> QED  BY <2>1, <2>3, <2>5, <2>6 DEF IInv, WholeInv, NothingForgotten
  <1>5. ASSUME NEW d \in Device, NEW u \in Update, GiveUp(d, u)  PROVE IInv'
    <2>1. /\ UNCHANGED <<known, wire, bulk, assembly>> /\ Attached(d) /\ ~Attached(Peer(d))
          /\ channel' = [channel EXCEPT ![d] = [channel[d] EXCEPT !.owed = channel[d].owed \ {u}]]
      BY <1>5 DEF GiveUp
    <2>2. channel[d] \in Channel
      BY <2>1 DEF IInv, TypeOK, Attached
    <2>3. [channel[d] EXCEPT !.owed = channel[d].owed \ {u}].owed = channel[d].owed \ {u}
      BY <2>2 DEF Channel
    <2>4. channel'[d].owed = channel[d].owed \ {u} /\ channel'[Peer(d)] = NoChannel
      BY <2>1, <2>3, PeerFacts DEF IInv, TypeOK, Attached
    <2>5. ~Joined' /\ ~Attached(Peer(d))'
      BY <2>4, PeerFacts DEF Joined, Attached, Device
    <2>6. channel[d].owed \subseteq known[Peer(d)] /\ Covers(wire[Peer(d)], channel[d].owed)
      BY <2>1 DEF IInv, OwedInv
    <2>7. Covers(wire[Peer(d)], channel[d].owed \ {u})
      BY <2>6 DEF Covers
    <2>8. OwedInv'
      BY <2>1, <2>4, <2>5, <2>6, <2>7, PeerFacts DEF OwedInv
    <2> QED  BY <2>1, <2>5, <2>8 DEF IInv, FramesInv, WholeInv, NothingForgotten
  <1> QED  BY <1>1, <1>2, <1>3, <1>4, <1>5

----------------------------------------------------------------------------
(* A handler at d that takes the first frame and sends m, or nothing: what *)
(* the frame would have brought is owed now, or m brings it.               *)
LEMMA HandlerKeeps ==
    ASSUME IInv, TypeOK', NEW d \in Device, wire[Peer(d)] # <<>>, Attached(d), Attached(d)',
           NEW m \in Message, m.type # "chunk", m.updates \subseteq known[d],
           m.type = "full" => m.updates = known[d],
           wire' = Handled(d) \/ wire' = Put(Handled(d), d, <<m>>),
           known' = known, bulk' = bulk, assembly' = assembly,
           \A x \in Device \ {d} : channel'[x] = channel[x],
           channel'[d].owed \subseteq channel[d].owed \cup
               IF Frame(d).type \in {"delta", "full"} THEN Frame(d).updates ELSE {},
           channel[d].owed \ known[d] \subseteq channel'[d].owed,
           \A u \in known[Peer(d)] \ known[d] :
               (Frame(d).type \in {"index-fingerprint", "delta", "full"} /\ u \in Frame(d).updates)
                   \/ Frame(d).type = "index-request"
               => \/ u \in channel'[d].owed
                  \/ /\ wire' = Put(Handled(d), d, <<m>>)
                     /\ m.type = "index-request" \/ (m.type = "full" /\ u \notin m.updates),
           \A u \in known[d] \ known[Peer(d)] :
               (Frame(d).type \in {"index-fingerprint", "full"} /\ u \notin Frame(d).updates)
                   \/ Frame(d).type = "index-request"
               => /\ wire' = Put(Handled(d), d, <<m>>)
                  /\ m.type = "index-request" \/ (m.type \in {"delta", "full"} /\ u \in m.updates)
    PROVE  IInv'
  <1> DEFINE e == Peer(d)
  <1>1. /\ FramesInv'
        /\ Range(wire[e]) = {Frame(d)} \cup Range(wire'[e])
        /\ Range(wire[d]) \subseteq Range(wire'[d])
        /\ Range(wire'[d]) \subseteq Range(wire[d]) \cup {m}
        /\ wire' = Put(Handled(d), d, <<m>>) => m \in Range(wire'[d])
        /\ Frame(d).updates \subseteq known[e]
        /\ Frame(d).type \in {"delta", "full"} => Covers(wire'[e], Frame(d).updates)
    <2>1. /\ wire'[Peer(d)] = Tail(wire[Peer(d)])
          /\ Range(wire[Peer(d)]) = {Frame(d)} \cup Range(wire'[Peer(d)])
          /\ wire' = Put(Handled(d), d, <<m>>) => Range(wire'[d]) = Range(wire[d]) \cup {m}
          /\ Frame(d).updates \subseteq known[Peer(d)]
          /\ Frame(d).type \in {"delta", "full"} => Covers(wire'[Peer(d)], Frame(d).updates)
      BY HandleKeeps
    <2>2. /\ FramesInv' /\ Range(wire[d]) \subseteq Range(wire'[d])
          /\ Range(wire'[d]) \subseteq Range(wire[d]) \cup {m}
      BY HandleKeeps
    <2> QED  BY <2>1, <2>2
  <1>2. WholeInv'
    BY DEF IInv, WholeInv
  <1>3. e \in Device /\ e # d /\ Peer(e) = d /\ Device = {d, e} /\ channel'[e] = channel[e]
    BY PeerFacts
  <1>4. /\ channel[d].owed \subseteq known[e] /\ Covers(wire[e], channel[d].owed)
        /\ Attached(e) => channel[e].owed \subseteq known[d] /\ Covers(wire[d], channel[e].owed)
    BY <1>3 DEF IInv, OwedInv
  <1>5. OwedInv'
    <2>1. channel'[d].owed \subseteq known[e] /\ Covers(wire'[e], channel'[d].owed)
      BY <1>1, <1>4 DEF Covers
    <2>2. Attached(e) => Covers(wire'[d], channel[e].owed)
      BY <1>1, <1>4 DEF Covers
    <2> QED  BY <1>3, <1>4, <2>1, <2>2 DEF OwedInv, Attached
  <1>6. Joined' => Joined
    BY <1>3 DEF Joined, Attached, Device
  <1>7. ASSUME Joined, NEW u \in known[e] \ known[d]
        PROVE  Bringing(u, channel'[d].owed, Range(wire'[e]), Range(wire'[d]))
    <2>1. Bringing(u, channel[d].owed, Range(wire[e]), Range(wire[d]))
      BY <1>7, Brought
    <2> QED  BY <1>1, <1>7, <2>1 DEF Bringing
  <1>8. ASSUME Joined, NEW u \in known[d] \ known[e]
        PROVE  Bringing(u, channel'[e].owed, Range(wire'[d]), Range(wire'[e]))
    <2>1. Bringing(u, channel[e].owed, Range(wire[d]), Range(wire[e]))
      BY <1>3, <1>8, Brought
    <2> QED  BY <1>1, <1>3, <1>8, <2>1 DEF Bringing
  <1>9. NothingForgotten'
    BY <1>1, <1>2, <1>3, <1>6, <1>7, <1>8, ForgottenByFrames
  <1> QED  BY <1>1, <1>2, <1>5, <1>9 DEF IInv

LEMMA AnswerKeeps ==
    ASSUME IInv, TypeOK', Large = {}, NEW d \in Device,
           onIndexFingerprint(d) \/ onIndexAck(d) \/ onIndexRequest(d)
    PROVE  IInv'
  <1> DEFINE e == Peer(d)
  <1>1. /\ wire[e] # <<>> /\ Attached(d) /\ Settle(d)
        /\ known' = known /\ bulk' = bulk /\ assembly' = assembly
    BY DEF onIndexFingerprint, onIndexAck, onIndexRequest, Arrives, SendFull
  <1>2. /\ Attached(d)' /\ channel'[d].owed = channel[d].owed
        /\ \A x \in Device \ {d} : channel'[x] = channel[x]
    BY <1>1, SettleFacts DEF IInv, TypeOK, Settle
  <1>3. \A type \in {"index-ack", "index-request"} :
            /\ Reply(type) \in Message /\ Reply(type).type = type /\ Reply(type).updates = {}
    BY DEF Reply, Message
  <1>4. CASE onIndexFingerprint(d)
    <2> DEFINE m == Reply(Answer(d, Frame(d).updates))
    <2>1. /\ Frame(d).type = "index-fingerprint"
          /\ wire' = Put(Handled(d), d, <<m>>)
      BY <1>4 DEF onIndexFingerprint, Arrives, Frame
    <2>2. /\ m \in Message /\ m.updates = {} /\ m.type \in {"index-ack", "index-request"}
          /\ Frame(d).updates # known[d] => m.type = "index-request"
      BY <1>3 DEF Answer
    <2> QED  BY <1>1, <1>2, <2>1, <2>2, HandlerKeeps
  <1>5. CASE onIndexAck(d)
    <2>1. Frame(d).type = "index-ack" /\ wire' = Handled(d)
      BY <1>5 DEF onIndexAck, Arrives, Frame
    <2>2. /\ Reply("index-ack") \in Message /\ Reply("index-ack").type = "index-ack"
          /\ Reply("index-ack").updates = {}
      BY <1>3
    <2> QED  BY <1>1, <1>2, <2>1, <2>2, HandlerKeeps
  <1>6. CASE onIndexRequest(d)
    <2>1. /\ Frame(d).type = "index-request"
          /\ wire' = Put(Handled(d), d, <<Full(known[d])>>)
      BY <1>6 DEF onIndexRequest, Arrives, Frame, SendFull
    <2>2. /\ Full(known[d]) \in Message /\ Full(known[d]).type = "full"
          /\ Full(known[d]).updates = known[d]
      BY FrameTypes DEF IInv, TypeOK, Full
    <2> QED  BY <1>1, <1>2, <2>1, <2>2, HandlerKeeps
  <1> QED  BY <1>4, <1>5, <1>6

LEMMA IndexKeeps ==
    ASSUME IInv, TypeOK', NEW d \in Device, onPeerIndex(d)
    PROVE  IInv'
  <1> DEFINE e == Peer(d)
             full == Frame(d).type = "full"
             back == IF full THEN known[d] \ Frame(d).updates ELSE {}
             m == Delta(back)
             owed == (Frame(d).updates \ known[d]) \cup IF full THEN {} ELSE channel[d].owed
  <1>1. /\ wire[e] # <<>> /\ Attached(d) /\ Frame(d).type \in {"delta", "full"}
        /\ known' = known /\ bulk' = bulk /\ assembly' = [assembly EXCEPT ![d] = {}]
        /\ Plan(d, Frame(d).updates, full)
    BY DEF onPeerIndex, Arrives, Frame
  <1>2. assembly' = assembly
    BY <1>1 DEF IInv, TypeOK, WholeInv
  <1>3. channel[d] \in Channel /\ NoChannel \notin Channel
    BY <1>1, ChannelAssumption DEF IInv, TypeOK, Attached, Channel
  <1>4. channel' = [channel EXCEPT ![d] = [channel[d] EXCEPT !.owed = owed]]
    BY <1>1 DEF Plan
  <1>5. [channel[d] EXCEPT !.owed = owed].owed = owed
    BY <1>3 DEF Channel
  <1>6. /\ channel'[d].owed = owed
        /\ \A x \in Device \ {d} : channel'[x] = channel[x]
    BY <1>4, <1>5 DEF IInv, TypeOK
  <1>7. Attached(d)'
    BY <1>1, HandledFacts, PlanType DEF IInv, Attached, Message
  <1>8. back \in SUBSET Update /\ m \in Message /\ m.type = "delta" /\ m.updates = back
    BY FrameTypes DEF IInv, TypeOK, Delta
  <1>9. /\ Handled(d) \in [Device -> Seq(Message)]
        /\ Put(Handled(d), d, <<>>) = Handled(d)
    BY <1>1, <1>8, HandledFacts, PutFacts DEF IInv
  <1>10. wire' = Put(Handled(d), d, IF back = {} THEN <<>> ELSE <<m>>)
    BY <1>1 DEF Plan
  <1>11. /\ wire' = Handled(d) \/ wire' = Put(Handled(d), d, <<m>>)
         /\ back # {} => wire' = Put(Handled(d), d, <<m>>)
    BY <1>9, <1>10
  <1>12. full => channel[d].owed \subseteq Frame(d).updates
    <2>1. Frame(d) \in Range(wire[e])
      BY <1>1, TailFrames, PeerFacts DEF Frame, IInv, TypeOK
    <2> QED  BY <1>1, <2>1 DEF IInv, OwedInv, Covers
  <1>13. /\ m.updates \subseteq known[d]
         /\ channel'[d].owed \subseteq channel[d].owed \cup Frame(d).updates
         /\ channel[d].owed \ known[d] \subseteq channel'[d].owed
         /\ \A u \in known[e] \ known[d] : u \in Frame(d).updates => u \in channel'[d].owed
         /\ \A u \in known[d] \ known[e] : full /\ u \notin Frame(d).updates => u \in back
    BY <1>6, <1>8, <1>12
  <1> HIDE DEF full, back, m, owed
  <1>14. Frame(d).type # "index-fingerprint" /\ Frame(d).type # "index-request"
         /\ (Frame(d).type = "full" => full)
    BY <1>1 DEF full
  <1> QED  BY <1>1, <1>2, <1>6, <1>7, <1>8, <1>11, <1>13, <1>14, HandlerKeeps

LEMMA IStep == Large = {} /\ IInv /\ [Next]_vars => IInv'
  <1> SUFFICES ASSUME Large = {}, IInv, [Next]_vars  PROVE IInv'
    OBVIOUS
  <1>1. TypeOK'
    BY TypeStep DEF IInv
  <1>2. CASE UNCHANGED <<known, channel, wire, bulk, assembly>>
    BY <1>1, <1>2, QuietKeeps
  <1>3. CASE Connect \/ UNCHANGED vars \/ \E d \in Device : Resume(d)
    BY <1>2, <1>3 DEF Connect, Resume, vars
  <1>4. CASE Disconnect \/ \E d \in Device : Pause(d) \/ Drop(d) \/ \E u \in Update : GiveUp(d, u)
    BY <1>1, <1>4, QuietKeeps
  <1>5. ASSUME NEW d \in Device, SendChunk(d) \/ acceptIndexChunk(d)  PROVE FALSE
    <2>1. bulk[d] = {}
      BY DEF IInv, WholeInv
    <2>2. ~SendChunk(d)
      BY <2>1 DEF SendChunk
    <2>3. ~acceptIndexChunk(d)
      <3>1. Peer(d) \in Device /\ wire[Peer(d)] \in Seq(Message)
            /\ \A m \in Range(wire[Peer(d)]) : m.type # "chunk"
        BY PeerFacts DEF IInv, TypeOK, FramesInv, Truthful
      <3>2. wire[Peer(d)] # <<>> => Head(wire[Peer(d)]).type # "chunk"
        BY <3>1, TailFrames
      <3> QED  BY <3>2 DEF acceptIndexChunk, Arrives
    <2> QED  BY <1>5, <2>2, <2>3
  <1> QED
    BY <1>1, <1>3, <1>4, <1>5, AttachKeeps, EditKeeps, FallbackKeeps, LandKeeps, AnswerKeeps,
       IndexKeeps DEF Next, Handle

(* Whatever the devices edited apart, however messages are dropped while a *)
(* side is not attached and whichever of fingerprint, answer and fallback  *)
(* comes first: if indexes fit in one frame, every update that one of two  *)
(* attached sides lacks is on its way or will be asked for.                *)
THEOREM ExchangeForgetsNothing ==
    ASSUME Large = {}
    PROVE  Spec => []NothingForgotten
  <1>1. IInv /\ [Next]_vars => IInv'
    BY IStep
  <1>2. IInv => NothingForgotten
    BY DEF IInv
  <1> QED  BY <1>1, <1>2, IInit, PTL DEF Spec
=============================================================================
