---------------------------- MODULE UdpQueueProofs ----------------------------
(***************************************************************************)
(* Proofs about UdpQueue, for every size of the buffers and any number of  *)
(* packets: nothing gets stuck, read hands over what came in, and the      *)
(* output side implements LossyFifo.                                       *)
(***************************************************************************)
EXTENDS UdpQueue, UdpSocketProofs

USE DEF queueVars, writeVars, readVars, outHistory, inHistory

LEMMA FlushInv ==
  ASSUME SockInv, flushStep
  PROVE  SockInv'
<1> USE DEF flushStep
<1>1. CASE flushPop
  <2>1. out \in Seq(Packet) /\ out # <<>>
    BY <1>1 DEF SockInv, TypeOK, flushPop
  <2>2. Head(out) \in Packet /\ Tail(out) \in Seq(Packet)
    BY <2>1
  <2>3. TypeOK'
    BY <1>1, <2>2 DEF SockInv, TypeOK, flushPop, Pop
  <2> QED
    BY <1>1, <2>3 DEF SockInv, HandsOK, OutputOK, InputOK, flushPop
<1>2. CASE flushSent
  <2>1. Head(pk) \in Packet
    BY <1>2 DEF SockInv, TypeOK, flushSent
  <2>2. wbuf' \in 0..SndCap
    BY <1>2, CapsAssumption DEF SockInv, TypeOK, flushSent, SendTaken
  <2>3. sent' \in Seq(Packet)
    BY <1>2, <2>1 DEF SockInv, TypeOK, flushSent
  <2>4. TypeOK'
    BY <1>2, <2>2, <2>3 DEF SockInv, TypeOK, flushSent, SendTaken, AfterSend
  <2> QED
    BY <1>2, <2>4 DEF SockInv, HandsOK, OutputOK, InputOK, flushSent, SendTaken, AfterSend
<1>3. CASE flushBlocked
  <2>1. Head(pk) \in Packet
    BY <1>3 DEF SockInv, TypeOK, flushBlocked
  <2>2. wbuf' > 0
    BY <1>3, CapsAssumption DEF flushBlocked, SendWouldBlock
  <2>3. TypeOK'
    BY <1>3, <2>1 DEF SockInv, TypeOK, flushBlocked, SendWouldBlock
  <2> QED
    BY <1>3, <2>2, <2>3 DEF SockInv, HandsOK, OutputOK, InputOK, flushBlocked, SendWouldBlock
<1>4. CASE flushError
  <2>1. Head(pk) \in Packet /\ lost \subseteq Packet
    BY <1>4 DEF SockInv, TypeOK, flushError
  <2> QED
    BY <1>4, <2>1, FailInv DEF flushError
<1>5. CASE flushEnd
  <2>1. TypeOK'
    BY <1>5 DEF SockInv, TypeOK, flushEnd
  <2> QED
    BY <1>5, <2>1 DEF SockInv, HandsOK, OutputOK, InputOK, flushEnd
<1> QED
  BY <1>1, <1>2, <1>3, <1>4, <1>5

LEMMA ReadInv ==
  ASSUME SockInv, readStep
  PROVE  SockInv'
<1> USE DEF readStep
<1>1. CASE readPacket
  <2>1. rbuf \in Seq(Datagram) /\ rbuf # <<>> /\ got \in Seq(Received)
    BY <1>1 DEF SockInv, TypeOK, readPacket
  <2>2. rbuf' \in Seq(Datagram) /\ Head(rbuf) \in Datagram
    BY <1>1, <2>1 DEF readPacket
  <2>3. Slice(Head(rbuf)) \in Received
    BY <2>2, CutOneType DEF CutOne, Slice
  <2>4. got' \in Seq(Received)
    BY <1>1, <2>1, <2>3 DEF readPacket
  <2>5. TypeOK'
    BY <1>1, <2>2, <2>4 DEF SockInv, TypeOK, readPacket
  <2> QED
    BY <1>1, <2>5 DEF SockInv, HandsOK, OutputOK, InputOK, readPacket
<1>2. CASE readNone
  <2>1. TypeOK'
    BY <1>2 DEF SockInv, TypeOK, readNone
  <2> QED
    BY <1>2, <2>1 DEF SockInv, HandsOK, OutputOK, InputOK, readNone, NothingToRead
<1>3. CASE readError
  <2>1. pk = <<>> /\ lost \subseteq Packet
    BY <1>3 DEF SockInv, HandsOK, TypeOK, readError
  <2> QED
    BY <1>3, <2>1, FailInv DEF readError
<1> QED
  BY <1>1, <1>2, <1>3

LEMMA NextInv ==
  ASSUME SockInv, [Next]_vars
  PROVE  SockInv'
<1>1. CASE init \/ deinit
  BY <1>1, SocketChangeInv DEF init, deinit
<1>2. CASE push
  <2> DEFINE p == [id |-> Len(pushed) + 1, addr |-> Peer]
  <2>1. pushed \in Seq(Packet)
    BY DEF SockInv, TypeOK
  <2>2. Len(pushed) + 1 \in 1..MaxPackets
    BY <1>2, <2>1, CapsAssumption DEF push
  <2>3. p \in Packet
    BY <2>2, PeerAssumption DEF Packet
  <2> QED
    BY <1>2, <2>3, PushInv DEF push
<1>3. ASSUME NEW size \in Sizes, Arrive(Peer, size) PROVE SockInv'
  BY <1>3, ArriveInv, PeerAssumption
<1> QED
  BY <1>1, <1>2, <1>3, FlushCallInv, FlushInv, ReadCallInv, ReadInv, MoveOutInv, SockStutter DEF Next

(* SockInv holds in every reachable state, whatever the network, the peer and
   the actor do and whichever calls of the socket fail. *)
THEOREM Invariance == Spec => []SockInv
BY SockInit, NextInv, PTL DEF Spec

(* Neither a packet in `out` nor one in the socket waits without an event, a
   flush or a read to come: flush and read go on until WouldBlock. *)
THEOREM NeverStranded == Spec => []NothingStranded
BY Invariance, Stranded, PTL

-----------------------------------------------------------------------------
(* Input *)

LEMMA ReadFaithfulStep ==
  ASSUME SockInv, ReadFaithful, [Next]_vars
  PROVE  ReadFaithful'
<1>0. /\ arrived \in Seq(Datagram) /\ rbuf \in Seq(Datagram) /\ got \in Seq(Received)
      /\ Cut(rbuf) \in Seq(Received)
  BY CutType DEF SockInv, TypeOK
<1>1. CASE rbuf' = <<>> /\ arrived' = <<>> /\ got' = <<>>
  <2>1. Cut(<<>>) = <<>>
    BY DEF Cut
  <2> QED
    BY <1>1, <2>1 DEF ReadFaithful
<1>2. ASSUME NEW size \in Sizes, Arrive(Peer, size) PROVE ReadFaithful'
  <2> DEFINE d == [id |-> Len(arrived) + 1, addr |-> Peer, size |-> size]
  <2>1. Len(arrived) + 1 \in 1..MaxPackets
    BY <1>0, <1>2, CapsAssumption DEF Arrive
  <2>2. d \in Datagram
    BY <2>1, PeerAssumption DEF Datagram
  <2>3. arrived' = Append(arrived, d) /\ rbuf' = Append(rbuf, d) /\ got' = got
    BY <1>2 DEF Arrive
  <2> HIDE DEF d
  <2>4. Cut(arrived') = Append(Cut(arrived), CutOne(d))
    BY <1>0, <2>2, <2>3, CutAppend
  <2>5. Cut(rbuf') = Append(Cut(rbuf), CutOne(d))
    BY <1>0, <2>2, <2>3, CutAppend
  <2>6. CutOne(d) \in Received
    BY <2>2, CutOneType
  <2>7. got \o Append(Cut(rbuf), CutOne(d)) = Append(got \o Cut(rbuf), CutOne(d))
    BY <1>0, <2>6
  <2> QED
    BY <2>3, <2>4, <2>5, <2>7 DEF ReadFaithful
<1>3. CASE readPacket
  <2> DEFINE d == Head(rbuf)
  <2>1. rbuf # <<>> /\ rbuf' = Tail(rbuf) /\ got' = Append(got, CutOne(d)) /\ arrived' = arrived
    BY <1>3 DEF readPacket, Slice, CutOne
  <2>2. Tail(rbuf) \in Seq(Datagram) /\ d \in Datagram
    BY <1>0, <2>1
  <2>3. CutOne(d) \in Received /\ Cut(Tail(rbuf)) \in Seq(Received)
    BY <2>2, CutOneType, CutType
  <2>4. Cut(rbuf) = <<CutOne(d)>> \o Cut(Tail(rbuf))
    BY <1>0, <2>1, CutHead
  <2> HIDE DEF d
  <2>5. got \o (<<CutOne(d)>> \o Cut(Tail(rbuf))) = Append(got, CutOne(d)) \o Cut(Tail(rbuf))
    <3>1. Append(got, CutOne(d)) = got \o <<CutOne(d)>> /\ <<CutOne(d)>> \in Seq(Received)
      BY <1>0, <2>3, AppendIsConcat
    <3> QED
      BY <1>0, <2>3, <3>1, ConcatAssociative
  <2> QED
    BY <2>1, <2>4, <2>5 DEF ReadFaithful
<1>4. CASE UNCHANGED <<rbuf, arrived, got>>
  BY <1>4 DEF ReadFaithful, Cut
<1> QED
  BY <1>1, <1>2, <1>3, <1>4
  DEF Next, vars, init, deinit, push, NewSocket, NoSocket, Fail, FlushCall, ReadCall, MoveOut,
      flushStep, flushPop, flushSent, flushBlocked, flushError, flushEnd,
      readStep, readNone, readError

(* read hands over what came in on the socket, in order, nothing twice and
   nothing left out: received and waiting packets together are the arrived. *)
THEOREM ReadIsFaithful == Spec => []ReadFaithful
<1>1. Init => ReadFaithful
  BY DEF Init, ReadFaithful, Cut
<1> QED
  BY <1>1, Invariance, ReadFaithfulStep, PTL DEF Spec

-----------------------------------------------------------------------------
(* Output *)

LEMMA FifoStep ==
  ASSUME SockInv, [Next]_vars
  PROVE  [Fifo!FifoNext]_(Fifo!fifoVars)
<1> USE DEF Fifo!FifoNext, Fifo!fifoVars
<1>0. out \in Seq(Packet) /\ (pk = <<>> \/ \E p \in Packet : pk = <<p>>)
  BY DEF SockInv, TypeOK
<1>1. CASE push
  <2> DEFINE p == [id |-> Len(pushed) + 1, addr |-> Peer]
  <2>1. pushed \in Seq(Packet)
    BY DEF SockInv, TypeOK
  <2>2. Len(pushed) + 1 \in 1..MaxPackets
    BY <1>1, <2>1, CapsAssumption DEF push
  <2>3. p \in Packet
    BY <2>2, PeerAssumption DEF Packet
  <2>4. out' = Append(out, p) /\ UNCHANGED <<pk, sent, lost>>
    BY <1>1 DEF push
  <2> HIDE DEF p
  <2>5. pk = <<>>
    BY <1>1 DEF SockInv, HandsOK, push
  <2>6. pk \o Append(out, p) = Append(pk \o out, p)
    BY <1>0, <2>3, <2>5
  <2>7. Fifo!Put(p)
    BY <2>4, <2>6 DEF Fifo!Put
  <2> QED
    BY <2>3, <2>7
<1>2. CASE flushPop
  <2>1. <<Head(out)>> \o Tail(out) = <<>> \o out
    BY <1>0, <1>2 DEF flushPop
  <2> QED
    BY <1>2, <2>1 DEF flushPop, Pop
<1>3. ASSUME pk # <<>>
      PROVE  Head(pk \o out) = Head(pk) /\ Tail(pk \o out) = <<>> \o out /\ pk \o out # <<>>
  BY <1>0, <1>3, HeadOfHands
<1>4. CASE flushSent
  BY <1>3, <1>4 DEF flushSent, Fifo!Send
<1>5. CASE flushBlocked \/ flushError
  BY <1>3, <1>5 DEF flushBlocked, flushError, Fifo!Lose
<1>6. CASE UNCHANGED <<out, pk, sent, lost>>
  BY <1>6
<1> QED
  BY <1>1, <1>2, <1>4, <1>5, <1>6
  DEF Next, vars, init, deinit, FlushCall, ReadCall, MoveOut, Arrive,
      flushStep, flushEnd, readStep, readPacket, readNone, readError

(* The output queue implements LossyFifo: each packet is sent at most once, in
   the order of push, and only the one flush is sending can be lost. *)
THEOREM ImplementsFifo == Spec => FifoSpec
<1>1. Init => Fifo!FifoInit
  BY DEF Init, Fifo!FifoInit
<1> QED
  BY <1>1, Invariance, FifoStep, PTL DEF Spec, FifoSpec, Fifo!FifoSpec
=============================================================================
