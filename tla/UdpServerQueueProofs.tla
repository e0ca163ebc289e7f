------------------------- MODULE UdpServerQueueProofs -------------------------
(***************************************************************************)
(* Proofs about UdpServerQueue, for every set of peers, every size of the  *)
(* buffers and any number of packets: the types, that nothing gets stuck,  *)
(* that read hands over what came in and leaves out only what Windows      *)
(* discards, and that the output side implements LossyFifo.                *)
(***************************************************************************)
EXTENDS UdpServerQueue, UdpSocketProofs

USE DEF queueVars, writeVars, readVars, outHistory, inHistory

LEMMA FlushInv ==
  ASSUME SockInv, flushStep
  PROVE  SockInv'
<1> USE DEF flushStep
<1>1. CASE flushPop
  <2>1. out \in Seq(Packet) /\ out # <<>>
    BY <1>1 DEF SockInv, TypeOK, flushPop
  <2>2. Head(out) \in Packet /\ Tail(out) \in Seq(Packet)
    BY <2>1
  <2>3. TypeOK'
    BY <1>1, <2>2 DEF SockInv, TypeOK, flushPop
  <2> QED
    BY <1>1, <2>3 DEF SockInv, HandsOK, OutputOK, InputOK, flushPop
<1>2. CASE flushSent
  <2>1. Head(pk) \in Packet
    BY <1>2 DEF SockInv, TypeOK, flushSent
  <2>2. wbuf' \in 0..SndCap
    BY <1>2, CapsAssumption DEF SockInv, TypeOK, flushSent, SendTaken
  <2>3. sent' \in Seq(Packet)
    BY <1>2, <2>1 DEF SockInv, TypeOK, flushSent, SendTo
  <2>4. TypeOK'
    BY <1>2, <2>2, <2>3 DEF SockInv, TypeOK, flushSent, SendTaken, AfterSend
  <2> QED
    BY <1>2, <2>4 DEF SockInv, HandsOK, OutputOK, InputOK, flushSent, SendTaken, AfterSend
<1>3. CASE flushBlocked
  <2>1. Head(pk) \in Packet
    BY <1>3 DEF SockInv, TypeOK, flushBlocked
  <2>2. wbuf' > 0
    BY <1>3, CapsAssumption DEF flushBlocked, SendWouldBlock
  <2>3. TypeOK'
    BY <1>3, <2>1 DEF SockInv, TypeOK, flushBlocked, SendWouldBlock
  <2> QED
    BY <1>3, <2>2, <2>3 DEF SockInv, HandsOK, OutputOK, InputOK, flushBlocked, SendWouldBlock
<1>4. CASE flushError
  <2>1. Head(pk) \in Packet /\ lost \subseteq Packet
    BY <1>4 DEF SockInv, TypeOK, flushError
  <2> QED
    BY <1>4, <2>1, FailInv DEF flushError
<1>5. CASE flushEnd
  <2>1. TypeOK'
    BY <1>5 DEF SockInv, TypeOK, flushEnd
  <2> QED
    BY <1>5, <2>1 DEF SockInv, HandsOK, OutputOK, InputOK, flushEnd
<1> QED
  BY <1>1, <1>2, <1>3, <1>4, <1>5

LEMMA ReadInv ==
  ASSUME SockInv, readStep
  PROVE  SockInv'
<1> USE DEF readStep
<1>1. CASE readPacket
  <2>1. rbuf \in Seq(Datagram) /\ rbuf # <<>> /\ got \in Seq(Received)
    BY <1>1 DEF SockInv, TypeOK, readPacket
  <2>2. rbuf' \in Seq(Datagram) /\ Head(rbuf) \in Datagram
    BY <1>1, <2>1 DEF readPacket
  <2>3. Slice(Head(rbuf)) \in Received
    BY <2>2, CutOneType DEF CutOne, Slice
  <2>4. got' \in Seq(Received)
    BY <1>1, <2>1, <2>3 DEF readPacket
  <2>5. TypeOK'
    BY <1>1, <2>2, <2>4 DEF SockInv, TypeOK, readPacket
  <2> QED
    BY <1>1, <2>5 DEF SockInv, HandsOK, OutputOK, InputOK, readPacket
<1>2. CASE readNone
  <2>1. TypeOK'
    BY <1>2 DEF SockInv, TypeOK, readNone
  <2> QED
    BY <1>2, <2>1 DEF SockInv, HandsOK, OutputOK, InputOK, readNone
<1>3. CASE readError
  <2>1. pk = <<>> /\ lost \subseteq Packet
    BY <1>3 DEF SockInv, HandsOK, TypeOK, readError
  <2> QED
    BY <1>3, <2>1, FailInv DEF readError
<1>4. CASE readSkip
  <2>1. rbuf \in Seq(Datagram) /\ rbuf # <<>>
    BY <1>4 DEF SockInv, TypeOK, readSkip
  <2>2. rbuf' \in Seq(Datagram)
    BY <1>4, <2>1 DEF readSkip
  <2>3. TypeOK'
    BY <1>4, <2>2 DEF SockInv, TypeOK, readSkip, AfterSkip
  <2> QED
    BY <1>4, <2>3 DEF SockInv, HandsOK, OutputOK, InputOK, readSkip, AfterSkip
<1> QED
  BY <1>1, <1>2, <1>3, <1>4

LEMMA NextInv ==
  ASSUME SockInv, [Next]_vars
  PROVE  SockInv'
<1>1. CASE init \/ deinit
  BY <1>1, SocketChangeInv DEF init, deinit
<1>2. ASSUME NEW addr \in Peers, push(addr) PROVE SockInv'
  <2> DEFINE p == [id |-> Len(pushed) + 1, addr |-> addr]
  <2>1. pushed \in Seq(Packet)
    BY DEF SockInv, TypeOK
  <2>2. Len(pushed) + 1 \in 1..MaxPackets
    BY <1>2, <2>1, CapsAssumption DEF push
  <2>3. p \in Packet
    BY <2>2 DEF Packet
  <2> QED
    BY <1>2, <2>3, PushInv DEF push
<1>3. ASSUME NEW addr \in Peers, NEW size \in Sizes, Arrive(addr, size) PROVE SockInv'
  BY <1>3, ArriveInv
<1> QED
  BY <1>1, <1>2, <1>3, FlushCallInv, FlushInv, ReadCallInv, ReadInv, MoveOutInv, SockStutter DEF Next

(* SockInv holds in every reachable state, whatever the network, the peers and
   the actor do and whichever calls of the socket fail. *)
THEOREM Invariance == Spec => []SockInv
BY SockInit, NextInv, PTL DEF Spec

(* The type invariant: in particular read never returns a slice beyond the end
   of the buffer it was given, and flush holds one packet at most. *)
THEOREM TypeCorrect == Spec => []TypeOK
<1>1. SockInv => TypeOK
  BY DEF SockInv
<1> QED
  BY <1>1, Invariance, PTL

(* Neither a packet in `out` nor one in the socket waits without an event, a
   flush or a read to come, also after a packet that read skips. *)
THEOREM NeverStranded == Spec => []NothingStranded
BY Invariance, Stranded, PTL

-----------------------------------------------------------------------------
(* Input *)

done == Len(arrived) - Len(rbuf)
Kept(d) == platform = "unix" \/ d.size <= BufSize
KeptOf(seq, n) == {CutOne(seq[i]) : i \in {k \in 1..n : Kept(seq[k])}}
Increasing(seq) == \A i, j \in 1..Len(seq) : i < j => seq[i].id < seq[j].id
Elements(seq) == {seq[i] : i \in 1..Len(seq)}

(* ReadFaithful, and packets are numbered as they come in. *)
InputInv ==
  /\ done >= 0
  /\ \A i \in 1..Len(rbuf) : rbuf[i] = arrived[done + i]
  /\ Elements(got) = KeptOf(arrived, done)
  /\ Increasing(got)
  /\ \A i \in 1..Len(arrived) : arrived[i].id = i

LEMMA Faithful == InputInv => ReadFaithful
BY DEF InputInv, ReadFaithful, done, Kept, KeptOf, Increasing, Elements

(* A packet with a higher number goes to the end. *)
LEMMA IncreasingAppend ==
  ASSUME NEW seq \in Seq(Received), NEW d \in Received, Increasing(seq),
         \A i \in 1..Len(seq) : seq[i].id < d.id
  PROVE  /\ Append(seq, d) \in Seq(Received) /\ Increasing(Append(seq, d))
         /\ Elements(Append(seq, d)) = Elements(seq) \cup {d}
<1> DEFINE longer == Append(seq, d)
<1>1. /\ longer \in Seq(Received) /\ Len(longer) = Len(seq) + 1 /\ Len(seq) \in Nat
      /\ \A i \in 1..Len(longer) : longer[i] = IF i <= Len(seq) THEN seq[i] ELSE d
  OBVIOUS
<1> HIDE DEF longer
<1>2. ASSUME NEW i \in 1..Len(longer), NEW j \in 1..Len(longer), i < j
      PROVE  longer[i].id < longer[j].id
  <2>1. i \in 1..Len(seq) /\ (j \in 1..Len(seq) \/ j = Len(seq) + 1)
    BY <1>1, <1>2
  <2> QED
    BY <1>1, <1>2, <2>1 DEF Increasing
<1>3. Elements(longer) = Elements(seq) \cup {d}
  <2>1. ASSUME NEW i \in 1..Len(longer) PROVE longer[i] \in Elements(seq) \cup {d}
    <3>1. i \in 1..Len(seq) \/ i > Len(seq)
      BY <1>1
    <3> QED
      BY <1>1, <3>1 DEF Elements
  <2>2. ASSUME NEW i \in 1..Len(seq) PROVE seq[i] \in Elements(longer)
    <3>1. i \in 1..Len(longer) /\ i <= Len(seq)
      BY <1>1
    <3>2. longer[i] = seq[i]
      BY <1>1, <3>1
    <3> QED
      BY <3>1, <3>2 DEF Elements
  <2>3. d \in Elements(longer)
    <3>1. Len(longer) \in 1..Len(longer) /\ ~(Len(longer) <= Len(seq))
      BY <1>1
    <3>2. longer[Len(longer)] = d
      BY <1>1, <3>1
    <3> QED
      BY <3>1, <3>2 DEF Elements
  <2> QED
    BY <2>1, <2>2, <2>3 DEF Elements
<1> QED
  BY <1>1, <1>2, <1>3 DEF longer, Increasing

(* What the packet after the first n adds to those that are kept. *)
LEMMA KeptOneMore ==
  ASSUME NEW seq \in Seq(Datagram), NEW n \in Nat, n + 1 \in 1..Len(seq)
  PROVE  KeptOf(seq, n + 1) =
           KeptOf(seq, n) \cup (IF Kept(seq[n + 1]) THEN {CutOne(seq[n + 1])} ELSE {})
<1>1. 1..(n + 1) = 1..n \cup {n + 1}
  OBVIOUS
<1> QED
  BY <1>1 DEF KeptOf

LEMMA ReadFaithfulStep ==
  ASSUME SockInv, InputInv, [Next]_vars
  PROVE  InputInv'
<1>0. /\ arrived \in Seq(Datagram) /\ rbuf \in Seq(Datagram) /\ got \in Seq(Received)
      /\ Len(arrived) \in Nat /\ Len(rbuf) \in Nat /\ done \in Int
      /\ platform \in {"unix", "windows"}
  BY DEF SockInv, TypeOK, done
<1>1. CASE rbuf' = <<>> /\ arrived' = <<>> /\ got' = <<>>
  <2>1. Len(<<>>) = 0 /\ 1..0 = {}
    OBVIOUS
  <2>2. done' = 0
    BY <1>1 DEF done
  <2> QED
    BY <1>1, <2>1, <2>2 DEF InputInv, KeptOf, Increasing, Elements
<1>2. ASSUME NEW addr \in Peers, NEW size \in Sizes, Arrive(addr, size) PROVE InputInv'
  <2> DEFINE d == [id |-> Len(arrived) + 1, addr |-> addr, size |-> size]
  <2>1. Len(arrived) + 1 \in 1..MaxPackets
    BY <1>0, <1>2, CapsAssumption DEF Arrive
  <2>2. d \in Datagram /\ d.id = Len(arrived) + 1
    BY <2>1 DEF Datagram
  <2>3. arrived' = Append(arrived, d) /\ rbuf' = Append(rbuf, d) /\ UNCHANGED <<got, platform>>
    BY <1>2 DEF Arrive
  <2> HIDE DEF d
  <2>4. /\ Len(arrived') = Len(arrived) + 1 /\ Len(rbuf') = Len(rbuf) + 1
        /\ \A i \in 1..Len(arrived) : arrived'[i] = arrived[i]
        /\ \A i \in 1..Len(rbuf) : rbuf'[i] = rbuf[i]
        /\ arrived'[Len(arrived) + 1] = d /\ rbuf'[Len(rbuf) + 1] = d
    BY <1>0, <2>2, <2>3, AppendProperties
  <2>5. done' = done /\ done + (Len(rbuf) + 1) = Len(arrived) + 1 /\ done \in 0..Len(arrived)
    BY <1>0, <2>4 DEF done, InputInv
  <2>6. ASSUME NEW i \in 1..Len(rbuf') PROVE rbuf'[i] = arrived'[done + i]
    <3>1. CASE i \in 1..Len(rbuf)
      <4>1. done + i \in 1..Len(arrived)
        BY <1>0, <2>5, <3>1
      <4> QED
        BY <2>4, <3>1, <4>1 DEF InputInv
    <3>2. CASE i = Len(rbuf) + 1
      BY <2>4, <2>5, <3>2
    <3> QED
      BY <1>0, <2>4, <3>1, <3>2
  <2>7. \A k \in 1..done : arrived'[k] = arrived[k]
    <3>1. Len(arrived) \in Nat
      BY <1>0
    <3>2. \A k \in 1..done : k \in 1..Len(arrived)
      BY <2>5, <3>1
    <3>3. \A i \in 1..Len(arrived) : arrived'[i] = arrived[i]
      BY <2>4
    <3> QED
      BY <3>2, <3>3
  <2>8. KeptOf(arrived, done)' = KeptOf(arrived, done)
    BY <2>3, <2>5, <2>7 DEF KeptOf, Kept
  <2>9. \A i \in 1..Len(arrived') : arrived'[i].id = i
    BY <1>0, <2>2, <2>4 DEF InputInv
  <2>10. Elements(got)' = KeptOf(arrived, done)'
    BY <2>3, <2>8 DEF InputInv, Elements
  <2>11. Increasing(got)'
    BY <2>3 DEF InputInv, Increasing
  <2>12. (done >= 0)'
    BY <2>5 DEF InputInv
  <2>13. (\A i \in 1..Len(rbuf) : rbuf[i] = arrived[done + i])'
    BY <2>5, <2>6
  <2> QED
    BY <2>9, <2>10, <2>11, <2>12, <2>13 DEF InputInv
<1>3. CASE readPacket \/ readSkip
  <2> DEFINE d == Head(rbuf)
  <2>1. rbuf # <<>> /\ rbuf' = Tail(rbuf) /\ UNCHANGED <<arrived, platform>>
    BY <1>3 DEF readPacket, readSkip
  <2>2. /\ Len(rbuf') = Len(rbuf) - 1 /\ Len(rbuf) \in Nat \ {0} /\ d = rbuf[1]
        /\ \A i \in 1..Len(rbuf') : rbuf'[i] = rbuf[i + 1]
    BY <1>0, <2>1
  <2>3. done \in Nat /\ done' = done + 1 /\ done + 1 \in 1..Len(arrived)
    BY <1>0, <2>1, <2>2 DEF done, InputInv
  <2>4. d = arrived[done + 1] /\ d \in Datagram /\ d.id = done + 1
    BY <1>0, <2>2, <2>3 DEF InputInv
  <2>9. Kept(d) <=> ~NoAddr(d)
    <3>1. d.size \in Nat /\ BufSize \in Nat
      BY <2>4, SizesAssumption DEF Datagram
    <3> QED
      BY <1>0, <3>1 DEF Kept, NoAddr
  <2> HIDE DEF d
  <2>5. ASSUME NEW i \in 1..Len(rbuf') PROVE rbuf'[i] = arrived'[done' + i]
    <3>1. i + 1 \in 1..Len(rbuf) /\ done + (i + 1) = (done + 1) + i
      BY <2>2, <2>3
    <3> QED
      BY <2>1, <2>2, <2>3, <3>1 DEF InputInv
  <2>6. KeptOf(arrived, done)' = KeptOf(arrived, done + 1)
    BY <2>1, <2>3 DEF KeptOf, Kept
  <2>7. KeptOf(arrived, done + 1) =
          KeptOf(arrived, done) \cup (IF Kept(d) THEN {CutOne(d)} ELSE {})
    BY <1>0, <2>3, <2>4, KeptOneMore
  <2>8. (Elements(got) = KeptOf(arrived, done))' /\ Increasing(got')
    <3>1. CASE readPacket
      <4>1. Kept(d) /\ got' = Append(got, CutOne(d))
        BY <2>9, <3>1 DEF readPacket, Slice, CutOne, d
      <4>2. CutOne(d) \in Received /\ CutOne(d).id = d.id
        BY <2>4, CutOneType DEF CutOne, Datagram
      <4>3. ASSUME NEW i \in 1..Len(got) PROVE got[i].id < CutOne(d).id
        <5>1. got[i] \in KeptOf(arrived, done)
          BY DEF InputInv, Elements
        <5>2. PICK k \in 1..done : got[i] = CutOne(arrived[k])
          BY <5>1 DEF KeptOf
        <5>3. k \in 1..Len(arrived)
          BY <2>3
        <5>4. arrived[k] \in Datagram /\ arrived[k].id = k
          BY <1>0, <5>3 DEF InputInv
        <5>5. got[i].id = k
          BY <5>2, <5>4 DEF CutOne, Datagram
        <5> QED
          BY <2>3, <2>4, <4>2, <5>5
      <4>4. Elements(got') = Elements(got) \cup {CutOne(d)} /\ Increasing(got')
        BY <1>0, <4>1, <4>2, <4>3, IncreasingAppend DEF InputInv
      <4> QED
        BY <2>6, <2>7, <4>1, <4>4 DEF InputInv, Elements
    <3>2. CASE readSkip
      <4>1. ~Kept(d) /\ got' = got
        BY <2>9, <3>2 DEF readSkip, d
      <4> QED
        BY <2>6, <2>7, <4>1 DEF InputInv, Elements, Increasing
    <3> QED
      BY <1>3, <3>1, <3>2
  <2> QED
    BY <2>1, <2>3, <2>5, <2>8 DEF InputInv
<1>4. CASE UNCHANGED <<rbuf, arrived, got, platform>>
  BY <1>4 DEF InputInv, done, KeptOf, Kept, Elements, Increasing
<1> QED
  BY <1>1, <1>2, <1>3, <1>4
  DEF Next, vars, init, deinit, push, NewSocket, NoSocket, Fail, FlushCall, ReadCall, MoveOut,
      flushStep, flushPop, flushSent, flushBlocked, flushError, flushEnd,
      readStep, readNone, readError

(* read hands over what came in on the socket, in order and nothing twice, and
   skips nothing but what Windows discards. *)
THEOREM ReadIsFaithful == Spec => []ReadFaithful
<1>1. Init => InputInv
  BY DEF Init, InputInv, done, KeptOf, Elements, Increasing
<1> QED
  BY <1>1, Invariance, ReadFaithfulStep, Faithful, PTL DEF Spec

-----------------------------------------------------------------------------
(* Output *)

LEMMA FifoStep ==
  ASSUME SockInv, [Next]_vars
  PROVE  [Fifo!FifoNext]_(Fifo!fifoVars)
<1> USE DEF Fifo!FifoNext, Fifo!fifoVars
<1>0. out \in Seq(Packet) /\ (pk = <<>> \/ \E p \in Packet : pk = <<p>>)
  BY DEF SockInv, TypeOK
<1>1. ASSUME NEW addr \in Peers, push(addr) PROVE \E p \in Packet : Fifo!Put(p)
  <2> DEFINE p == [id |-> Len(pushed) + 1, addr |-> addr]
  <2>1. pushed \in Seq(Packet)
    BY DEF SockInv, TypeOK
  <2>2. Len(pushed) + 1 \in 1..MaxPackets
    BY <1>1, <2>1, CapsAssumption DEF push
  <2>3. p \in Packet
    BY <2>2 DEF Packet
  <2>4. out' = Append(out, p) /\ UNCHANGED <<pk, sent, lost>>
    BY <1>1 DEF push
  <2> HIDE DEF p
  <2>5. pk = <<>>
    BY <1>1 DEF SockInv, HandsOK, push
  <2>6. pk \o Append(out, p) = Append(pk \o out, p)
    BY <1>0, <2>3, <2>5
  <2>7. Fifo!Put(p)
    BY <2>4, <2>6 DEF Fifo!Put
  <2> QED
    BY <2>3, <2>7
<1>2. CASE flushPop
  <2>1. <<Head(out)>> \o Tail(out) = <<>> \o out
    BY <1>0, <1>2 DEF flushPop
  <2> QED
    BY <1>2, <2>1 DEF flushPop
<1>3. ASSUME pk # <<>>
      PROVE  Head(pk \o out) = Head(pk) /\ Tail(pk \o out) = <<>> \o out /\ pk \o out # <<>>
  BY <1>0, <1>3, HeadOfHands
<1>4. CASE flushSent
  BY <1>3, <1>4 DEF flushSent, SendTo, Fifo!Send
<1>5. CASE flushBlocked \/ flushError
  BY <1>3, <1>5 DEF flushBlocked, flushError, Fifo!Lose
<1>6. CASE UNCHANGED <<out, pk, sent, lost>>
  BY <1>6
<1> QED
  BY <1>1, <1>2, <1>4, <1>5, <1>6
  DEF Next, vars, init, deinit, FlushCall, ReadCall, MoveOut, Arrive,
      flushStep, flushEnd, readStep, readPacket, readSkip, readNone, readError

(* The output queue implements LossyFifo: each packet is sent at most once, in
   the order of push and to the address it was pushed for, and only the one flush is sending can be lost. *)
THEOREM ImplementsFifo == Spec => FifoSpec
<1>1. Init => Fifo!FifoInit
  BY DEF Init, Fifo!FifoInit
<1> QED
  BY <1>1, Invariance, FifoStep, PTL DEF Spec, FifoSpec, Fifo!FifoSpec
=============================================================================
