--------------------------- MODULE UdpSocketProofs ---------------------------
(***************************************************************************)
(* What the proofs about UdpQueue and UdpServerQueue share: the inductive  *)
(* invariant of the socket and the output queue, that the actor and the    *)
(* operating system keep it, and facts about packets that are cut.         *)
(***************************************************************************)
EXTENDS UdpSocket, SequenceTheorems, TLAPS

USE DEF queueVars, writeVars, readVars, outHistory, inHistory

(* A packet is in flush's hands only during flush, which has a socket then. *)
HandsOK == pk # <<>> => pc = "flush" /\ socket

(* NoStrandedOutput, kept also while the actor reads. *)
OutputOK ==
  pc \in {"idle", "read"} /\ socket /\ out # <<>> =>
    must_flush \/ writable \/ (warm /\ wbuf > 0)

(* Somebody will look at the input: the actor reads, an event is on its way,
   or the socket is empty and will report the next packet. *)
InputOK == socket => pc = "read" \/ readable \/ (rarm /\ rbuf = <<>>)

SockInv == TypeOK /\ HandsOK /\ OutputOK /\ InputOK

(* The types, one by one. *)
LEMMA Types ==
  ASSUME TypeOK
  PROVE  /\ out \in Seq(Packet) /\ pushed \in Seq(Packet) /\ sent \in Seq(Packet)
         /\ rbuf \in Seq(Datagram) /\ arrived \in Seq(Datagram)
         /\ pk = <<>> \/ \E p \in Packet : pk = <<p>>
         /\ wbuf \in 0..SndCap /\ lost \subseteq Packet
         /\ socket \in BOOLEAN /\ must_flush \in BOOLEAN /\ warm \in BOOLEAN
         /\ writable \in BOOLEAN /\ rarm \in BOOLEAN /\ readable \in BOOLEAN
BY DEF TypeOK

(* A socket without packets has the right type. *)
LEMMA Empty ==
  /\ <<>> \in Seq(Packet) /\ <<>> \in Seq(Datagram) /\ <<>> \in Seq(Received)
  /\ 0 \in 0..SndCap
<1>1. 0 \in 0..SndCap
  BY CapsAssumption
<1> QED
  BY <1>1

LEMMA Stranded == SockInv => NothingStranded
BY DEF SockInv, OutputOK, InputOK, NothingStranded, NoStrandedOutput, NoStrandedInput

LEMMA SockInit == Init => SockInv
<1> SUFFICES ASSUME Init PROVE SockInv
  OBVIOUS
<1>1. TypeOK
  BY Empty DEF Init, TypeOK
<1> QED
  BY <1>1 DEF Init, SockInv, HandsOK, OutputOK, InputOK

LEMMA ArriveInv ==
  ASSUME SockInv, NEW addr \in Peers, NEW size \in Sizes, Arrive(addr, size)
  PROVE  SockInv'
<1> DEFINE d == [id |-> Len(arrived) + 1, addr |-> addr, size |-> size]
<1>1. arrived \in Seq(Datagram) /\ rbuf \in Seq(Datagram)
  BY DEF SockInv, TypeOK
<1>2. Len(arrived) + 1 \in 1..MaxPackets
  BY <1>1, CapsAssumption DEF Arrive
<1>3. d \in Datagram
  BY <1>2 DEF Datagram
<1>4. rbuf' \in Seq(Datagram) /\ arrived' \in Seq(Datagram)
  BY <1>1, <1>3 DEF Arrive
<1>5. TypeOK'
  BY <1>4 DEF SockInv, TypeOK, Arrive
<1> QED
  BY <1>1, <1>5 DEF SockInv, HandsOK, OutputOK, InputOK, Arrive

LEMMA MoveOutInv ==
  ASSUME SockInv, MoveOut
  PROVE  SockInv'
<1>1. wbuf' \in 0..SndCap
  BY CapsAssumption DEF SockInv, TypeOK, MoveOut
<1>2. TypeOK'
  BY <1>1 DEF SockInv, TypeOK, MoveOut
<1> QED
  BY <1>2 DEF SockInv, HandsOK, OutputOK, InputOK, MoveOut

LEMMA FlushCallInv ==
  ASSUME SockInv, FlushCall
  PROVE  SockInv'
<1>1. TypeOK'
  BY DEF SockInv, TypeOK, FlushCall
<1> QED
  BY <1>1 DEF SockInv, HandsOK, OutputOK, InputOK, FlushCall

LEMMA ReadCallInv ==
  ASSUME SockInv, ReadCall
  PROVE  SockInv'
<1>1. TypeOK'
  BY DEF SockInv, TypeOK, ReadCall
<1> QED
  BY <1>1 DEF SockInv, HandsOK, OutputOK, InputOK, ReadCall

(* init and deinit of both queues *)
LEMMA SocketChangeInv ==
  ASSUME SockInv, pc = "idle", NewSocket \/ NoSocket,
         UNCHANGED <<queueVars, pc, platform, outHistory>>
  PROVE  SockInv'
<1>1. TypeOK'
  BY Empty DEF SockInv, TypeOK, NewSocket, NoSocket
<1> QED
  BY <1>1 DEF SockInv, HandsOK, OutputOK, InputOK, NewSocket, NoSocket

(* push of both queues *)
LEMMA PushInv ==
  ASSUME SockInv, NEW p \in Packet, out' = Append(out, p), pushed' = Append(pushed, p),
         must_flush' = TRUE,
         UNCHANGED <<pk, socket, pc, writeVars, readVars, platform, sent, lost, inHistory>>
  PROVE  SockInv'
<1>1. TypeOK'
  BY DEF SockInv, TypeOK
<1> QED
  BY <1>1 DEF SockInv, HandsOK, OutputOK, InputOK

(* An error ends the actor. *)
LEMMA FailInv ==
  ASSUME SockInv, Fail, pk' = <<>>, lost' \subseteq Packet,
         UNCHANGED <<out, must_flush, platform, pushed, sent>>
  PROVE  SockInv'
<1>1. TypeOK'
  BY Empty DEF SockInv, TypeOK, Fail, NoSocket
<1> QED
  BY <1>1 DEF SockInv, HandsOK, OutputOK, InputOK, Fail, NoSocket

LEMMA SockStutter ==
  ASSUME SockInv, UNCHANGED vars
  PROVE  SockInv'
BY DEF SockInv, TypeOK, HandsOK, OutputOK, InputOK, vars

(* The packet in flush's hands is the head of the FIFO. *)
LEMMA HeadOfHands ==
  ASSUME NEW hands, NEW p \in Packet, hands = <<p>>, NEW queue \in Seq(Packet)
  PROVE  /\ Head(hands \o queue) = Head(hands) /\ hands \o queue # <<>>
         /\ Tail(hands \o queue) = <<>> \o queue
<1> DEFINE both == <<p>> \o queue
<1>1. /\ both \in Seq(Packet) /\ Len(both) = Len(queue) + 1 /\ both[1] = p
      /\ \A i \in 1..Len(queue) : both[i + 1] = queue[i]
  OBVIOUS
<1>2. both # <<>> /\ Head(both) = p
  BY <1>1
<1> HIDE DEF both
<1>3. /\ Tail(both) \in Seq(Packet) /\ Len(Tail(both)) = Len(queue)
      /\ \A i \in 1..Len(queue) : Tail(both)[i] = queue[i]
  BY <1>1, <1>2, HeadTailProperties
<1>4. Tail(both) = queue
  BY <1>3, SeqEqual
<1>5. <<>> \o queue = queue
  BY ConcatEmptySeq
<1> QED
  BY <1>2, <1>4, <1>5 DEF both

-----------------------------------------------------------------------------
(* Packets cut to the size of the buffer *)

LEMMA CutOneType == \A d \in Datagram : CutOne(d) \in Received
BY SizesAssumption DEF CutOne, Datagram, Received

LEMMA CutType ==
  ASSUME NEW seq \in Seq(Datagram)
  PROVE  /\ Cut(seq) \in Seq(Received) /\ Len(Cut(seq)) = Len(seq)
         /\ \A i \in 1..Len(seq) : Cut(seq)[i] = CutOne(seq[i])
<1>1. Cut(seq) = [i \in 1..Len(seq) |-> CutOne(seq[i])]
  BY DEF Cut
<1>2. \A i \in 1..Len(seq) : CutOne(seq[i]) \in Received
  BY CutOneType
<1>3. Len(seq) \in Nat
  OBVIOUS
<1>4. Cut(seq) \in [1..Len(seq) -> Received]
  BY <1>1, <1>2
<1> QED
  BY <1>1, <1>3, <1>4

LEMMA CutAppend ==
  ASSUME NEW seq \in Seq(Datagram), NEW d \in Datagram
  PROVE  Cut(Append(seq, d)) = Append(Cut(seq), CutOne(d))
<1> DEFINE longer == Append(seq, d)
<1>1. /\ longer \in Seq(Datagram) /\ Len(longer) = Len(seq) + 1 /\ Len(seq) \in Nat
      /\ \A i \in 1..Len(longer) : longer[i] = IF i <= Len(seq) THEN seq[i] ELSE d
  OBVIOUS
<1>2. Cut(seq) \in Seq(Received) /\ Len(Cut(seq)) = Len(seq)
      /\ \A i \in 1..Len(seq) : Cut(seq)[i] = CutOne(seq[i])
  BY CutType
<1>3. Cut(longer) \in Seq(Received) /\ Len(Cut(longer)) = Len(longer)
      /\ \A i \in 1..Len(longer) : Cut(longer)[i] = CutOne(longer[i])
  <2> HIDE DEF longer
  <2> QED
    BY <1>1, CutType
<1>4. CutOne(d) \in Received
  BY CutOneType
<1>5. /\ Append(Cut(seq), CutOne(d)) \in Seq(Received)
      /\ Len(Append(Cut(seq), CutOne(d))) = Len(seq) + 1
      /\ \A i \in 1..(Len(seq) + 1) :
           Append(Cut(seq), CutOne(d))[i] = IF i <= Len(seq) THEN Cut(seq)[i] ELSE CutOne(d)
  BY <1>1, <1>2, <1>4
<1>6. ASSUME NEW i \in 1..Len(longer)
      PROVE  Cut(longer)[i] = Append(Cut(seq), CutOne(d))[i]
  <2> HIDE DEF longer
  <2>1. i \in 1..(Len(seq) + 1) /\ (i <= Len(seq) => i \in 1..Len(seq))
    BY <1>1
  <2> QED
    BY <1>1, <1>2, <1>3, <1>5, <2>1
<1>7. Len(Cut(longer)) = Len(Append(Cut(seq), CutOne(d)))
  BY <1>1, <1>3, <1>5
<1> HIDE DEF longer
<1>8. Cut(longer) = Append(Cut(seq), CutOne(d))
  BY <1>3, <1>5, <1>6, <1>7, SeqEqual
<1> QED
  BY <1>8 DEF longer

LEMMA CutHead ==
  ASSUME NEW seq \in Seq(Datagram), seq # <<>>
  PROVE  Cut(seq) = <<CutOne(Head(seq))>> \o Cut(Tail(seq))
<1> DEFINE rest == Tail(seq)
           both == <<CutOne(Head(seq))>> \o Cut(rest)
<1>1. /\ rest \in Seq(Datagram) /\ Len(seq) \in Nat \ {0} /\ Len(rest) = Len(seq) - 1
      /\ Head(seq) = seq[1] /\ seq[1] \in Datagram
      /\ \A i \in 1..Len(rest) : rest[i] = seq[i + 1]
  OBVIOUS
<1> HIDE DEF rest
<1>2. Cut(rest) \in Seq(Received) /\ Len(Cut(rest)) = Len(rest)
      /\ \A i \in 1..Len(rest) : Cut(rest)[i] = CutOne(rest[i])
  BY <1>1, CutType
<1>3. Cut(seq) \in Seq(Received) /\ Len(Cut(seq)) = Len(seq)
      /\ \A i \in 1..Len(seq) : Cut(seq)[i] = CutOne(seq[i])
  BY CutType
<1>4. CutOne(Head(seq)) \in Received
  BY <1>1, CutOneType
<1>5. /\ both \in Seq(Received) /\ Len(both) = Len(seq)
      /\ \A i \in 1..Len(seq) : both[i] = IF i = 1 THEN CutOne(seq[1]) ELSE Cut(rest)[i - 1]
  BY <1>1, <1>2, <1>4
<1>6. ASSUME NEW i \in 1..Len(seq)
      PROVE  Cut(seq)[i] = both[i]
  <2> HIDE DEF both
  <2>1. Cut(seq)[i] = CutOne(seq[i])
    BY <1>3
  <2>2. CASE i = 1
    BY <1>5, <2>1, <2>2
  <2>3. CASE i # 1
    <3>1. i - 1 \in 1..Len(rest) /\ (i - 1) + 1 = i
      BY <1>1, <2>3
    <3>2. rest[i - 1] = seq[i] /\ Cut(rest)[i - 1] = CutOne(rest[i - 1])
      BY <1>1, <1>2, <3>1
    <3> QED
      BY <1>5, <2>1, <2>3, <3>2
  <2> QED
    BY <2>2, <2>3
<1> HIDE DEF both
<1>7. Cut(seq) = both
  BY <1>3, <1>5, <1>6, SeqEqual
<1> QED
  BY <1>7 DEF both, rest
=============================================================================
