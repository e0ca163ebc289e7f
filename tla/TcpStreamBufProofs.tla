-------------------------- MODULE TcpStreamBufProofs --------------------------
(***************************************************************************)
(* Proofs about TcpStreamBuf, for every size of the buffers, any number of *)
(* bytes and streams, and whatever the peer, the operating system and the  *)
(* actor do: no byte is lost, repeated or damaged in either direction, EOF *)
(* comes last, and nothing gets stuck.                                     *)
(***************************************************************************)
EXTENDS TcpStreamBuf, SequenceTheorems, WellFoundedInduction, TLAPS

-----------------------------------------------------------------------------
(* Induction over the numbers in a set, from the library's well-founded order *)

LEMMA NatLeast ==
  ASSUME NEW T \in SUBSET Nat, T # {}
  PROVE  \E x \in T : \A y \in T : x <= y
<1>1. PICK x \in T : \A y \in T : ~(<<y, x>> \in OpToRel(<, Nat))
  BY NatLessThanWellFounded, WFMin, Zenon
<1>2. \A y \in T : ~(y < x)
  BY <1>1 DEF OpToRel
<1> QED
  BY <1>2

LEMMA SetInduction ==
  ASSUME NEW T, 0 \in T, \A n \in Nat : n \in T => n + 1 \in T
  PROVE  \A n \in Nat : n \in T
<1> DEFINE Bad == {n \in Nat : n \notin T}
<1> SUFFICES ASSUME Bad # {} PROVE FALSE
  OBVIOUS
<1>1. PICK x \in Bad : \A y \in Bad : x <= y
  BY NatLeast
<1>2. x \in Nat /\ x # 0
  OBVIOUS
<1>3. x - 1 \in Nat /\ x - 1 \notin Bad
  BY <1>1, <1>2
<1> QED
  BY <1>2, <1>3

-----------------------------------------------------------------------------
(* The input buffer *)

Byte == 0..MaxIn
Buffer == [inp : Seq(Byte), rd : Nat, wr : Nat]

(* The offsets are in order and in the buffer. *)
Good(b) == b \in Buffer /\ b.rd <= b.wr /\ b.wr <= Len(b.inp)

LEMMA UnreadFacts ==
  ASSUME NEW b, Good(b)
  PROVE  /\ Unread(b) \in Seq(Byte) /\ Len(Unread(b)) = b.wr - b.rd
         /\ \A i \in 1..(b.wr - b.rd) : Unread(b)[i] = b.inp[b.rd + i]
<1>1. b.inp \in Seq(Byte) /\ b.rd \in Nat /\ b.wr \in Nat /\ b.rd <= b.wr /\ b.wr <= Len(b.inp)
  BY DEF Good, Buffer
<1>2. \A i \in (b.rd + 1)..b.wr : b.inp[i] \in Byte
  BY <1>1
<1>3. /\ Unread(b) \in Seq(Byte)
      /\ Len(Unread(b)) = IF b.rd + 1 <= b.wr THEN b.wr - (b.rd + 1) + 1 ELSE 0
      /\ \A i \in 1..(b.wr - (b.rd + 1) + 1) : Unread(b)[i] = b.inp[(b.rd + 1) + i - 1]
  <2>1. b.rd + 1 \in Int /\ b.wr \in Int
    BY <1>1
  <2> QED
    BY <1>2, <2>1, SubSeqProperties DEF Unread
<1> QED
  BY <1>1, <1>3

(* Two buffers hold the same if they do so place by place. *)
LEMMA UnreadSame ==
  ASSUME NEW b, NEW c, Good(b), Good(c), c.wr - c.rd = b.wr - b.rd,
         \A i \in 1..(b.wr - b.rd) : c.inp[c.rd + i] = b.inp[b.rd + i]
  PROVE  Unread(c) = Unread(b)
<1>1. /\ Unread(b) \in Seq(Byte) /\ Len(Unread(b)) = b.wr - b.rd
      /\ \A i \in 1..(b.wr - b.rd) : Unread(b)[i] = b.inp[b.rd + i]
  BY UnreadFacts
<1>2. /\ Unread(c) \in Seq(Byte) /\ Len(Unread(c)) = c.wr - c.rd
      /\ \A i \in 1..(c.wr - c.rd) : Unread(c)[i] = c.inp[c.rd + i]
  BY UnreadFacts
<1>3. \A i \in 1..Len(Unread(c)) : Unread(c)[i] = Unread(b)[i]
  BY <1>1, <1>2
<1> QED
  BY <1>1, <1>2, <1>3, SeqEqual

LEMMA CopyToFacts ==
  ASSUME NEW b \in Buffer, NEW at \in Nat, NEW bytes \in Seq(Byte), at + Len(bytes) <= Len(b.inp)
  PROVE  /\ CopyTo(b, at, bytes) \in Seq(Byte) /\ Len(CopyTo(b, at, bytes)) = Len(b.inp)
         /\ \A i \in 1..Len(b.inp) : ~(i \in (at + 1)..(at + Len(bytes))) =>
              CopyTo(b, at, bytes)[i] = b.inp[i]
         /\ \A j \in 1..Len(bytes) : CopyTo(b, at, bytes)[at + j] = bytes[j]
<1> DEFINE n == Len(b.inp)
           copied == CopyTo(b, at, bytes)
<1>1. b.inp \in Seq(Byte) /\ n \in Nat /\ Len(bytes) \in Nat
  BY DEF Buffer
<1>2. copied = [i \in 1..n |-> IF i \in (at + 1)..(at + Len(bytes)) THEN bytes[i - at] ELSE b.inp[i]]
  BY DEF CopyTo
<1>3. \A i \in 1..n : (IF i \in (at + 1)..(at + Len(bytes)) THEN bytes[i - at] ELSE b.inp[i]) \in Byte
  <2> TAKE i \in 1..n
  <2>1. CASE i \in (at + 1)..(at + Len(bytes))
    <3>1. i - at \in 1..Len(bytes)
      BY <1>1, <2>1
    <3> QED
      BY <2>1, <3>1
  <2>2. CASE i \notin (at + 1)..(at + Len(bytes))
    BY <1>1, <2>2
  <2> QED
    BY <2>1, <2>2
<1>4. copied \in [1..n -> Byte]
  BY <1>2, <1>3
<1>5. copied \in Seq(Byte) /\ Len(copied) = n
  <2> HIDE DEF copied, n
  <2> QED
    BY <1>1, <1>4
<1>6. \A j \in 1..Len(bytes) : copied[at + j] = bytes[j]
  <2> TAKE j \in 1..Len(bytes)
  <2>1. at + j \in 1..n /\ at + j \in (at + 1)..(at + Len(bytes)) /\ (at + j) - at = j
    BY <1>1
  <2> QED
    BY <1>2, <2>1
<1> QED
  BY <1>2, <1>5, <1>6

(* Moving the bytes to the front *)
LEMMA CompactGood ==
  ASSUME NEW b, Good(b)
  PROVE  /\ Good(Compact(b)) /\ Len(Compact(b).inp) = Len(b.inp)
         /\ Compact(b).wr = b.wr - b.rd
         /\ Unread(Compact(b)) = Unread(b)
<1> DEFINE c == Compact(b)
<1>0. b \in Buffer /\ b.inp \in Seq(Byte) /\ b.rd \in Nat /\ b.wr \in Nat /\ b.rd <= b.wr
      /\ b.wr <= Len(b.inp) /\ Len(b.inp) \in Nat
  BY DEF Good, Buffer
<1>1. /\ Unread(b) \in Seq(Byte) /\ Len(Unread(b)) = b.wr - b.rd
      /\ \A i \in 1..(b.wr - b.rd) : Unread(b)[i] = b.inp[b.rd + i]
  BY UnreadFacts
<1>2. /\ c.inp = CopyTo(b, 0, Unread(b)) /\ c.rd = 0 /\ c.wr = b.wr - b.rd
      /\ c = [inp |-> c.inp, rd |-> 0, wr |-> b.wr - b.rd]
  BY DEF Compact
<1>3. 0 + Len(Unread(b)) <= Len(b.inp)
  BY <1>0, <1>1
<1>4. /\ c.inp \in Seq(Byte) /\ Len(c.inp) = Len(b.inp)
      /\ \A j \in 1..Len(Unread(b)) : c.inp[0 + j] = Unread(b)[j]
  <2> HIDE DEF c
  <2>1. PICK at \in Nat : at = 0
    OBVIOUS
  <2>2. /\ CopyTo(b, at, Unread(b)) \in Seq(Byte) /\ Len(CopyTo(b, at, Unread(b))) = Len(b.inp)
        /\ \A j \in 1..Len(Unread(b)) : CopyTo(b, at, Unread(b))[at + j] = Unread(b)[j]
    BY <1>0, <1>1, <1>3, <2>1, CopyToFacts
  <2> QED
    BY <1>2, <2>1, <2>2
<1> HIDE DEF c
<1>5. Good(c)
  BY <1>0, <1>2, <1>4 DEF Good, Buffer
<1>6. \A i \in 1..(b.wr - b.rd) : c.inp[c.rd + i] = b.inp[b.rd + i]
  BY <1>1, <1>2, <1>4
<1>7. c.wr - c.rd = b.wr - b.rd
  BY <1>0, <1>2
<1>8. Unread(c) = Unread(b)
  BY <1>5, <1>6, <1>7, UnreadSame
<1> QED
  BY <1>2, <1>4, <1>5, <1>8 DEF c

(* Growing the buffer *)
LEMMA ExtendGood ==
  ASSUME NEW b, Good(b), NEW max \in Nat, NEW spare \in Nat
  PROVE  /\ Good(Extend(b, max, spare)) /\ Fits(Extend(b, max, spare), max)
         /\ Unread(Extend(b, max, spare)) = Unread(b)
<1> DEFINE end == IF b.wr > max THEN b.wr + max ELSE max * 2
           c == Extend(b, max, spare)
           more == [i \in 1..(end + spare - Len(b.inp)) |-> 0]
<1>0. b \in Buffer /\ b.inp \in Seq(Byte) /\ b.rd \in Nat /\ b.wr \in Nat /\ b.rd <= b.wr
      /\ b.wr <= Len(b.inp) /\ Len(b.inp) \in Nat
  BY DEF Good, Buffer
<1>1. end \in Nat /\ b.wr + max <= end
  BY <1>0
<1>2. CASE Len(b.inp) < end
  <2>1. c = [b EXCEPT !.inp = @ \o more]
    BY <1>2 DEF Extend
  <2>2. c.inp = b.inp \o more /\ c.rd = b.rd /\ c.wr = b.wr /\ c = [inp |-> b.inp \o more, rd |-> b.rd, wr |-> b.wr]
    BY <1>0, <2>1 DEF Buffer
  <2> HIDE DEF end, c
  <2> DEFINE n == end + spare - Len(b.inp)
  <2>3. n \in Nat
    BY <1>0, <1>1, <1>2
  <2>4. 0 \in Byte
    BY BoundsAssumption DEF Byte
  <2>5. more \in [1..n -> Byte]
    BY <2>4
  <2>6. more \in Seq(Byte) /\ Len(more) = n
    <3> HIDE DEF n, more
    <3> QED
      BY <2>3, <2>5
  <2> HIDE DEF more
  <2>7. /\ c.inp \in Seq(Byte) /\ Len(c.inp) = Len(b.inp) + n
        /\ \A i \in 1..Len(b.inp) : c.inp[i] = b.inp[i]
    BY <1>0, <2>2, <2>3, <2>6, ConcatProperties
  <2>8. Good(c) /\ Fits(c, max)
    BY <1>0, <1>1, <2>2, <2>7 DEF Good, Buffer, Fits
  <2>9. \A i \in 1..(b.wr - b.rd) : c.inp[c.rd + i] = b.inp[b.rd + i]
    BY <1>0, <2>2, <2>7
  <2>10. Unread(c) = Unread(b)
    BY <1>0, <2>2, <2>8, <2>9, UnreadSame
  <2> QED
    BY <2>8, <2>10 DEF c
<1>3. CASE ~(Len(b.inp) < end)
  <2>1. c = b
    BY <1>3 DEF Extend
  <2>2. Fits(b, max)
    <3> HIDE DEF end
    <3> QED
      BY <1>0, <1>1, <1>3 DEF Fits
  <2> QED
    BY <2>1, <2>2
<1> QED
  BY <1>2, <1>3

(* inp_makespace makes the space asked for and keeps what is unread. *)
LEMMA MakeSpaceGood ==
  ASSUME NEW b, Good(b), NEW max \in Nat, NEW spare \in Nat
  PROVE  /\ Good(MakeSpace(b, max, spare)) /\ Fits(MakeSpace(b, max, spare), max)
         /\ Unread(MakeSpace(b, max, spare)) = Unread(b)
<1> DEFINE b1 == IF b.rd = b.wr THEN [b EXCEPT !.rd = 0, !.wr = 0] ELSE b
<1>1. Good(b1) /\ Unread(b1) = Unread(b)
  <2>1. CASE b.rd = b.wr
    <3>0. /\ b.inp \in Seq(Byte) /\ Len(b.inp) \in Nat /\ b.rd \in Nat /\ b.wr \in Nat
      BY DEF Good, Buffer
    <3>1. b1.inp = b.inp /\ b1.rd = 0 /\ b1.wr = 0 /\ b1 \in Buffer
      BY <2>1 DEF Good, Buffer
    <3> HIDE DEF b1
    <3>2. Good(b1)
      BY <3>0, <3>1 DEF Good
    <3>3. b1.wr - b1.rd = b.wr - b.rd /\ \A i \in 1..(b.wr - b.rd) : FALSE
      BY <2>1, <3>0, <3>1
    <3> QED
      BY <3>2, <3>3, UnreadSame
  <2>2. CASE b.rd # b.wr
    BY <2>2
  <2> QED
    BY <2>1, <2>2
<1>2. MakeSpace(b, max, spare) =
        IF Fits(b1, max) THEN b1
        ELSE IF Fits(Compact(b1), max) THEN Compact(b1) ELSE Extend(Compact(b1), max, spare)
  BY DEF MakeSpace
<1> HIDE DEF b1
<1>3. Good(Compact(b1)) /\ Unread(Compact(b1)) = Unread(b)
  BY <1>1, CompactGood
<1>4. /\ Good(Extend(Compact(b1), max, spare)) /\ Fits(Extend(Compact(b1), max, spare), max)
      /\ Unread(Extend(Compact(b1), max, spare)) = Unread(b)
  BY <1>3, ExtendGood
<1> QED
  BY <1>1, <1>2, <1>3, <1>4

(* read: bytes are added at the end. *)
LEMMA FillGood ==
  ASSUME NEW b, Good(b), NEW bytes \in Seq(Byte), b.wr + Len(bytes) <= Len(b.inp), NEW c,
         c = [b EXCEPT !.inp = CopyTo(b, b.wr, bytes), !.wr = @ + Len(bytes)]
  PROVE  Good(c) /\ Unread(c) = Unread(b) \o bytes
<1>0. b \in Buffer /\ b.inp \in Seq(Byte) /\ b.rd \in Nat /\ b.wr \in Nat /\ b.rd <= b.wr
      /\ b.wr <= Len(b.inp) /\ Len(b.inp) \in Nat /\ Len(bytes) \in Nat
  BY DEF Good, Buffer
<1>1. /\ CopyTo(b, b.wr, bytes) \in Seq(Byte) /\ Len(CopyTo(b, b.wr, bytes)) = Len(b.inp)
      /\ \A i \in 1..Len(b.inp) : ~(i \in (b.wr + 1)..(b.wr + Len(bytes))) =>
           CopyTo(b, b.wr, bytes)[i] = b.inp[i]
      /\ \A j \in 1..Len(bytes) : CopyTo(b, b.wr, bytes)[b.wr + j] = bytes[j]
  BY <1>0, CopyToFacts
<1>2. c.inp = CopyTo(b, b.wr, bytes) /\ c.rd = b.rd /\ c.wr = b.wr + Len(bytes) /\ c \in Buffer
  <2>1. b.wr + Len(bytes) \in Nat /\ CopyTo(b, b.wr, bytes) \in Seq(Byte)
    BY <1>0, <1>1
  <2> QED
    BY <1>0, <2>1 DEF Buffer
<1>3. Good(c)
  BY <1>0, <1>1, <1>2 DEF Good
<1> DEFINE n == b.wr - b.rd
<1>4. /\ Unread(b) \in Seq(Byte) /\ Len(Unread(b)) = n /\ n \in Nat
      /\ \A i \in 1..n : Unread(b)[i] = b.inp[b.rd + i]
  BY <1>0, UnreadFacts
<1>5. /\ Unread(c) \in Seq(Byte) /\ Len(Unread(c)) = n + Len(bytes)
      /\ \A i \in 1..(n + Len(bytes)) : Unread(c)[i] = c.inp[b.rd + i]
  <2>1. c.wr - c.rd = n + Len(bytes)
    BY <1>0, <1>2
  <2>2. /\ Unread(c) \in Seq(Byte) /\ Len(Unread(c)) = c.wr - c.rd
        /\ \A i \in 1..(c.wr - c.rd) : Unread(c)[i] = c.inp[c.rd + i]
    BY <1>3, UnreadFacts
  <2> HIDE DEF n
  <2> QED
    BY <1>2, <2>1, <2>2
<1>6. /\ Unread(b) \o bytes \in Seq(Byte) /\ Len(Unread(b) \o bytes) = n + Len(bytes)
      /\ \A i \in 1..(n + Len(bytes)) :
           (Unread(b) \o bytes)[i] = IF i <= n THEN Unread(b)[i] ELSE bytes[i - n]
  <2> DEFINE u == Unread(b)
  <2>1. u \in Seq(Byte) /\ Len(u) = n
    BY <1>4
  <2> HIDE DEF u, n
  <2>2. /\ u \o bytes \in Seq(Byte) /\ Len(u \o bytes) = Len(u) + Len(bytes)
        /\ \A i \in 1..(Len(u) + Len(bytes)) :
             (u \o bytes)[i] = IF i <= Len(u) THEN u[i] ELSE bytes[i - Len(u)]
    BY <2>1, ConcatProperties
  <2> QED
    BY <2>1, <2>2 DEF u
<1>7. ASSUME NEW i \in 1..(n + Len(bytes)) PROVE c.inp[b.rd + i] = (Unread(b) \o bytes)[i]
  <2>1. CASE i <= n
    <3>1. i \in 1..n /\ b.rd + i \in 1..Len(b.inp) /\ ~(b.rd + i \in (b.wr + 1)..(b.wr + Len(bytes)))
      BY <1>0, <2>1
    <3>2. c.inp[b.rd + i] = b.inp[b.rd + i]
      BY <1>1, <1>2, <3>1
    <3> HIDE DEF n
    <3> QED
      BY <1>4, <1>6, <2>1, <3>1, <3>2
  <2>2. CASE ~(i <= n)
    <3>1. i - n \in 1..Len(bytes) /\ b.rd + i = b.wr + (i - n)
      BY <1>0, <2>2
    <3> HIDE DEF n
    <3> QED
      BY <1>1, <1>2, <1>6, <2>2, <3>1
  <2> QED
    BY <2>1, <2>2
<1> HIDE DEF n
<1>8. Unread(c) = Unread(b) \o bytes
  BY <1>5, <1>6, <1>7, SeqEqual
<1> QED
  BY <1>3, <1>8

(* Bytes are taken at the front. *)
LEMMA TakeGood ==
  ASSUME NEW b, Good(b), NEW len \in 0..(b.wr - b.rd), NEW c, c = [b EXCEPT !.rd = @ + len]
  PROVE  /\ Good(c) /\ SubSeq(b.inp, b.rd + 1, b.rd + len) \in Seq(Byte)
         /\ SubSeq(b.inp, b.rd + 1, b.rd + len) \o Unread(c) = Unread(b)
<1>0. b \in Buffer /\ b.inp \in Seq(Byte) /\ b.rd \in Nat /\ b.wr \in Nat /\ b.rd <= b.wr
      /\ b.wr <= Len(b.inp) /\ Len(b.inp) \in Nat
  BY DEF Good, Buffer
<1>1. c.inp = b.inp /\ c.rd = b.rd + len /\ c.wr = b.wr /\ c \in Buffer
  BY <1>0 DEF Buffer
<1>2. Good(c)
  BY <1>0, <1>1 DEF Good
<1>3. SubSeq(b.inp, b.rd + 1, b.rd + len) \in Seq(Byte)
  <2>1. \A i \in (b.rd + 1)..(b.rd + len) : b.inp[i] \in Byte
    BY <1>0
  <2>2. b.rd + 1 \in Int /\ b.rd + len \in Int
    BY <1>0
  <2> QED
    BY <2>1, <2>2, SubSeqProperties
<1>4. SubSeq(b.inp, b.rd + 1, b.rd + len) \o SubSeq(b.inp, (b.rd + len) + 1, b.wr) =
        SubSeq(b.inp, b.rd + 1, b.wr)
  <2>1. /\ b.rd + 1 \in 1..(Len(b.inp) + 1)
        /\ b.rd + len \in ((b.rd + 1) - 1)..Len(b.inp)
        /\ b.wr \in (b.rd + len)..Len(b.inp)
    BY <1>0
  <2> QED
    BY <1>0, <2>1, ConcatAdjacentSubSeq
<1> QED
  BY <1>1, <1>2, <1>3, <1>4 DEF Unread

-----------------------------------------------------------------------------
(* The bytes *)

USE DEF outVars, flagVars, inVars

(* What the actor and the operating system hold of the two streams of bytes
   is, in order, all of them. *)
BytesInv == TypeOK /\ OutIntact /\ InIntact

LEMMA FreshStreams == NewStream \in Stream /\ NoStream \in Stream
<1>1. 0 \in 0..SndCap /\ 0 \in 0..MaxIn
  BY BoundsAssumption, CapsAssumption
<1>2. \A S : <<>> \in Seq(S)
  OBVIOUS
<1>3. <<>> \in Seq(1..MaxIn)
  BY <1>2
<1>4. NewStream \in Stream
  BY <1>1, <1>3 DEF NewStream, Stream
<1> QED
  BY <1>4 DEF NoStream, Stream

LEMMA InitBytes == Init => BytesInv
<1> SUFFICES ASSUME Init PROVE BytesInv
  OBVIOUS
<1>1. \A S : <<>> \in Seq(S)
  OBVIOUS
<1>2. TypeOK
  <2>1. 0 \in 0..MaxOut /\ 0 \in 0..MaxInits /\ 0 \in Nat
    BY BoundsAssumption
  <2>2. [inp |-> <<>>, rd |-> 0, wr |-> 0] \in [inp : Seq(0..MaxIn), rd : Nat, wr : Nat]
    BY <1>1, <2>1
  <2>3. <<>> \in Seq(1..MaxOut) /\ <<>> \in Seq(1..MaxIn)
    BY <1>1
  <2> QED
    BY <2>1, <2>2, <2>3, FreshStreams DEF Init, TypeOK
<1>3. OutIntact
  <2>1. wire \o out = <<>> /\ written = 0
    BY DEF Init
  <2>2. [i \in 1..0 |-> i] = <<>>
    OBVIOUS
  <2> QED
    BY <2>1, <2>2 DEF OutIntact
<1>4. InIntact
  <2>1. SubSeq(<<>>, 1, 0) = <<>>
    OBVIOUS
  <2> QED
    BY <2>1 DEF Init, InIntact, Unread
<1> QED
  BY <1>2, <1>3, <1>4 DEF BytesInv

(* The steps on a stream keep it one. *)
LEMMA OtherSideStream ==
  ASSUME k \in Stream, MoveOut \/ Arrive \/ PeerEof
  PROVE  k' \in Stream
<1>1. CASE MoveOut
  <2>1. k.nbuf - 1 \in 0..SndCap
    BY <1>1, CapsAssumption DEF MoveOut, Stream
  <2> QED
    BY <1>1, <2>1 DEF MoveOut, Stream
<1>2. CASE Arrive
  <2>1. k.peer + 1 \in 1..MaxIn /\ k.peer + 1 \in 0..MaxIn
    BY <1>2, BoundsAssumption DEF Arrive, Stream
  <2>2. Append(k.rbuf, k.peer + 1) \in Seq(1..MaxIn)
    BY <2>1 DEF Stream
  <2> QED
    BY <1>2, <2>1, <2>2 DEF Arrive, Stream
<1>3. CASE PeerEof
  BY <1>3 DEF PeerEof, Stream
<1> QED
  BY <1>1, <1>2, <1>3

LEMMA FlushStream ==
  ASSUME k \in Stream, nodelay \in BOOLEAN, flush \/ FlushStep
  PROVE  k' \in Stream
<1>1. CASE flush
  BY <1>1 DEF flush, Stream
<1>2. CASE flushNodelay
  BY <1>2 DEF flushNodelay, Stream
<1>3. CASE flushError
  BY <1>3 DEF flushError
<1>4. CASE flushWrite
  <2>1. PICK len \in 1..Len(out) : k.nbuf + len <= SndCap /\ k' = [k EXCEPT !.nbuf = @ + len]
    BY <1>4 DEF flushWrite
  <2>2. k.nbuf + len \in 0..SndCap
    BY <2>1, CapsAssumption DEF Stream
  <2> QED
    BY <2>1, <2>2 DEF Stream
<1>5. CASE flushShutdown
  BY <1>5 DEF flushShutdown, Stream
<1>6. CASE flushReturn
  BY <1>6 DEF flushReturn, Stream
<1> QED
  BY <1>1, <1>2, <1>3, <1>4, <1>5, <1>6 DEF FlushStep

(* The operating system and the peer change the stream alone. *)
LEMMA OtherSideBytes ==
  ASSUME BytesInv, MoveOut \/ Arrive \/ PeerEof
  PROVE  BytesInv'
<1>1. k' \in Stream
  BY OtherSideStream DEF BytesInv, TypeOK
<1>2. UNCHANGED <<outVars, flagVars, inVars, pc, must_flush>>
  BY DEF MoveOut, Arrive, PeerEof
<1> QED
  BY <1>1, <1>2 DEF BytesInv, TypeOK, OutIntact, InIntact, Unread

(* The settings and the calls that begin and end the use of a stream leave the
   bytes alone. *)
LEMMA SettingsBytes ==
  ASSUME BytesInv,
         init \/ deinit \/ (\E v \in BOOLEAN : set_nodelay(v) \/ pause_writes(v)) \/ writeEof \/ flush
         \/ flushNodelay \/ flushError \/ flushShutdown \/ flushReturn
  PROVE  BytesInv'
<1>1. NewStream \in Stream /\ NoStream \in Stream /\ k \in Stream
  BY FreshStreams DEF BytesInv, TypeOK
<1>2. UNCHANGED <<out, wire, written, ib, handed, taken>>
  BY DEF init, deinit, set_nodelay, pause_writes, writeEof, flush, flushNodelay, flushError,
         flushShutdown, flushReturn
<1>3. OutIntact' /\ InIntact'
  BY <1>2 DEF BytesInv, OutIntact, InIntact, Unread
<1>4. k' \in Stream
  <2>1. CASE init \/ deinit
    BY <1>1, <2>1 DEF init, deinit
  <2>2. CASE (\E v \in BOOLEAN : set_nodelay(v) \/ pause_writes(v)) \/ writeEof
    BY <1>1, <2>2 DEF set_nodelay, pause_writes, writeEof
  <2>3. CASE flush \/ FlushStep
    BY <1>1, <2>3, FlushStream DEF BytesInv, TypeOK
  <2> QED
    BY <2>1, <2>2, <2>3 DEF FlushStep
<1>5. TypeOK'
  <2>1. CASE init
    <3>1. inits' \in 0..MaxInits
      BY <2>1, BoundsAssumption DEF init, BytesInv, TypeOK
    <3> QED
      BY <1>2, <1>4, <2>1, <3>1 DEF init, BytesInv, TypeOK, PendingAfterInit, SentEofAfterInit
  <2>2. CASE deinit
    BY <1>2, <1>4, <2>2 DEF deinit, BytesInv, TypeOK
  <2>3. ASSUME NEW v \in BOOLEAN, set_nodelay(v) \/ pause_writes(v) PROVE TypeOK'
    BY <1>2, <1>4, <2>3 DEF set_nodelay, pause_writes, BytesInv, TypeOK
  <2>4. CASE writeEof
    BY <1>2, <1>4, <2>4 DEF writeEof, BytesInv, TypeOK
  <2>5. CASE flush
    BY <1>2, <1>4, <2>5 DEF flush, FlushEntry, BytesInv, TypeOK
  <2>6. CASE flushNodelay
    BY <1>2, <1>4, <2>6 DEF flushNodelay, BytesInv, TypeOK
  <2>7. CASE flushError
    BY <1>2, <1>4, <2>7 DEF flushError, BytesInv, TypeOK
  <2>8. CASE flushShutdown \/ flushReturn
    BY <1>2, <1>4, <2>8 DEF flushShutdown, flushReturn, BytesInv, TypeOK
  <2> QED
    BY <2>1, <2>2, <2>3, <2>4, <2>5, <2>6, <2>7, <2>8
<1> QED
  BY <1>3, <1>5 DEF BytesInv

(* The first n numbers, and one more *)
LEMMA OneMore ==
  ASSUME NEW n \in Nat
  PROVE  Append([i \in 1..n |-> i], n + 1) = [i \in 1..(n + 1) |-> i]
<1> DEFINE s == [i \in 1..n |-> i]
           t == [i \in 1..(n + 1) |-> i]
<1>1. s \in [1..n -> Nat] /\ t \in [1..(n + 1) -> Nat]
  OBVIOUS
<1>2. s \in Seq(Nat) /\ Len(s) = n
  <2> HIDE DEF s
  <2> QED
    BY <1>1
<1>3. t \in Seq(Nat) /\ Len(t) = n + 1
  <2> HIDE DEF t
  <2> QED
    BY <1>1
<1>4. \A i \in 1..n : s[i] = i
  OBVIOUS
<1>5. \A i \in 1..(n + 1) : t[i] = i
  OBVIOUS
<1> HIDE DEF s, t
<1>6. /\ Append(s, n + 1) \in Seq(Nat) /\ Len(Append(s, n + 1)) = n + 1
      /\ \A i \in 1..n : Append(s, n + 1)[i] = s[i]
      /\ Append(s, n + 1)[n + 1] = n + 1
  BY <1>2, AppendProperties
<1>7. \A i \in 1..(n + 1) : Append(s, n + 1)[i] = t[i]
  BY <1>4, <1>5, <1>6
<1>8. Append(s, n + 1) = t
  BY <1>3, <1>6, <1>7, SeqEqual
<1> QED
  BY <1>8 DEF s, t

LEMMA WriteBytes == ASSUME BytesInv, write PROVE BytesInv'
<1>1. /\ out \in Seq(1..MaxOut) /\ wire \in Seq(1..MaxOut) /\ written \in Nat
      /\ written + 1 \in 1..MaxOut /\ written + 1 \in 0..MaxOut
      /\ out' = Append(out, written + 1) /\ wire' = wire /\ written' = written + 1
  BY BoundsAssumption DEF write, BytesInv, TypeOK
<1>2. out' \in Seq(1..MaxOut)
  BY <1>1
<1>3. TypeOK'
  BY <1>1, <1>2 DEF write, BytesInv, TypeOK
<1>4. wire \o Append(out, written + 1) = Append(wire \o out, written + 1)
  <2>1. Append(out, written + 1) = out \o <<written + 1>>
    BY <1>1, AppendIsConcat
  <2>2. <<written + 1>> \in Seq(1..MaxOut)
    BY <1>1
  <2>3. (wire \o out) \o <<written + 1>> = wire \o (out \o <<written + 1>>)
    BY <1>1, <2>2, ConcatAssociative
  <2>4. wire \o out \in Seq(1..MaxOut)
    BY <1>1, ConcatProperties
  <2>5. Append(wire \o out, written + 1) = (wire \o out) \o <<written + 1>>
    BY <1>1, <2>4, AppendIsConcat
  <2> QED
    BY <2>1, <2>3, <2>5
<1>5. OutIntact'
  BY <1>1, <1>4, OneMore DEF BytesInv, OutIntact
<1>6. InIntact'
  BY DEF write, BytesInv, InIntact, Unread
<1> QED
  BY <1>3, <1>5, <1>6 DEF BytesInv

(* Bytes moved from the front of one sequence to the end of another *)
LEMMA Moved ==
  ASSUME NEW S, NEW s \in Seq(S), NEW t \in Seq(S), NEW len \in 0..Len(t)
  PROVE  /\ SubSeq(t, 1, len) \in Seq(S) /\ Len(SubSeq(t, 1, len)) = len
         /\ s \o SubSeq(t, 1, len) \in Seq(S) /\ SubSeq(t, len + 1, Len(t)) \in Seq(S)
         /\ SubSeq(t, 1, len) \o SubSeq(t, len + 1, Len(t)) = t
<1> DEFINE first == SubSeq(t, 1, len)
           rest == SubSeq(t, len + 1, Len(t))
<1>1. Len(t) \in Nat /\ len \in Int /\ len + 1 \in Int /\ 1 \in Int
  OBVIOUS
<1>2. first \in Seq(S) /\ rest \in Seq(S) /\ Len(first) = len
  <2>1. \A i \in 1..len : t[i] \in S
    BY <1>1
  <2>2. \A i \in (len + 1)..Len(t) : t[i] \in S
    BY <1>1
  <2>3. first \in Seq(S) /\ Len(first) = IF 1 <= len THEN len - 1 + 1 ELSE 0
    BY <1>1, <2>1, SubSeqProperties
  <2>4. rest \in Seq(S)
    BY <1>1, <2>2, SubSeqProperties
  <2> HIDE DEF first, rest
  <2> QED
    BY <2>3, <2>4
<1>3. first \o rest = t
  <2>1. 1 \in 1..(Len(t) + 1) /\ len \in (1 - 1)..Len(t) /\ Len(t) \in len..Len(t)
    BY <1>1
  <2>2. SubSeq(t, 1, len) \o SubSeq(t, len + 1, Len(t)) = SubSeq(t, 1, Len(t))
    BY <2>1, ConcatAdjacentSubSeq
  <2> QED
    BY <2>2, SubSeqFull
<1> HIDE DEF first, rest
<1>4. s \o first \in Seq(S)
  BY <1>2, ConcatProperties
<1> QED
  BY <1>2, <1>3, <1>4 DEF first, rest

(* A write that takes a part of the buffer *)
LEMMA FlushWriteBytes == ASSUME BytesInv, flushWrite PROVE BytesInv'
<1>1. /\ out \in Seq(1..MaxOut) /\ wire \in Seq(1..MaxOut) /\ k \in Stream /\ Len(out) \in Nat
  BY DEF BytesInv, TypeOK
<1>2. PICK len \in 1..Len(out) :
         /\ k.nbuf + len <= SndCap
         /\ k' = [k EXCEPT !.nbuf = @ + len]
         /\ wire' = wire \o SubSeq(out, 1, len)
         /\ out' = SubSeq(out, len + 1, Len(out))
  BY DEF flushWrite, Drained
<1>3. k' \in Stream
  BY FlushStream DEF BytesInv, TypeOK, FlushStep
<1>4. wire' \in Seq(1..MaxOut) /\ out' \in Seq(1..MaxOut) /\ wire' \o out' = wire \o out
  <2> DEFINE S == 1..MaxOut
  <2>1. len \in 0..Len(out) /\ out \in Seq(S) /\ wire \in Seq(S)
    BY <1>1
  <2> HIDE DEF S
  <2> DEFINE first == SubSeq(out, 1, len)
             rest == SubSeq(out, len + 1, Len(out))
  <2>2. first \in Seq(S) /\ wire \o first \in Seq(S) /\ rest \in Seq(S)
    BY <2>1, Moved
  <2>3. first \o rest = out
    BY <2>1, Moved
  <2>4. wire' = wire \o first /\ out' = rest
    BY <1>2
  <2> HIDE DEF first, rest
  <2>5. (wire \o first) \o rest = wire \o (first \o rest)
    <3>1. wire \in Seq(S) /\ first \in Seq(S) /\ rest \in Seq(S)
      BY <2>1, <2>2
    <3> QED
      BY <3>1, ConcatAssociative
  <2> QED
    BY <2>2, <2>3, <2>4, <2>5 DEF S
<1>5. TypeOK'
  BY <1>3, <1>4 DEF flushWrite, BytesInv, TypeOK
<1>6. OutIntact' /\ InIntact'
  BY <1>4 DEF flushWrite, BytesInv, OutIntact, InIntact, Unread
<1> QED
  BY <1>5, <1>6 DEF BytesInv

(* What is unread is what was handed over and not taken, so it is made of
   bytes of the peer. *)
LEMMA TakenTyped ==
  ASSUME NEW S, NEW T, NEW s \in Seq(T), NEW t \in Seq(T), s \o t \in Seq(S)
  PROVE  s \in Seq(S) /\ t \in Seq(S)
<1> DEFINE u == s \o t
<1>1. /\ Len(s) \in Nat /\ Len(t) \in Nat /\ Len(u) = Len(s) + Len(t)
      /\ \A i \in 1..(Len(s) + Len(t)) : u[i] = IF i <= Len(s) THEN s[i] ELSE t[i - Len(s)]
  BY ConcatProperties
<1> HIDE DEF u
<1>2. u \in Seq(S)
  BY DEF u
<1>3. ASSUME NEW i \in 1..Len(s) PROVE s[i] \in S
  <2>1. i \in 1..Len(u) /\ i \in 1..(Len(s) + Len(t)) /\ i <= Len(s)
    BY <1>1
  <2>2. u[i] \in S /\ u[i] = s[i]
    BY <1>1, <1>2, <2>1
  <2> QED
    BY <2>2
<1>4. ASSUME NEW i \in 1..Len(t) PROVE t[i] \in S
  <2>1. /\ Len(s) + i \in 1..Len(u) /\ Len(s) + i \in 1..(Len(s) + Len(t))
        /\ ~(Len(s) + i <= Len(s)) /\ (Len(s) + i) - Len(s) = i
    BY <1>1
  <2>2. u[Len(s) + i] \in S /\ u[Len(s) + i] = t[i]
    BY <1>1, <1>2, <2>1
  <2> QED
    BY <2>2
<1>5. s \in [1..Len(s) -> S] /\ t \in [1..Len(t) -> S]
  BY <1>3, <1>4
<1> QED
  BY <1>1, <1>5

LEMMA WiderSeq ==
  ASSUME NEW S, NEW T, \A x \in S : x \in T, NEW s \in Seq(S)
  PROVE  s \in Seq(T)
<1>1. Len(s) \in Nat /\ \A i \in 1..Len(s) : s[i] \in S
  OBVIOUS
<1>2. s \in [1..Len(s) -> T]
  BY <1>1
<1> QED
  BY <1>1, <1>2

(* Pieces of a stream of bytes, whichever way they are put together *)
LEMMA BytePieces == \A a, b, c \in Seq(Byte) : (a \o b) \o c = a \o (b \o c)
<1> SUFFICES ASSUME NEW a \in Seq(Byte), NEW b \in Seq(Byte), NEW c \in Seq(Byte)
             PROVE  (a \o b) \o c = a \o (b \o c)
  OBVIOUS
<1> QED
  BY ConcatAssociative

LEMMA BytesTyped == \A s \in Seq(1..MaxIn) : s \in Seq(Byte)
<1> DEFINE S == 1..MaxIn
<1>1. \A x \in S : x \in Byte
  BY BoundsAssumption DEF Byte
<1> HIDE DEF S
<1>2. \A s \in Seq(S) : s \in Seq(Byte)
  BY <1>1, WiderSeq
<1> QED
  BY <1>2 DEF S

(* The buffer, seen through Good *)
LEMMA BufferGood ==
  ASSUME BytesInv
  PROVE  Good(ib)
BY DEF BytesInv, TypeOK, InIntact, Good, Buffer, Byte

(* A read keeps the buffer in order and adds what it got from the socket. *)
LEMMA ReadNoDataGood ==
  ASSUME Good(ib), k \in Stream, NEW max \in Nat, NEW spare \in Nat,
         readEof(max, spare) \/ readWouldBlock(max, spare) \/ readError(max, spare)
  PROVE  Good(ib') /\ Unread(ib') = Unread(ib) /\ k' \in Stream
<1>1. ib' = MakeSpace(ib, max, spare)
  BY DEF readEof, readWouldBlock, readError
<1>2. Good(ib') /\ Unread(ib') = Unread(ib)
  BY <1>1, MakeSpaceGood
<1>3. (stream /\ k.rbuf = <<>> /\ ~k.fin) \in BOOLEAN
  OBVIOUS
<1>4. CASE readEof(max, spare)
  BY <1>2, <1>4 DEF readEof, Stream
<1>5. CASE readWouldBlock(max, spare)
  BY <1>2, <1>3, <1>5 DEF readWouldBlock, Stream
<1>6. CASE readError(max, spare)
  BY <1>2, <1>6 DEF readError
<1> QED
  BY <1>4, <1>5, <1>6

LEMMA ReadDataGood ==
  ASSUME Good(ib), k \in Stream, NEW max \in Nat, NEW spare \in Nat, readData(max, spare)
  PROVE  /\ Good(ib') /\ k' \in Stream
         /\ \E new \in Seq(1..MaxIn) : handed' = handed \o new /\ Unread(ib') = Unread(ib) \o new
                                      /\ new \o k'.rbuf = k.rbuf /\ new # <<>>
<1> DEFINE b == MakeSpace(ib, max, spare)
<1>1. PICK len \in 1..Len(k.rbuf) :
        /\ len <= max
        /\ ib' = [b EXCEPT !.inp = CopyTo(b, b.wr, SubSeq(k.rbuf, 1, len)), !.wr = @ + len]
        /\ handed' = handed \o SubSeq(k.rbuf, 1, len)
        /\ k' = [k EXCEPT !.rbuf = SubSeq(@, len + 1, Len(@)), !.readable = FALSE]
  BY DEF readData
<1>2. Good(b) /\ Fits(b, max) /\ Unread(b) = Unread(ib)
  BY MakeSpaceGood
<1> HIDE DEF b
<1>3. k.rbuf \in Seq(1..MaxIn) /\ Len(k.rbuf) \in Nat
  BY DEF Stream
<1> DEFINE new == SubSeq(k.rbuf, 1, len)
           left == SubSeq(k.rbuf, len + 1, Len(k.rbuf))
<1>4. new \in Seq(1..MaxIn) /\ Len(new) = len /\ left \in Seq(1..MaxIn) /\ new \o left = k.rbuf
  <2> DEFINE S == 1..MaxIn
  <2>1. len \in 0..Len(k.rbuf) /\ k.rbuf \in Seq(S)
    BY <1>3
  <2> HIDE DEF S
  <2>2. new \in Seq(S) /\ Len(new) = len /\ left \in Seq(S)
    BY <2>1, Moved
  <2>3. new \o left = k.rbuf
    BY <2>1, Moved
  <2> QED
    BY <2>2, <2>3 DEF S
<1>5. ib' = [b EXCEPT !.inp = CopyTo(b, b.wr, new), !.wr = @ + Len(new)] /\ handed' = handed \o new
  BY <1>1, <1>4
<1>6. k' = [k EXCEPT !.rbuf = left, !.readable = FALSE]
  BY <1>1
<1> HIDE DEF new, left
<1>7. new \in Seq(Byte)
  BY <1>4, BytesTyped
<1>8. b.wr + Len(new) <= Len(b.inp)
  <2>1. b.wr \in Nat /\ Len(b.inp) \in Nat /\ len \in Nat
    BY <1>2, <1>3 DEF Good, Buffer
  <2> QED
    BY <1>1, <1>2, <1>4, <2>1 DEF Fits
<1>9. Good(ib') /\ Unread(ib') = Unread(b) \o new
  BY <1>2, <1>5, <1>7, <1>8, FillGood
<1>10. k' \in Stream /\ k'.rbuf = left
  BY <1>4, <1>6 DEF Stream
<1>11. new \o k'.rbuf = k.rbuf
  BY <1>4, <1>10
<1>12. new # <<>>
  <2>1. Len(new) >= 1 /\ Len(<<>>) = 0
    BY <1>3, <1>4
  <2> QED
    BY <2>1
<1> QED
  BY <1>2, <1>4, <1>5, <1>9, <1>10, <1>11, <1>12

LEMMA ReadNoDataBytes ==
  ASSUME BytesInv, NEW max \in Nat, NEW spare \in Nat,
         readEof(max, spare) \/ readWouldBlock(max, spare) \/ readError(max, spare)
  PROVE  BytesInv'
<1>1. Good(ib') /\ Unread(ib') = Unread(ib) /\ k' \in Stream
  BY BufferGood, ReadNoDataGood DEF BytesInv, TypeOK
<1>2. UNCHANGED <<handed, taken>> /\ UNCHANGED outVars
  BY DEF readEof, readWouldBlock, readError
<1>3. InIntact'
  BY <1>1, <1>2 DEF BytesInv, InIntact, Good, Unread
<1>4. OutIntact'
  BY <1>2 DEF BytesInv, OutIntact
<1>5. ib' \in [inp : Seq(0..MaxIn), rd : Nat, wr : Nat]
  BY <1>1 DEF Good, Buffer, Byte
<1>6. TypeOK'
  BY <1>1, <1>2, <1>5 DEF readEof, readWouldBlock, readError, BytesInv, TypeOK
<1> QED
  BY <1>3, <1>4, <1>6 DEF BytesInv

LEMMA ReadDataBytes ==
  ASSUME BytesInv, NEW max \in Nat, NEW spare \in Nat, readData(max, spare)
  PROVE  BytesInv'
<1>1. handed \in Seq(1..MaxIn) /\ taken \in Seq(1..MaxIn) /\ handed = taken \o Unread(ib)
  BY DEF BytesInv, TypeOK, InIntact
<1>2. /\ Good(ib') /\ k' \in Stream
      /\ \E new \in Seq(1..MaxIn) : handed' = handed \o new /\ Unread(ib') = Unread(ib) \o new
  BY BufferGood, ReadDataGood DEF BytesInv, TypeOK
<1>3. PICK new \in Seq(1..MaxIn) : handed' = handed \o new /\ Unread(ib') = Unread(ib) \o new
  BY <1>2
<1>4. new \in Seq(Byte) /\ taken \in Seq(Byte)
  BY <1>1, <1>3, BytesTyped
<1>5. handed' \in Seq(1..MaxIn)
  <2> DEFINE S == 1..MaxIn
  <2>1. handed \in Seq(S) /\ new \in Seq(S)
    BY <1>1, <1>3
  <2> HIDE DEF S
  <2>2. handed \o new \in Seq(S)
    BY <2>1, ConcatProperties
  <2> QED
    BY <1>3, <2>2 DEF S
<1>6. handed' = taken \o Unread(ib')
  <2>1. Unread(ib) \in Seq(Byte)
    BY BufferGood, UnreadFacts
  <2>2. (taken \o Unread(ib)) \o new = taken \o (Unread(ib) \o new)
    BY <1>4, <2>1, BytePieces
  <2> QED
    BY <1>1, <1>3, <2>2
<1>7. UNCHANGED <<outVars, flagVars, inp_eof, taken, pc, must_flush>> /\ must_read' = TRUE
  BY DEF readData
<1>8. InIntact'
  BY <1>2, <1>6, <1>7 DEF InIntact, Good, Unread
<1>9. TypeOK'
  <2>1. ib' \in [inp : Seq(0..MaxIn), rd : Nat, wr : Nat]
    BY <1>2 DEF Good, Buffer, Byte
  <2> QED
    BY <1>2, <1>5, <1>7, <2>1 DEF BytesInv, TypeOK
<1>10. OutIntact'
  BY <1>7 DEF BytesInv, OutIntact
<1> QED
  BY <1>8, <1>9, <1>10 DEF BytesInv

LEMMA TakeBytes == ASSUME BytesInv, NEW n \in Nat, take(n) PROVE BytesInv'
<1> DEFINE len == IF n <= ib.wr - ib.rd THEN n ELSE ib.wr - ib.rd
           first == SubSeq(ib.inp, ib.rd + 1, ib.rd + len)
<1>1. taken' = taken \o first /\ ib' = [ib EXCEPT !.rd = @ + len]
  BY DEF take
<1>2. len \in 0..(ib.wr - ib.rd)
  <2>1. ib.wr \in Nat /\ ib.rd \in Nat /\ ib.rd <= ib.wr
    BY BufferGood DEF Good, Buffer
  <2> QED
    BY <2>1
<1>3. taken \in Seq(1..MaxIn) /\ handed \in Seq(1..MaxIn) /\ handed = taken \o Unread(ib)
  BY DEF BytesInv, TypeOK, InIntact
<1> HIDE DEF len
<1>4. Good(ib') /\ first \in Seq(Byte) /\ first \o Unread(ib') = Unread(ib)
  BY <1>1, <1>2, BufferGood, TakeGood
<1> HIDE DEF first
<1>5. taken \in Seq(Byte)
  BY <1>3, BytesTyped
<1>6. Unread(ib') \in Seq(Byte)
  BY <1>4, UnreadFacts
<1>7. handed = taken' \o Unread(ib') /\ taken' \in Seq(Byte)
  <2>0. first \in Seq(Byte)
    BY <1>4
  <2>1. (taken \o first) \o Unread(ib') = taken \o (first \o Unread(ib'))
    BY <1>5, <1>6, <2>0, BytePieces
  <2>2. taken \o first \in Seq(Byte)
    BY <1>4, <1>5, ConcatProperties
  <2> QED
    BY <1>1, <1>3, <1>4, <2>1, <2>2
<1>8. taken' \in Seq(1..MaxIn)
  <2> DEFINE S == 1..MaxIn
  <2>1. taken' \o Unread(ib') \in Seq(S)
    BY <1>3, <1>7
  <2> HIDE DEF S
  <2>2. taken' \in Seq(S)
    BY <1>6, <1>7, <2>1, TakenTyped
  <2> QED
    BY <2>2 DEF S
<1>9. handed' = handed /\ UNCHANGED <<outVars, flagVars, inp_eof, must_read, pc, must_flush, k>>
  BY DEF take
<1>10. InIntact'
  BY <1>4, <1>7, <1>9 DEF InIntact, Good, Unread
<1>11. TypeOK'
  <2>1. ib' \in [inp : Seq(0..MaxIn), rd : Nat, wr : Nat]
    BY <1>4 DEF Good, Buffer, Byte
  <2> QED
    BY <1>8, <1>9, <2>1 DEF BytesInv, TypeOK
<1>12. OutIntact'
  BY <1>9 DEF BytesInv, OutIntact
<1> QED
  BY <1>10, <1>11, <1>12 DEF BytesInv

LEMMA NextBytes == ASSUME BytesInv, [Next]_vars PROVE BytesInv'
<1>1. CASE MoveOut \/ Arrive \/ PeerEof
  BY <1>1, OtherSideBytes
<1>2. CASE init \/ deinit \/ (\E v \in BOOLEAN : set_nodelay(v) \/ pause_writes(v)) \/ writeEof \/ flush
           \/ flushNodelay \/ flushError \/ flushShutdown \/ flushReturn
  BY <1>2, SettingsBytes
<1>3. CASE write
  BY <1>3, WriteBytes
<1>4. CASE flushWrite
  BY <1>4, FlushWriteBytes
<1>5. ASSUME NEW max \in Maxes, NEW spare \in Spare, ReadStep(max, spare) PROVE BytesInv'
  <2>1. max \in Nat /\ spare \in Nat
    BY ArgsAssumption
  <2> QED
    BY <1>5, <2>1, ReadDataBytes, ReadNoDataBytes DEF ReadStep
<1>6. ASSUME NEW n \in Maxes, take(n) PROVE BytesInv'
  BY <1>6, ArgsAssumption, TakeBytes
<1>7. CASE UNCHANGED vars
  BY <1>7 DEF vars, BytesInv, TypeOK, OutIntact, InIntact, Unread
<1> QED
  BY <1>1, <1>2, <1>3, <1>4, <1>5, <1>6, <1>7 DEF Next, FlushStep

(* The bytes are accounted for in every state, through partial writes, errors,
   changes of the stream, and the moving and growing of `inp`. *)
THEOREM BytesInvariance == Spec => []BytesInv
<1>1. Init => BytesInv
  BY InitBytes
<1>2. BytesInv /\ [Next]_vars => BytesInv'
  BY NextBytes
<1> QED
  BY <1>1, <1>2, PTL DEF Spec

(* The variables keep their types: in particular the count of bytes in the
   socket stays within its capacity, and what the actor takes from `inp` is
   never the filling of new space, which is no byte of the peer. *)
THEOREM TypeCorrect == Spec => []TypeOK
<1>1. BytesInv => TypeOK
  BY DEF BytesInv
<1> QED
  BY <1>1, BytesInvariance, PTL

(* flush: the bytes written reach the operating system in order, none lost and
   none twice. *)
THEOREM OutputIntact == Spec => []OutIntact
<1>1. BytesInv => OutIntact
  BY DEF BytesInv
<1> QED
  BY <1>1, BytesInvariance, PTL

(* read and inp_makespace: the bytes received are those taken and those
   unread, in order, and the offsets stay in the buffer. *)
THEOREM InputIntact == Spec => []InIntact
<1>1. BytesInv => InIntact
  BY DEF BytesInv
<1> QED
  BY <1>1, BytesInvariance, PTL

-----------------------------------------------------------------------------
(* EOF *)

(* A flush works on a stream, and has sent EOF on the stream there is exactly
   if that stream is shut down. *)
EofOK ==
  /\ pc \in {"nodelay", "write"} => stream
  /\ stream => (sent_out_eof <=> k.shut)

LEMMA InitEof == Init => EofOK
BY DEF Init, EofOK

LEMMA NextEof == ASSUME TypeOK, EofOK, [Next]_vars PROVE EofOK'
<1>0. k \in Stream /\ stream \in BOOLEAN /\ sent_out_eof \in BOOLEAN
  BY DEF TypeOK
<1>1. CASE MoveOut \/ Arrive \/ PeerEof
  <2>1. k'.shut = k.shut /\ UNCHANGED <<pc, stream, sent_out_eof>>
    BY <1>0, <1>1 DEF MoveOut, Arrive, PeerEof, Stream
  <2> QED
    BY <2>1 DEF EofOK
<1>2. CASE init \/ deinit
  BY <1>2 DEF init, deinit, EofOK, SentEofAfterInit, NewStream
<1>3. ASSUME NEW v \in BOOLEAN, set_nodelay(v) \/ pause_writes(v) PROVE EofOK'
  BY <1>3 DEF set_nodelay, pause_writes, EofOK
<1>4. CASE write \/ writeEof
  BY <1>4 DEF write, writeEof, EofOK
<1>5. CASE flush
  <2>1. k'.shut = k.shut
    BY <1>0, <1>5 DEF flush, Stream
  <2> QED
    BY <1>0, <1>5, <2>1 DEF flush, FlushEntry, EofOK
<1>6. CASE flushNodelay
  <2>1. k'.shut = k.shut
    BY <1>0, <1>6 DEF flushNodelay, Stream
  <2> QED
    BY <1>6, <2>1 DEF flushNodelay, EofOK
<1>7. CASE flushError
  BY <1>7 DEF flushError, EofOK
<1>8. CASE flushWrite
  <2>1. k'.shut = k.shut
    BY <1>0, <1>8 DEF flushWrite, Stream
  <2> QED
    BY <1>8, <2>1 DEF flushWrite, EofOK
<1>9. CASE flushShutdown
  <2>1. k'.shut = TRUE
    BY <1>0, <1>9 DEF flushShutdown, Stream
  <2> QED
    BY <1>9, <2>1 DEF flushShutdown, EofOK
<1>10. CASE flushReturn
  <2>1. k'.shut = k.shut
    BY <1>0, <1>10 DEF flushReturn, Stream
  <2> QED
    BY <1>10, <2>1 DEF flushReturn, EofOK
<1>11. ASSUME NEW max \in Maxes, NEW spare \in Spare, ReadStep(max, spare) PROVE EofOK'
  <2>1. k'.shut = k.shut
    BY <1>0, <1>11 DEF ReadStep, readData, readEof, readWouldBlock, readError, Stream
  <2>2. UNCHANGED <<stream, sent_out_eof>> /\ (pc' = pc \/ pc' = "failed")
    BY <1>11 DEF ReadStep, readData, readEof, readWouldBlock, readError
  <2> QED
    BY <2>1, <2>2 DEF EofOK
<1>12. ASSUME NEW n \in Maxes, take(n) PROVE EofOK'
  BY <1>12 DEF take, EofOK
<1>13. CASE UNCHANGED vars
  BY <1>13 DEF vars, EofOK
<1> QED
  BY <1>1, <1>2, <1>3, <1>4, <1>5, <1>6, <1>7, <1>8, <1>9, <1>10, <1>11, <1>12, <1>13
     DEF Next, FlushStep

(* flush shuts a stream down only once all that was written has gone, and
   hands over no byte after it. *)
THEOREM EofComesLast == Spec => EofLast
<1>1. TypeOK /\ [Next]_vars =>
        [/\ k'.shut /\ ~k.shut => out' = <<>>
         /\ k'.shut /\ k.shut => UNCHANGED wire]_vars
  <2> SUFFICES ASSUME TypeOK, Next
               PROVE  /\ k'.shut /\ ~k.shut => out' = <<>>
                      /\ k'.shut /\ k.shut => UNCHANGED wire
    OBVIOUS
  <2>0. k \in Stream
    BY DEF TypeOK
  <2>1. CASE MoveOut \/ Arrive \/ PeerEof
    BY <2>0, <2>1 DEF MoveOut, Arrive, PeerEof, Stream
  <2>2. CASE init \/ deinit
    <3>1. NewStream.shut = FALSE /\ NoStream.shut = FALSE
      BY DEF NewStream, NoStream
    <3> QED
      BY <2>2, <3>1 DEF init, deinit
  <2>3. ASSUME NEW v \in BOOLEAN, set_nodelay(v) \/ pause_writes(v)
        PROVE  k' = k /\ wire' = wire
    BY <2>3 DEF set_nodelay, pause_writes
  <2>4. CASE write \/ writeEof \/ flushError
    BY <2>4 DEF write, writeEof, flushError
  <2>5. CASE flush \/ flushNodelay \/ flushReturn
    BY <2>0, <2>5 DEF flush, flushNodelay, flushReturn, Stream
  <2>6. CASE flushWrite
    BY <2>0, <2>6 DEF flushWrite, Stream
  <2>7. CASE flushShutdown
    BY <2>0, <2>7 DEF flushShutdown, EofReady, Stream
  <2>8. ASSUME NEW max \in Maxes, NEW spare \in Spare, ReadStep(max, spare)
        PROVE  k'.shut = k.shut /\ wire' = wire
    BY <2>0, <2>8 DEF ReadStep, readData, readEof, readWouldBlock, readError, Stream
  <2>9. ASSUME NEW n \in Maxes, take(n) PROVE k' = k /\ wire' = wire
    BY <2>9 DEF take
  <2> QED
    BY <2>1, <2>2, <2>3, <2>4, <2>5, <2>6, <2>7, <2>8, <2>9 DEF Next, FlushStep
<1> QED
  BY <1>1, TypeCorrect, PTL DEF Spec, EofLast

-----------------------------------------------------------------------------
(* Nothing gets stuck *)

OutputInv == TypeOK /\ EofOK /\ NoStrandedOutput

LEMMA NextOutput == ASSUME OutputInv, [Next]_vars PROVE NoStrandedOutput'
<1> USE DEF NoStrandedOutput, Unsent
<1>0. /\ k \in Stream /\ EofOK /\ NoStrandedOutput /\ SndCap > 0 /\ SndCap \in Nat
      /\ k.nbuf \in 0..SndCap
  BY CapsAssumption DEF OutputInv, TypeOK, Stream
<1>1. CASE MoveOut
  <2>1. /\ k'.shut = k.shut /\ UNCHANGED <<pc, stream, pause, out, out_eof, must_flush>>
        /\ k'.writable = (k.writable \/ k.warm)
    BY <1>0, <1>1 DEF MoveOut, Stream
  <2> QED
    BY <1>0, <2>1
<1>2. CASE Arrive \/ PeerEof
  <2>1. /\ k'.shut = k.shut /\ UNCHANGED <<pc, stream, pause, out, out_eof, must_flush>>
        /\ k'.writable = k.writable /\ k'.warm = k.warm /\ k'.nbuf = k.nbuf
    BY <1>0, <1>2 DEF Arrive, PeerEof, Stream
  <2> QED
    BY <1>0, <2>1
<1>3. CASE init \/ deinit
  BY <1>3 DEF init, deinit
<1>4. ASSUME NEW v \in BOOLEAN, set_nodelay(v) \/ pause_writes(v) PROVE NoStrandedOutput'
  BY <1>4 DEF set_nodelay, pause_writes
<1>5. CASE write \/ writeEof \/ flushError
  BY <1>5 DEF write, writeEof, flushError
<1>6. CASE flush
  BY <1>6 DEF flush, FlushEntry
<1>7. CASE flushNodelay
  BY <1>7 DEF flushNodelay
<1>8. CASE flushWrite \/ flushShutdown
  BY <1>8 DEF flushWrite, flushShutdown
<1>9. CASE flushReturn
  <2>1. /\ k'.shut = k.shut /\ UNCHANGED <<stream, pause, out, out_eof, must_flush>>
        /\ (out # <<>> /\ k.nbuf = SndCap => k'.warm) /\ k'.nbuf = k.nbuf
    BY <1>0, <1>9 DEF flushReturn, Stream
  <2>2. sent_out_eof = k.shut
    BY <1>0, <1>9 DEF flushReturn, EofOK, OutputInv, TypeOK, Stream
  <2>3. CASE out # <<>>
    <3>1. k.nbuf = SndCap
      BY <1>9, <2>3 DEF flushReturn, FlushOver
    <3> QED
      BY <1>0, <2>1, <2>3, <3>1
  <2>4. CASE out = <<>>
    <3>1. out_eof => sent_out_eof
      BY <1>9, <2>4 DEF flushReturn, FlushOver
    <3> QED
      BY <2>1, <2>2, <2>4, <3>1
  <2> QED
    BY <2>3, <2>4
<1>10. ASSUME NEW max \in Maxes, NEW spare \in Spare, ReadStep(max, spare) PROVE NoStrandedOutput'
  <2>1. CASE readError(max, spare)
    BY <2>1 DEF readError
  <2>2. CASE ~readError(max, spare)
    <3>1. /\ k'.shut = k.shut /\ k'.writable = k.writable /\ k'.warm = k.warm /\ k'.nbuf = k.nbuf
          /\ UNCHANGED <<pc, stream, pause, out, out_eof, must_flush>>
      BY <1>0, <1>10, <2>2 DEF ReadStep, readData, readEof, readWouldBlock, Stream
    <3> QED
      BY <1>0, <3>1
  <2> QED
    BY <2>1, <2>2
<1>11. ASSUME NEW n \in Maxes, take(n) PROVE NoStrandedOutput'
  BY <1>0, <1>11 DEF take
<1>12. CASE UNCHANGED vars
  BY <1>0, <1>12 DEF vars
<1> QED
  BY <1>1, <1>2, <1>3, <1>4, <1>5, <1>6, <1>7, <1>8, <1>9, <1>10, <1>11, <1>12 DEF Next, FlushStep

(* flush returns early, or with bytes or an EOF left, only when it will be
   called again: the actor is about to, or a WRITABLE event will come. *)
THEOREM OutputNeverStranded == Spec => []NoStrandedOutput
<1>1. Init => EofOK /\ NoStrandedOutput
  BY InitEof DEF Init, NoStrandedOutput
<1>2. TypeOK /\ EofOK /\ NoStrandedOutput /\ [Next]_vars => EofOK' /\ NoStrandedOutput'
  BY NextEof, NextOutput DEF OutputInv
<1> QED
  BY <1>1, <1>2, TypeCorrect, PTL DEF Spec

(* While the end of the input has not been reported, a read is due, an event
   is on its way, or the last read blocked and nothing came since. *)
InputOK ==
  stream /\ ~inp_eof /\ pc # "failed" =>
    must_read \/ k.readable \/ (k.rarm /\ k.rbuf = <<>> /\ ~k.fin)

LEMMA NextInput == ASSUME TypeOK, InputOK, [Next]_vars PROVE InputOK'
<1> USE DEF InputOK
<1>0. k \in Stream
  BY DEF TypeOK
<1>1. CASE MoveOut
  <2>1. /\ k'.readable = k.readable /\ k'.rarm = k.rarm /\ k'.rbuf = k.rbuf /\ k'.fin = k.fin
        /\ UNCHANGED <<stream, inp_eof, pc, must_read>>
    BY <1>0, <1>1 DEF MoveOut, Stream
  <2> QED
    BY <2>1
<1>2. CASE Arrive \/ PeerEof
  <2>1. k'.readable = (k.readable \/ k.rarm) /\ UNCHANGED <<stream, inp_eof, pc, must_read>>
    BY <1>0, <1>2 DEF Arrive, PeerEof, Stream
  <2> QED
    BY <2>1
<1>3. CASE init \/ deinit
  BY <1>3 DEF init, deinit
<1>4. ASSUME NEW v \in BOOLEAN, set_nodelay(v) \/ pause_writes(v) PROVE InputOK'
  BY <1>4 DEF set_nodelay, pause_writes
<1>5. CASE write \/ writeEof
  BY <1>5 DEF write, writeEof
<1>6. CASE flush \/ FlushStep
  <2>1. /\ k'.readable = k.readable /\ k'.rarm = k.rarm /\ k'.rbuf = k.rbuf /\ k'.fin = k.fin
        /\ UNCHANGED <<stream, inp_eof, must_read>> /\ pc # "failed"
    BY <1>0, <1>6
       DEF flush, FlushStep, flushNodelay, flushError, flushWrite, flushShutdown, flushReturn, Stream
  <2> QED
    BY <2>1
<1>7. ASSUME NEW max \in Maxes, NEW spare \in Spare, ReadStep(max, spare) PROVE InputOK'
  <2>1. CASE readData(max, spare) \/ readEof(max, spare)
    BY <2>1 DEF readData, readEof
  <2>2. CASE readError(max, spare)
    BY <2>2 DEF readError
  <2>3. CASE readWouldBlock(max, spare)
    BY <1>0, <2>3 DEF readWouldBlock, NothingToRead, Stream
  <2> QED
    BY <1>7, <2>1, <2>2, <2>3 DEF ReadStep
<1>8. ASSUME NEW n \in Maxes, take(n) PROVE InputOK'
  BY <1>8 DEF take
<1>9. CASE UNCHANGED vars
  BY <1>9 DEF vars
<1> QED
  BY <1>1, <1>2, <1>3, <1>4, <1>5, <1>6, <1>7, <1>8, <1>9 DEF Next

(* read: bytes or an EOF that wait in the socket are always going to be read. *)
THEOREM InputNeverStranded == Spec => []NoStrandedInput
<1>1. Init => InputOK
  BY DEF Init, InputOK
<1>2. TypeOK /\ InputOK /\ [Next]_vars => InputOK'
  BY NextInput
<1>3. InputOK => NoStrandedInput
  BY DEF InputOK, NoStrandedInput
<1> QED
  BY <1>1, <1>2, <1>3, TypeCorrect, PTL DEF Spec

-----------------------------------------------------------------------------
(* TCP_NODELAY, when an error in flush stops the actor *)

(* The stream has the setting unless it is still to be applied, which a flush
   in progress does before it writes, and for which a flush is due otherwise. *)
NodelayOK ==
  /\ stream /\ ~pending_set_nodelay /\ pc # "failed" => k.nodelay = nodelay
  /\ pc = "write" => ~pending_set_nodelay
  /\ pc = "idle" /\ stream /\ ~pause /\ pending_set_nodelay => must_flush

LEMMA NextNodelay == ASSUME ~RetryFlush, TypeOK, NodelayOK, [Next]_vars PROVE NodelayOK'
<1> USE DEF NodelayOK
<1>0. k \in Stream /\ nodelay \in BOOLEAN /\ pending_set_nodelay \in BOOLEAN
  BY DEF TypeOK
<1>1. CASE MoveOut \/ Arrive \/ PeerEof
  <2>1. k'.nodelay = k.nodelay /\ UNCHANGED <<flagVars, pc, must_flush>>
    BY <1>0, <1>1 DEF MoveOut, Arrive, PeerEof, Stream
  <2> QED
    BY <2>1
<1>2. CASE init
  BY <1>2 DEF init, PendingAfterInit
<1>3. CASE deinit
  BY <1>3 DEF deinit
<1>4. ASSUME NEW v \in BOOLEAN, set_nodelay(v) \/ pause_writes(v) PROVE NodelayOK'
  BY <1>4 DEF set_nodelay, pause_writes
<1>5. CASE write \/ writeEof
  BY <1>5 DEF write, writeEof
<1>6. CASE flush
  <2>1. k'.nodelay = k.nodelay
    BY <1>0, <1>6 DEF flush, Stream
  <2> QED
    BY <1>6, <2>1 DEF flush, FlushEntry
<1>7. CASE flushNodelay
  <2>1. CASE pending_set_nodelay
    <3>1. k'.nodelay = nodelay
      BY <1>0, <1>7, <2>1 DEF flushNodelay, Stream
    <3> QED
      BY <1>7, <3>1 DEF flushNodelay
  <2>2. CASE ~pending_set_nodelay
    BY <1>7, <2>2 DEF flushNodelay
  <2> QED
    BY <2>1, <2>2
<1>8. CASE flushError
  BY <1>8 DEF flushError
<1>9. CASE flushWrite \/ flushShutdown \/ flushReturn
  <2>1. /\ k'.nodelay = k.nodelay /\ UNCHANGED <<flagVars, must_flush>> /\ pc = "write"
        /\ (pc' = pc \/ pc' = "idle")
    BY <1>0, <1>9 DEF flushWrite, flushShutdown, flushReturn, Stream
  <2> QED
    BY <2>1
<1>10. ASSUME NEW max \in Maxes, NEW spare \in Spare, ReadStep(max, spare) PROVE NodelayOK'
  <2>1. k'.nodelay = k.nodelay
    BY <1>0, <1>10 DEF ReadStep, readData, readEof, readWouldBlock, readError, Stream
  <2>2. UNCHANGED <<flagVars, must_flush>> /\ (pc' = pc \/ pc' = "failed")
    BY <1>10 DEF ReadStep, readData, readEof, readWouldBlock, readError
  <2> QED
    BY <2>1, <2>2
<1>11. ASSUME NEW n \in Maxes, take(n) PROVE NodelayOK'
  BY <1>11 DEF take
<1>12. CASE UNCHANGED vars
  BY <1>12 DEF vars
<1> QED
  BY <1>1, <1>2, <1>3, <1>4, <1>5, <1>6, <1>7, <1>8, <1>9, <1>10, <1>11, <1>12 DEF Next, FlushStep

(* set_nodelay and flush: when an error of flush stops the actor, the setting
   asked for is on the stream whenever no flush is due.  An actor that calls
   flush again after the error may lose it: see MCTcpNodelay.cfg. *)
THEOREM NodelayAppliedUnlessRetried ==
  ASSUME ~RetryFlush
  PROVE  Spec => []NodelayApplied
<1>1. Init => NodelayOK
  BY DEF Init, NodelayOK
<1>2. TypeOK /\ NodelayOK /\ [Next]_vars => NodelayOK'
  BY NextNodelay
<1>3. NodelayOK => NodelayApplied
  BY DEF NodelayOK, NodelayApplied
<1> QED
  BY <1>1, <1>2, <1>3, TypeCorrect, PTL DEF Spec

-----------------------------------------------------------------------------
(* inp_eof, on the first stream and if read is never called with 0 *)

FirstEofOK ==
  /\ inits \in Nat
  /\ inits = 0 => ~stream /\ ~inp_eof
  /\ inits <= 1 => EofHonest

LEMMA NextFirstEof == ASSUME 0 \notin Maxes, TypeOK, FirstEofOK, [Next]_vars PROVE FirstEofOK'
<1> USE DEF FirstEofOK, EofHonest
<1>0. k \in Stream
  BY DEF TypeOK
<1>1. CASE MoveOut
  <2>1. k'.fin = k.fin /\ k'.rbuf = k.rbuf /\ UNCHANGED <<inits, stream, inp_eof>>
    BY <1>0, <1>1 DEF MoveOut, Stream
  <2> QED
    BY <2>1
<1>2. CASE Arrive
  <2>1. ~k.fin /\ UNCHANGED <<inits, stream, inp_eof>>
    BY <1>2 DEF Arrive
  <2> QED
    BY <2>1
<1>3. CASE PeerEof
  <2>1. ~k.fin /\ UNCHANGED <<inits, stream, inp_eof>>
    BY <1>3 DEF PeerEof
  <2> QED
    BY <2>1
<1>4. CASE init
  BY <1>4 DEF init
<1>5. CASE deinit
  BY <1>5 DEF deinit
<1>6. ASSUME NEW v \in BOOLEAN, set_nodelay(v) \/ pause_writes(v) PROVE FirstEofOK'
  BY <1>6 DEF set_nodelay, pause_writes
<1>7. CASE write \/ writeEof
  BY <1>7 DEF write, writeEof
<1>8. CASE flush \/ FlushStep
  <2>1. k'.fin = k.fin /\ k'.rbuf = k.rbuf /\ UNCHANGED <<inits, stream, inp_eof>>
    BY <1>0, <1>8
       DEF flush, FlushStep, flushNodelay, flushError, flushWrite, flushShutdown, flushReturn, Stream
  <2> QED
    BY <2>1
<1>9. ASSUME NEW max \in Maxes, NEW spare \in Spare, ReadStep(max, spare) PROVE FirstEofOK'
  <2>0. UNCHANGED <<inits, stream>>
    BY <1>9 DEF ReadStep, readData, readEof, readWouldBlock, readError
  <2>1. CASE readData(max, spare)
    <3>1. k.rbuf # <<>>
      <4>1. PICK len \in 1..Len(k.rbuf) : TRUE
        BY <2>1 DEF readData
      <4>2. Len(<<>>) = 0
        OBVIOUS
      <4> QED
        BY <4>1, <4>2
    <3>2. stream /\ inp_eof' = inp_eof
      BY <2>1 DEF readData
    <3> QED
      BY <2>0, <3>1, <3>2
  <2>2. CASE readEof(max, spare)
    <3>1. k.rbuf = <<>> /\ k.fin /\ stream
      BY <2>2 DEF readEof, ReadsNothing
    <3>2. k'.fin = k.fin /\ k'.rbuf = k.rbuf
      BY <1>0, <2>2 DEF readEof, Stream
    <3> QED
      BY <2>0, <3>1, <3>2
  <2>3. CASE readWouldBlock(max, spare) \/ readError(max, spare)
    <3>1. k'.fin = k.fin /\ k'.rbuf = k.rbuf /\ inp_eof' = inp_eof
      BY <1>0, <2>3 DEF readWouldBlock, readError, Stream
    <3> QED
      BY <2>0, <3>1
  <2> QED
    BY <1>9, <2>1, <2>2, <2>3 DEF ReadStep
<1>10. ASSUME NEW n \in Maxes, take(n) PROVE FirstEofOK'
  BY <1>10 DEF take
<1>11. CASE UNCHANGED vars
  BY <1>11 DEF vars
<1> QED
  BY <1>1, <1>2, <1>3, <1>4, <1>5, <1>6, <1>7, <1>8, <1>9, <1>10, <1>11 DEF Next

(* read: if it is never called with a `max` of 0, inp_eof means the end of the
   stream for the first stream given to init, however many follow.  Neither
   condition can be left out: see MCTcpReadZero.cfg and
   MCTcpStaleEof.cfg. *)
THEOREM FirstEofHonest ==
  ASSUME 0 \notin Maxes
  PROVE  Spec => [](inits <= 1 => EofHonest)
<1>1. Init => FirstEofOK
  BY DEF Init, FirstEofOK, EofHonest
<1>2. TypeOK /\ FirstEofOK /\ [Next]_vars => FirstEofOK'
  BY NextFirstEof
<1>3. FirstEofOK => (inits <= 1 => EofHonest)
  BY DEF FirstEofOK
<1> QED
  BY <1>1, <1>2, <1>3, TypeCorrect, PTL DEF Spec

-----------------------------------------------------------------------------
(* FlattenSeq, by induction over the number of pieces *)

LEMMA ThreePieces == \A S : \A a, b, c \in Seq(S) : (a \o b) \o c = a \o (b \o c)
<1> SUFFICES ASSUME NEW S, NEW a \in Seq(S), NEW b \in Seq(S), NEW c \in Seq(S)
             PROVE  (a \o b) \o c = a \o (b \o c)
  OBVIOUS
<1> QED
  BY ConcatAssociative

(* The same with a name, which the provers find more easily. *)
Assoc(a, b, c) == (a \o b) \o c = a \o (b \o c)

LEMMA Reassociate == ASSUME NEW S, NEW a \in Seq(S), NEW b \in Seq(S), NEW c \in Seq(S)
                     PROVE  Assoc(a, b, c)
  BY ThreePieces DEF Assoc

(* f runs through the pieces of s: f[i] is the first i of them in one. *)
Flattens(f, s) == f = [i \in 1..Len(s) |-> IF i = 1 THEN s[i] ELSE f[i - 1] \o s[i]]

LEMMA FlattensExists ==
  ASSUME NEW S, NEW s \in Seq(S)
  PROVE  \E f : Flattens(f, s)
<1> DEFINE Upto(f, n) == f = [i \in 1..n |-> IF i = 1 THEN s[i] ELSE f[i - 1] \o s[i]]
           T == {n \in Nat : \E f : Upto(f, n)}
<1>1. 0 \in T
  <2>1. Upto(<<>>, 0)
    OBVIOUS
  <2> QED
    BY <2>1
<1>2. ASSUME NEW n \in Nat, n \in T PROVE n + 1 \in T
  <2>1. PICK f : Upto(f, n)
    BY <1>2
  <2> DEFINE g == [i \in 1..(n + 1) |-> IF i = n + 1 THEN (IF i = 1 THEN s[i] ELSE f[i - 1] \o s[i]) ELSE f[i]]
  <2>2. \A i \in 1..n : g[i] = f[i]
    OBVIOUS
  <2>3. \A i \in 1..n : f[i] = IF i = 1 THEN s[i] ELSE f[i - 1] \o s[i]
    BY <2>1
  <2>4. ASSUME NEW i \in 1..(n + 1) PROVE g[i] = IF i = 1 THEN s[i] ELSE g[i - 1] \o s[i]
    <3>1. CASE i = 1
      <4>1. CASE n + 1 = 1
        BY <3>1, <4>1
      <4>2. CASE n + 1 # 1
        <5>1. i \in 1..n
          BY <3>1, <4>2
        <5> HIDE DEF g
        <5> QED
          BY <2>2, <2>3, <3>1, <5>1
      <4> QED
        BY <4>1, <4>2
    <3>2. CASE i # 1
      <4>1. i - 1 \in 1..n
        BY <3>2
      <4>2. g[i - 1] = f[i - 1]
        <5> HIDE DEF g
        <5> QED
          BY <2>2, <4>1
      <4>3. CASE i = n + 1
        <5>1. g[i] = f[i - 1] \o s[i]
          BY <3>2, <4>3
        <5> HIDE DEF g
        <5> QED
          BY <3>2, <4>2, <5>1
      <4>4. CASE i # n + 1
        <5>1. i \in 1..n
          BY <4>4
        <5> HIDE DEF g
        <5> QED
          BY <2>2, <2>3, <3>2, <4>2, <5>1
      <4> QED
        BY <4>3, <4>4
    <3> QED
      BY <3>1, <3>2
  <2>5. g = [i \in 1..(n + 1) |-> g[i]]
    OBVIOUS
  <2> HIDE DEF g
  <2>6. g = [i \in 1..(n + 1) |-> IF i = 1 THEN s[i] ELSE g[i - 1] \o s[i]]
    BY <2>4, <2>5
  <2>7. Upto(g, n + 1)
    BY <2>6
  <2>8. n + 1 \in Nat
    OBVIOUS
  <2> HIDE DEF Upto
  <2> QED
    BY <2>7, <2>8
<1> HIDE DEF T
<1>3. \A n \in Nat : n \in T
  BY <1>1, <1>2, SetInduction
<1>4. Len(s) \in Nat
  OBVIOUS
<1>5. Len(s) \in T
  BY <1>3, <1>4
<1> QED
  BY <1>5 DEF T, Flattens

LEMMA FlattensTyped ==
  ASSUME NEW S, NEW s \in Seq(Seq(S)), NEW f, Flattens(f, s)
  PROVE  \A i \in 1..Len(s) : f[i] \in Seq(S)
<1> DEFINE T == {n \in Nat : n \in 1..Len(s) => f[n] \in Seq(S)}
<1>0. Len(s) \in Nat /\ \A i \in 1..Len(s) : s[i] \in Seq(S)
  OBVIOUS
<1>1. \A i \in 1..Len(s) : f[i] = IF i = 1 THEN s[i] ELSE f[i - 1] \o s[i]
  BY DEF Flattens
<1>2. 0 \in T
  OBVIOUS
<1>3. ASSUME NEW n \in Nat, n \in T PROVE n + 1 \in T
  <2> SUFFICES ASSUME n + 1 \in 1..Len(s) PROVE f[n + 1] \in Seq(S)
    OBVIOUS
  <2>1. CASE n = 0
    BY <1>0, <1>1, <2>1
  <2>2. CASE n # 0
    <3>1. n \in 1..Len(s)
      BY <1>0, <2>2
    <3>2. f[n] \in Seq(S)
      BY <1>3, <3>1
    <3>3. f[n + 1] = f[n] \o s[n + 1]
      <4>1. n + 1 # 1 /\ (n + 1) - 1 = n
        BY <2>2
      <4> QED
        BY <1>1, <4>1
    <3>4. s[n + 1] \in Seq(S)
      BY <1>0
    <3>5. f[n] \o s[n + 1] \in Seq(S)
      BY <3>2, <3>4, ConcatProperties
    <3> QED
      BY <3>3, <3>5
  <2> QED
    BY <2>1, <2>2
<1> HIDE DEF T
<1>4. \A n \in Nat : n \in T
  BY <1>2, <1>3, SetInduction
<1> QED
  BY <1>0, <1>4 DEF T

(* FlattenSeq is the last value of such a function. *)
LEMMA FlattenSeqValue ==
  ASSUME NEW S, NEW s \in Seq(S), s # <<>>
  PROVE  \E f : Flattens(f, s) /\ FlattenSeq(s) = f[Len(s)]
<1> DEFINE f == CHOOSE f : Flattens(f, s)
<1>1. Flattens(f, s)
  BY FlattensExists
<1>2. Len(s) # 0
  OBVIOUS
<1>3. FlattenSeq(s) = f[Len(s)]
  BY <1>2 DEF FlattenSeq, Flattens
<1> QED
  BY <1>1, <1>3

LEMMA FlattenSeqTyped ==
  ASSUME NEW S, NEW s \in Seq(Seq(S))
  PROVE  FlattenSeq(s) \in Seq(S)
<1>1. CASE s = <<>>
  <2>1. FlattenSeq(s) = <<>>
    BY <1>1 DEF FlattenSeq
  <2> QED
    BY <2>1
<1>2. CASE s # <<>>
  <2>1. PICK f : Flattens(f, s) /\ FlattenSeq(s) = f[Len(s)]
    BY <1>2, FlattenSeqValue
  <2>2. Len(s) \in 1..Len(s)
    BY <1>2
  <2>3. \A i \in 1..Len(s) : f[i] \in Seq(S)
    BY <2>1, FlattensTyped
  <2> QED
    BY <2>1, <2>2, <2>3
<1> QED
  BY <1>1, <1>2

(* One more piece at the end *)
LEMMA FlattenSeqAppend ==
  ASSUME NEW S, NEW s \in Seq(Seq(S)), NEW x \in Seq(S)
  PROVE  FlattenSeq(Append(s, x)) = FlattenSeq(s) \o x
<1> DEFINE t == Append(s, x)
           n == Len(s)
<1>1. /\ t \in Seq(Seq(S)) /\ Len(t) = n + 1 /\ n \in Nat /\ t[n + 1] = x
      /\ \A i \in 1..n : t[i] = s[i]
  BY AppendProperties
<1> HIDE DEF t
<1>2. t # <<>>
  <2>1. Len(<<>>) = 0 /\ n + 1 # 0
    BY <1>1
  <2> QED
    BY <1>1, <2>1
<1>3. PICK g : Flattens(g, t) /\ FlattenSeq(t) = g[n + 1]
  BY <1>1, <1>2, FlattenSeqValue
<1>4. \A i \in 1..(n + 1) : g[i] = IF i = 1 THEN t[i] ELSE g[i - 1] \o t[i]
  BY <1>1, <1>3 DEF Flattens
<1>5. CASE s = <<>>
  <2>1. n = 0 /\ FlattenSeq(s) = <<>>
    BY <1>5 DEF FlattenSeq
  <2>2. g[1] = t[1] /\ t[1] = x
    BY <1>1, <1>4, <2>1
  <2>3. FlattenSeq(t) = x
    BY <1>3, <2>1, <2>2
  <2>4. <<>> \o x = x
    BY ConcatSimplifications
  <2> QED
    BY <2>1, <2>3, <2>4 DEF t
<1>6. CASE s # <<>>
  <2>1. PICK f : Flattens(f, s) /\ FlattenSeq(s) = f[n]
    BY <1>6, FlattenSeqValue
  <2>2. \A i \in 1..n : f[i] = IF i = 1 THEN s[i] ELSE f[i - 1] \o s[i]
    BY <2>1 DEF Flattens
  <2>3. n # 0
    BY <1>6
  <2> HIDE DEF n
  <2> DEFINE T == {m \in Nat : m \in 1..n => g[m] = f[m]}
  <2>4. 0 \in T
    OBVIOUS
  <2>5. ASSUME NEW m \in Nat, m \in T PROVE m + 1 \in T
    <3> SUFFICES ASSUME m + 1 \in 1..n PROVE g[m + 1] = f[m + 1]
      OBVIOUS
    <3>1. m + 1 \in 1..(n + 1) /\ t[m + 1] = s[m + 1] /\ (m + 1) - 1 = m
      BY <1>1
    <3>2. CASE m = 0
      BY <1>4, <2>2, <3>1, <3>2
    <3>3. CASE m # 0
      <4>1. m \in 1..n /\ m + 1 # 1
        BY <1>1, <3>3
      <4>2. g[m] = f[m]
        BY <2>5, <4>1
      <4>3. g[m + 1] = g[m] \o t[m + 1]
        BY <1>4, <3>1, <4>1
      <4>4. f[m + 1] = f[m] \o s[m + 1]
        BY <2>2, <3>1, <4>1
      <4> QED
        BY <3>1, <4>2, <4>3, <4>4
    <3> QED
      BY <3>2, <3>3
  <2> HIDE DEF T
  <2>6. \A m \in Nat : m \in T
    BY <2>4, <2>5, SetInduction
  <2>7. n \in 1..n
    BY <1>1, <2>3
  <2>8. g[n] = f[n]
    BY <1>1, <2>6, <2>7 DEF T
  <2>9. g[n + 1] = g[n] \o t[n + 1]
    <3>1. n + 1 \in 1..(n + 1) /\ n + 1 # 1 /\ (n + 1) - 1 = n
      BY <1>1, <2>3
    <3> QED
      BY <1>4, <3>1
  <2> QED
    BY <1>1, <1>3, <2>1, <2>8, <2>9 DEF t
<1> QED
  BY <1>5, <1>6

(* The first piece goes. *)
LEMMA FlattenSeqTail ==
  ASSUME NEW S, NEW s \in Seq(Seq(S)), s # <<>>
  PROVE  FlattenSeq(s) = Head(s) \o FlattenSeq(Tail(s))
<1> DEFINE t == Tail(s)
           n == Len(s)
<1>1. /\ t \in Seq(Seq(S)) /\ Len(t) = n - 1 /\ n \in Nat /\ n # 0 /\ Head(s) = s[1]
      /\ s[1] \in Seq(S) /\ \A i \in 1..(n - 1) : t[i] = s[i + 1] /\ t[i] \in Seq(S)
  <2>1. Head(s) = s[1] /\ n \in Nat /\ n # 0 /\ s[1] \in Seq(S)
    OBVIOUS
  <2>2. t \in Seq(Seq(S)) /\ Len(t) = Len(s) - 1 /\ \A i \in 1..Len(t) : t[i] = s[i + 1]
    BY HeadTailProperties
  <2> HIDE DEF t
  <2>3. \A i \in 1..Len(t) : t[i] \in Seq(S)
    BY <2>2
  <2> QED
    BY <2>1, <2>2, <2>3
<1>2. PICK f : Flattens(f, s) /\ FlattenSeq(s) = f[n]
  BY FlattenSeqValue
<1>3. \A i \in 1..n : f[i] = IF i = 1 THEN s[i] ELSE f[i - 1] \o s[i]
  BY <1>2 DEF Flattens
<1> HIDE DEF t, n
<1>4. f[1] = s[1]
  <2>1. 1 \in 1..n
    BY <1>1
  <2> QED
    BY <1>3, <2>1
<1>5. CASE n = 1
  <2>1. t = <<>>
    BY <1>1, <1>5
  <2>2. FlattenSeq(t) = <<>>
    BY <2>1 DEF FlattenSeq
  <2>3. s[1] \o <<>> = s[1]
    BY <1>1, ConcatSimplifications
  <2> QED
    BY <1>1, <1>2, <1>4, <1>5, <2>2, <2>3 DEF t
<1>6. CASE n # 1
  <2>1. t # <<>>
    <3>1. Len(<<>>) = 0 /\ n - 1 # 0
      BY <1>1, <1>6
    <3> QED
      BY <1>1, <3>1
  <2>2. PICK g : Flattens(g, t) /\ FlattenSeq(t) = g[n - 1]
    BY <1>1, <2>1, FlattenSeqValue
  <2>3. \A i \in 1..(n - 1) : g[i] = IF i = 1 THEN t[i] ELSE g[i - 1] \o t[i]
    BY <1>1, <2>2 DEF Flattens
  <2>4. \A i \in 1..(n - 1) : g[i] \in Seq(S)
    BY <1>1, <2>2, FlattensTyped
  <2> DEFINE Same(j) == f[j + 1] = s[1] \o g[j]
             T == {j \in Nat : j \in 1..(n - 1) => Same(j)}
  <2>5. 0 \in T
    OBVIOUS
  <2>6. ASSUME NEW m \in Nat, m \in T PROVE m + 1 \in T
    <3> HIDE DEF Same
    <3> SUFFICES ASSUME m + 1 \in 1..(n - 1) PROVE Same(m + 1)
      OBVIOUS
    <3> USE DEF Same
    <3>1. /\ (m + 1) + 1 \in 1..n /\ (m + 1) + 1 # 1 /\ ((m + 1) + 1) - 1 = m + 1
          /\ (m + 1) - 1 = m
      BY <1>1
    <3>2. f[(m + 1) + 1] = f[m + 1] \o t[m + 1]
      <4>1. f[(m + 1) + 1] = f[m + 1] \o s[(m + 1) + 1]
        BY <1>3, <3>1
      <4> QED
        BY <1>1, <4>1
    <3>3. CASE m = 0
      <4>1. g[m + 1] = t[m + 1] /\ f[m + 1] = s[1]
        BY <1>4, <2>3, <3>3
      <4> QED
        BY <3>2, <4>1
    <3>4. CASE m # 0
      <4>1. m \in 1..(n - 1) /\ m + 1 # 1
        BY <1>1, <3>4
      <4>2. f[m + 1] = s[1] \o g[m]
        BY <2>6, <4>1
      <4>3. g[m + 1] = g[m] \o t[m + 1]
        BY <2>3, <3>1, <4>1
      <4>4. g[m] \in Seq(S) /\ t[m + 1] \in Seq(S) /\ s[1] \in Seq(S)
        BY <1>1, <2>4, <4>1
      <4>5. (s[1] \o g[m]) \o t[m + 1] = s[1] \o (g[m] \o t[m + 1])
        <5>1. Assoc(s[1], g[m], t[m + 1])
          BY <4>4, Reassociate
        <5> QED
          BY <5>1 DEF Assoc
      <4> QED
        BY <3>2, <4>2, <4>3, <4>5
    <3> QED
      BY <3>3, <3>4
  <2> HIDE DEF T
  <2>7. \A m \in Nat : m \in T
    BY <2>5, <2>6, SetInduction
  <2>8. n - 1 \in Nat /\ n - 1 \in 1..(n - 1) /\ (n - 1) + 1 = n
    BY <1>1, <1>6
  <2>9. f[n] = s[1] \o g[n - 1]
    BY <2>7, <2>8 DEF T
  <2> QED
    BY <1>1, <1>2, <2>2, <2>9 DEF t
<1> QED
  BY <1>5, <1>6

(* Two groups of pieces *)
LEMMA FlattenSeqConcat ==
  ASSUME NEW S, NEW b \in Seq(Seq(S))
  PROVE  \A a \in Seq(Seq(S)) : FlattenSeq(a \o b) = FlattenSeq(a) \o FlattenSeq(b)
<1> DEFINE P == Seq(S)
           Q(a) == FlattenSeq(a \o b) = FlattenSeq(a) \o FlattenSeq(b)
           T == {n \in Nat : \A a \in Seq(P) : Len(a) = n => Q(a)}
           fb == FlattenSeq(b)
<1>1. fb \in Seq(S)
  BY FlattenSeqTyped
<1>2. 0 \in T
  <2> SUFFICES ASSUME NEW a \in Seq(P), Len(a) = 0 PROVE Q(a)
    OBVIOUS
  <2>1. a = <<>>
    OBVIOUS
  <2>2. FlattenSeq(<<>>) = <<>>
    BY DEF FlattenSeq
  <2>3. <<>> \o b = b
    BY ConcatSimplifications
  <2> HIDE DEF fb
  <2>4. <<>> \o fb = fb
    BY <1>1, ConcatSimplifications
  <2> QED
    BY <2>1, <2>2, <2>3, <2>4 DEF fb
<1>3. ASSUME NEW n \in Nat, n \in T PROVE n + 1 \in T
  <2> HIDE DEF P
  <2>0. n + 1 \in Nat /\ b \in Seq(P)
    BY DEF P
  <2> HIDE DEF Q
  <2> SUFFICES ASSUME NEW a \in Seq(P), Len(a) = n + 1 PROVE Q(a)
    BY <2>0
  <2> DEFINE t == Tail(a)
             h == Head(a)
             ab == a \o b
  <2>1. a # <<>> /\ Len(a) # 0
    <3>1. Len(<<>>) = 0
      OBVIOUS
    <3> QED
      BY <3>1
  <2>2. t \in Seq(P) /\ Len(t) = n /\ h \in P
    <3>1. t \in Seq(P) /\ Len(t) = Len(a) - 1 /\ h \in P
      BY <2>1, HeadTailProperties
    <3> QED
      BY <3>1
  <2>3. ab \in Seq(P) /\ ab # <<>> /\ Head(ab) = h /\ Tail(ab) = t \o b
    <3>1. /\ ab \in Seq(P) /\ Len(ab) = Len(a) + Len(b)
          /\ \A i \in 1..(Len(a) + Len(b)) : ab[i] = IF i <= Len(a) THEN a[i] ELSE b[i - Len(a)]
      BY <2>0, ConcatProperties
    <3>2. Len(a) \in Nat /\ Len(b) \in Nat
      BY <2>0
    <3> HIDE DEF ab
    <3>3. ab # <<>>
      <4>1. Len(<<>>) = 0 /\ Len(ab) # 0
        BY <2>1, <3>1, <3>2
      <4> QED
        BY <4>1
    <3>4. Head(ab) = h
      <4>1. Head(ab) = ab[1] /\ h = a[1]
        BY <2>1, <3>1, <3>3
      <4>2. 1 \in 1..(Len(a) + Len(b)) /\ 1 <= Len(a)
        BY <2>1, <3>2
      <4> QED
        BY <3>1, <4>1, <4>2
    <3>5. Tail(ab) = t \o b
      <4> DEFINE u == Tail(ab)
                 v == t \o b
      <4>1. u \in Seq(P) /\ Len(u) = Len(ab) - 1 /\ \A i \in 1..Len(u) : u[i] = ab[i + 1]
        BY <3>1, <3>3, HeadTailProperties
      <4>2. /\ v \in Seq(P) /\ Len(v) = Len(t) + Len(b)
            /\ \A i \in 1..(Len(t) + Len(b)) : v[i] = IF i <= Len(t) THEN t[i] ELSE b[i - Len(t)]
        BY <2>0, <2>2, ConcatProperties
      <4>3. \A i \in 1..n : t[i] = a[i + 1]
        <5>1. \A i \in 1..Len(t) : t[i] = a[i + 1]
          BY <2>1, HeadTailProperties
        <5> QED
          BY <2>2, <5>1
      <4> HIDE DEF u, v, t
      <4>4. Len(u) = Len(v) /\ Len(u) = n + Len(b)
        BY <2>2, <3>1, <3>2, <4>1, <4>2
      <4>5. ASSUME NEW i \in 1..Len(u) PROVE u[i] = v[i]
        <5>0. i \in Nat /\ i + 1 \in 1..(Len(a) + Len(b)) /\ i \in 1..(Len(t) + Len(b))
              /\ i \in 1..(n + Len(b))
          BY <2>2, <3>2, <4>4
        <5>1. u[i] = ab[i + 1]
          BY <4>1
        <5>2. CASE i <= n
          <6>1. i + 1 <= Len(a) /\ i \in 1..n /\ i <= Len(t)
            BY <2>2, <5>0, <5>2
          <6>2. ab[i + 1] = a[i + 1]
            BY <3>1, <5>0, <6>1
          <6>3. v[i] = t[i]
            BY <4>2, <5>0, <6>1
          <6> QED
            BY <4>3, <5>1, <6>1, <6>2, <6>3
        <5>3. CASE ~(i <= n)
          <6>1. ~(i + 1 <= Len(a)) /\ ~(i <= Len(t)) /\ (i + 1) - Len(a) = i - Len(t)
            BY <2>2, <5>0, <5>3
          <6>2. ab[i + 1] = b[(i + 1) - Len(a)]
            BY <3>1, <5>0, <6>1
          <6>3. v[i] = b[i - Len(t)]
            BY <4>2, <5>0, <6>1
          <6> QED
            BY <5>1, <6>1, <6>2, <6>3
        <5> QED
          BY <5>2, <5>3
      <4>6. u = v
        BY <4>1, <4>2, <4>4, <4>5, SeqEqual
      <4> QED
        BY <4>6 DEF u, v
    <3> QED
      BY <3>1, <3>3, <3>4, <3>5
  <2>4. Q(t)
    BY <1>3, <2>2
  <2>5. FlattenSeq(t \o b) = FlattenSeq(t) \o fb
    BY <2>4 DEF Q
  <2>6. FlattenSeq(a) = h \o FlattenSeq(t)
    BY <2>1, FlattenSeqTail DEF P
  <2>7. FlattenSeq(ab) = h \o FlattenSeq(t \o b)
    <3>1. FlattenSeq(ab) = Head(ab) \o FlattenSeq(Tail(ab))
      <4> HIDE DEF ab
      <4> QED
        BY <2>3, FlattenSeqTail DEF P
    <3> QED
      BY <2>3, <3>1
  <2>8. FlattenSeq(t) \in Seq(S)
    <3> HIDE DEF t
    <3> QED
      BY <2>2, FlattenSeqTyped DEF P
  <2> DEFINE ft == FlattenSeq(t)
  <2>9. ft \in Seq(S) /\ h \in Seq(S)
    BY <2>2, <2>8 DEF P
  <2> HIDE DEF ft, fb, h, t, ab
  <2>10. (h \o ft) \o fb = h \o (ft \o fb)
    BY <1>1, <2>9, ThreePieces
  <2> QED
    BY <2>5, <2>6, <2>7, <2>10 DEF Q, ft, fb, ab
<1> HIDE DEF T
<1>4. \A n \in Nat : n \in T
  BY <1>2, <1>3, SetInduction
<1> QED
  BY <1>4 DEF T, P

(* Each piece a single byte *)
LEMMA FlattenSeqSingles ==
  ASSUME NEW S, NEW s \in Seq(S)
  PROVE  FlattenSeq([i \in 1..Len(s) |-> <<s[i]>>]) = s
<1> DEFINE P == Seq(S)
           N == Len(s)
           one(n) == [i \in 1..n |-> <<s[i]>>]
           T == {n \in Nat : n <= N => FlattenSeq(one(n)) = SubSeq(s, 1, n)}
<1>0. N \in Nat /\ \A i \in 1..N : s[i] \in S /\ <<s[i]>> \in P
  OBVIOUS
<1>1. 0 \in T
  <2>1. one(0) = <<>>
    OBVIOUS
  <2>2. FlattenSeq(<<>>) = <<>> /\ SubSeq(s, 1, 0) = <<>>
    BY SubSeqEmpty DEF FlattenSeq
  <2> HIDE DEF one
  <2> QED
    BY <2>1, <2>2
<1>2. ASSUME NEW n \in Nat, n \in T PROVE n + 1 \in T
  <2> HIDE DEF N
  <2> HIDE DEF one
  <2> SUFFICES ASSUME n + 1 <= N PROVE FlattenSeq(one(n + 1)) = SubSeq(s, 1, n + 1)
    OBVIOUS
  <2>1. FlattenSeq(one(n)) = SubSeq(s, 1, n)
    BY <1>0, <1>2
  <2>2. n + 1 \in 1..N /\ s[n + 1] \in S
    BY <1>0
  <2>3. one(n) \in Seq(P) /\ Len(one(n)) = n
    <3>1. \A i \in 1..n : <<s[i]>> \in P
      BY <1>0
    <3> HIDE DEF P
    <3>2. one(n) \in [1..n -> P]
      BY <3>1 DEF one
    <3> QED
      BY <3>2
  <2>4. one(n + 1) = Append(one(n), <<s[n + 1]>>)
    BY DEF one
  <2>5. FlattenSeq(one(n + 1)) = SubSeq(s, 1, n) \o <<s[n + 1]>>
    <3>1. <<s[n + 1]>> \in Seq(S)
      BY <2>2
    <3>2. FlattenSeq(Append(one(n), <<s[n + 1]>>)) = FlattenSeq(one(n)) \o <<s[n + 1]>>
      BY <2>3, <3>1, FlattenSeqAppend
    <3> QED
      BY <2>1, <2>4, <3>2
  <2>6. SubSeq(s, 1, n + 1) = SubSeq(s, 1, n) \o <<s[n + 1]>>
    <3> DEFINE u == SubSeq(s, 1, n)
               v == SubSeq(s, 1, n + 1)
    <3>1. \A i \in 1..n : s[i] \in S
      BY <1>0
    <3>2. \A i \in 1..(n + 1) : s[i] \in S
      BY <1>0, <2>2
    <3>3. u \in Seq(S) /\ Len(u) = n /\ \A i \in 1..n : u[i] = s[i]
      BY <1>0 DEF N
    <3>4. v \in Seq(S) /\ Len(v) = n + 1 /\ \A i \in 1..(n + 1) : v[i] = s[i]
      BY <1>0, <2>2 DEF N
    <3> DEFINE w == Append(u, s[n + 1])
    <3> HIDE DEF u, v
    <3>5. w \in Seq(S) /\ Len(w) = n + 1 /\ \A i \in 1..(n + 1) : w[i] = s[i]
      BY <2>2, <3>3
    <3>6. w = u \o <<s[n + 1]>>
      BY <2>2, <3>3, AppendIsConcat
    <3> HIDE DEF w
    <3>7. v = w
      BY <3>4, <3>5, SeqEqual
    <3> QED
      BY <3>6, <3>7 DEF u, v
  <2> QED
    BY <2>5, <2>6
<1>3. \A n \in Nat : n \in T
  <2> HIDE DEF T
  <2> QED
    BY <1>1, <1>2, SetInduction
<1>4. FlattenSeq(one(N)) = SubSeq(s, 1, N)
  BY <1>0, <1>3
<1>5. SubSeq(s, 1, N) = s
  BY SubSeqFull
<1> QED
  BY <1>4, <1>5

=============================================================================
