-------------------------- MODULE EchoServerProofs --------------------------
(***************************************************************************)
(* Proofs about EchoServer and the Echoer in it, for any number of bytes,  *)
(* connections and ticks: nothing waits without an event to come, an actor *)
(* that stops has sent all back, an AbortError is not lost to an EOF, and  *)
(* the server goes down for the reasons the docs give.                     *)
(***************************************************************************)
EXTENDS EchoServer, TcpStreamBufProofs

USE DEF outVars, flagVars, inVars, vars, echoVars, allVars, acceptVars, timeVars, listenVars,
        serverVars

-----------------------------------------------------------------------------
(* Ready *)

(* is_readable and the others give what the event said. *)
LEMMA IsNew == \A ev \in SUBSET Flag : \A f \in Flag : is(f, new(ev)) <=> f \in ev
<1> SUFFICES ASSUME NEW ev \in SUBSET Flag, NEW f \in Flag PROVE is(f, new(ev)) <=> f \in ev
  OBVIOUS
<1> DEFINE bit(x) == IF x \in ev THEN 1 ELSE 0
           n == new(ev)
<1> DEFINE r == bit("readable")
           w == bit("writable")
           e == bit("error")
           rc == bit("read_closed")
           wc == bit("write_closed")
           p == bit("priority")
           a == bit("aio")
           l == bit("lio")
<1>1. n = (r + 2 * w + 4 * e + 8 * rc + 16 * wc + 32 * p + 64 * a + 128 * l) % 65536
  <2>1. /\ test(ev, "readable") = r /\ test(ev, "writable") = 2 * w
        /\ test(ev, "error") = 4 * e /\ test(ev, "read_closed") = 8 * rc
        /\ test(ev, "write_closed") = 16 * wc /\ test(ev, "priority") = 32 * p
        /\ test(ev, "aio") = 64 * a /\ test(ev, "lio") = 128 * l
    BY DEF test, READY
  <2> HIDE DEF r, w, e, rc, wc, p, a, l
  <2> QED
    BY <2>1 DEF new, U16
<1>2. \A x : bit(x) \in {0, 1} /\ (bit(x) = 1 <=> x \in ev)
  OBVIOUS
<1> HIDE DEF bit, n
<1>3. /\ (n \div 1) % 2 = r /\ (n \div 2) % 2 = w /\ (n \div 4) % 2 = e /\ (n \div 8) % 2 = rc
      /\ (n \div 16) % 2 = wc /\ (n \div 32) % 2 = p /\ (n \div 64) % 2 = a
      /\ (n \div 128) % 2 = l
  <2>1. /\ r \in {0, 1} /\ w \in {0, 1} /\ e \in {0, 1} /\ rc \in {0, 1} /\ wc \in {0, 1}
        /\ p \in {0, 1} /\ a \in {0, 1} /\ l \in {0, 1}
    BY <1>2
  <2> HIDE DEF r, w, e, rc, wc, p, a, l
  <2>2. n = r + 2 * w + 4 * e + 8 * rc + 16 * wc + 32 * p + 64 * a + 128 * l /\ n \in Nat
    BY <1>1, <2>1
  <2> QED
    BY <2>1, <2>2
<1>4. f \in {"readable", "writable", "error", "read_closed", "write_closed", "priority", "aio", "lio"}
  BY DEF Flag, READY
<1>5. (n \div READY[f]) % 2 = bit(f)
  BY <1>3, <1>4 DEF READY
<1> QED
  BY <1>2, <1>5 DEF is, n

-----------------------------------------------------------------------------
(* The Echoer *)

Reason == {"none", "stopped", "failed", "aborted"}

EchoTypeOK ==
  /\ k \in Stream /\ nodelay \in BOOLEAN /\ Good(ib) /\ timers \in Seq(Seq(Byte))
  /\ die \in Reason /\ back \in {"idle", "keep"}

(* A live actor has a stream it may write to; flush runs inside a handler. *)
HandlersOK ==
  /\ epc # "ended" => stream /\ ~pause
  /\ pc \in {"nodelay", "write"} => epc = "flush"
  /\ epc # "flush" => pc = "idle"

LEMMA EchoInitType == EchoInit => EchoTypeOK /\ HandlersOK
<1> SUFFICES ASSUME EchoInit PROVE EchoTypeOK /\ HandlersOK
  OBVIOUS
<1>1. \A S : <<>> \in Seq(S)
  OBVIOUS
<1>2. Good(ib)
  <2>1. ib.inp = <<>> /\ ib.rd = 0 /\ ib.wr = 0 /\ ib = [inp |-> <<>>, rd |-> 0, wr |-> 0]
    BY DEF EchoInit
  <2>2. Len(<<>>) = 0 /\ <<>> \in Seq(Byte)
    BY <1>1
  <2> QED
    BY <2>1, <2>2 DEF Good, Buffer
<1>3. timers \in Seq(Seq(Byte)) /\ k \in Stream
  BY <1>1, FreshStreams DEF EchoInit
<1> QED
  BY <1>2, <1>3 DEF EchoInit, EchoTypeOK, HandlersOK, Reason

LEMMA EchoNextType == ASSUME EchoTypeOK, HandlersOK, [EchoNext]_allVars PROVE EchoTypeOK'
<1> USE DEF EchoTypeOK, Reason
<1>0. Unread(ib) \in Seq(Byte) /\ Eof \in Seq(Byte)
  BY UnreadFacts DEF Eof
<1>1. CASE World
  <2>1. k' \in Stream
    BY <1>1, OtherSideStream DEF World
  <2>2. UNCHANGED <<nodelay, ib, timers, die, back>>
    BY <1>1 DEF World, MoveOut, Arrive, PeerEof
  <2> QED
    BY <2>1, <2>2
<1>2. CASE echoReady
  <2>1. k' \in Stream
    BY <1>2 DEF echoReady, Stream
  <2> QED
    BY <1>2, <2>1 DEF echoReady
<1>3. CASE timer
  <2>1. Tail(timers) \in Seq(Seq(Byte))
    BY <1>3 DEF timer
  <2> QED
    BY <1>3, <2>1 DEF timer
<1>4. ASSUME NEW max \in Maxes, NEW spare \in Spare, EchoRead(max, spare) PROVE EchoTypeOK'
  <2>0. max \in Nat /\ spare \in Nat
    BY ArgsAssumption
  <2>1. CASE echoNewData(max, spare)
    <3>1. Good(ib') /\ k' \in Stream
      BY <2>0, <2>1, ReadDataGood DEF echoNewData
    <3> QED
      BY <2>1, <3>1 DEF echoNewData, readData
  <2>2. CASE echoEndOfStream(max, spare)
    <3>1. Good(ib') /\ k' \in Stream
      BY <2>0, <2>2, ReadNoDataGood DEF echoEndOfStream
    <3>2. timers' \in Seq(Seq(Byte))
      BY <1>0, <2>2 DEF echoEndOfStream, EofTimers
    <3> QED
      BY <2>2, <3>1, <3>2 DEF echoEndOfStream, readEof
  <2>3. CASE echoWouldBlock(max, spare)
    <3>1. Good(ib') /\ k' \in Stream
      BY <2>0, <2>3, ReadNoDataGood DEF echoWouldBlock
    <3> QED
      BY <2>3, <3>1 DEF echoWouldBlock, readWouldBlock
  <2>4. CASE echoReadError(max, spare)
    <3>1. Good(ib')
      BY <2>0, <2>4, MakeSpaceGood DEF echoReadError
    <3> QED
      BY <2>4, <3>1 DEF echoReadError
  <2> QED
    BY <1>4, <2>1, <2>2, <2>3, <2>4 DEF EchoRead
<1>5. CASE checkBang
  BY <1>5 DEF checkBang
<1>6. CASE keepData
  <2>1. timers' \in Seq(Seq(Byte))
    BY <1>0, <1>6 DEF keepData
  <2>2. Good(ib')
    <3>1. ib.rd \in Nat /\ ib.wr \in Nat /\ ib.inp \in Seq(Byte) /\ ib.wr <= Len(ib.inp) /\ ib \in Buffer
      BY DEF Good, Buffer
    <3>2. ib'.inp = ib.inp /\ ib'.rd = ib.wr /\ ib'.wr = ib.wr /\ ib' \in Buffer
      BY <1>6, <3>1 DEF keepData, Buffer
    <3> QED
      BY <3>1, <3>2 DEF Good
  <2> QED
    BY <1>6, <2>1, <2>2 DEF keepData
<1>7. CASE callFlush
  BY <1>7 DEF callFlush
<1>8. CASE echoFlushStep \/ echoFlushError
  <2>1. k' \in Stream
    BY <1>8, FlushStream DEF echoFlushStep, echoFlushError, FlushStep
  <2>2. UNCHANGED <<nodelay, ib, timers, back>> /\ (die' = die \/ die' = "failed")
    BY <1>8
       DEF echoFlushStep, echoFlushError, flushNodelay, flushError, flushWrite, flushShutdown,
           flushReturn
  <2> QED
    BY <2>1, <2>2
<1>9. CASE flushDone
  BY <1>9 DEF flushDone
<1>10. CASE end
  <2>1. k' \in Stream
    BY <1>10, FreshStreams DEF end, deinit
  <2> QED
    BY <1>10, <2>1 DEF end, deinit
<1>11. CASE UNCHANGED allVars
  BY <1>11
<1> QED
  BY <1>1, <1>2, <1>3, <1>4, <1>5, <1>6, <1>7, <1>8, <1>9, <1>10, <1>11 DEF EchoNext, Handler

LEMMA EchoNextHandlers ==
  ASSUME EchoTypeOK, HandlersOK, [EchoNext]_allVars
  PROVE  HandlersOK'
<1> USE DEF HandlersOK
<1>1. CASE World
  BY <1>1 DEF World, MoveOut, Arrive, PeerEof
<1>2. CASE echoReady
  BY <1>2 DEF echoReady
<1>3. CASE timer
  BY <1>3 DEF timer, FlushEntry
<1>4. ASSUME NEW max \in Maxes, NEW spare \in Spare, EchoRead(max, spare) PROVE HandlersOK'
  <2>1. UNCHANGED <<stream, pause, pc>> /\ epc = "read" /\ epc' \in {"data", "call_flush", "idle"}
    BY <1>4
       DEF EchoRead, echoNewData, echoEndOfStream, echoWouldBlock, echoReadError, AfterRead,
           readData, readEof, readWouldBlock
  <2> QED
    BY <2>1
<1>5. CASE checkBang
  BY <1>5 DEF checkBang, FlushEntry
<1>6. CASE keepData
  BY <1>6 DEF keepData, ReadOn
<1>7. CASE callFlush
  BY <1>7 DEF callFlush, FlushEntry
<1>8. CASE echoFlushStep \/ echoFlushError
  <2>1. UNCHANGED <<stream, pause, epc>> /\ pc \in {"nodelay", "write"}
    BY <1>8
       DEF echoFlushStep, echoFlushError, flushNodelay, flushError, flushWrite, flushShutdown,
           flushReturn
  <2> QED
    BY <2>1
<1>9. CASE flushDone
  BY <1>9 DEF flushDone, EchoTypeOK
<1>10. CASE end
  BY <1>10 DEF end, deinit
<1>11. CASE UNCHANGED allVars
  BY <1>11
<1> QED
  BY <1>1, <1>2, <1>3, <1>4, <1>5, <1>6, <1>7, <1>8, <1>9, <1>10, <1>11 DEF EchoNext, Handler

(* What is in a queue that grows at one end and shrinks at the other *)
LEMMA ToSetAppend ==
  ASSUME NEW S, NEW s \in Seq(S), NEW x \in S
  PROVE  ToSet(Append(s, x)) = ToSet(s) \cup {x}
<1> DEFINE t == Append(s, x)
<1>1. /\ t \in Seq(S) /\ Len(t) = Len(s) + 1 /\ t[Len(s) + 1] = x
      /\ \A i \in 1..Len(s) : t[i] = s[i]
  BY AppendProperties
<1>2. DOMAIN s = 1..Len(s) /\ DOMAIN t = 1..(Len(s) + 1) /\ Len(s) \in Nat
  <2> HIDE DEF t
  <2> QED
    BY <1>1
<1> HIDE DEF t
<1>3. ASSUME NEW y \in ToSet(t) PROVE y \in ToSet(s) \cup {x}
  <2>1. PICK i \in 1..(Len(s) + 1) : y = t[i]
    BY <1>2 DEF ToSet
  <2>2. CASE i = Len(s) + 1
    BY <1>1, <2>1, <2>2
  <2>3. CASE i # Len(s) + 1
    <3>1. i \in 1..Len(s)
      BY <1>2, <2>3
    <3> QED
      BY <1>1, <1>2, <2>1, <3>1 DEF ToSet
  <2> QED
    BY <2>2, <2>3
<1>4. ASSUME NEW y \in ToSet(s) \cup {x} PROVE y \in ToSet(t)
  <2>1. CASE y = x
    <3>1. Len(s) + 1 \in DOMAIN t
      BY <1>2
    <3> QED
      BY <1>1, <2>1, <3>1 DEF ToSet
  <2>2. CASE y \in ToSet(s)
    <3>1. PICK i \in 1..Len(s) : y = s[i]
      BY <1>2, <2>2 DEF ToSet
    <3>2. i \in DOMAIN t
      BY <1>2
    <3> QED
      BY <1>1, <3>1, <3>2 DEF ToSet
  <2> QED
    BY <2>1, <2>2
<1> QED
  BY <1>3, <1>4 DEF t

LEMMA ToSetTail ==
  ASSUME NEW S, NEW s \in Seq(S), s # <<>>, NEW x \in ToSet(s)
  PROVE  x = Head(s) \/ x \in ToSet(Tail(s))
<1>1. DOMAIN s = 1..Len(s) /\ Len(s) \in Nat /\ Head(s) = s[1]
  OBVIOUS
<1>2. PICK i \in 1..Len(s) : x = s[i]
  BY <1>1 DEF ToSet
<1>3. Tail(s) \in Seq(S) /\ Len(Tail(s)) = Len(s) - 1 /\ \A j \in 1..Len(Tail(s)) : Tail(s)[j] = s[j + 1]
  BY HeadTailProperties
<1>4. CASE i = 1
  BY <1>1, <1>2, <1>4
<1>5. CASE i # 1
  <2>1. i - 1 \in 1..Len(Tail(s)) /\ (i - 1) + 1 = i
    BY <1>1, <1>3, <1>5
  <2>2. i - 1 \in DOMAIN Tail(s)
    BY <1>3, <2>1
  <2> QED
    BY <1>2, <1>3, <2>1, <2>2 DEF ToSet
<1> QED
  BY <1>4, <1>5

LEMMA InToSetTail ==
  ASSUME NEW S, NEW s \in Seq(S), s # <<>>, NEW x \in ToSet(Tail(s))
  PROVE  x \in ToSet(s)
<1>1. DOMAIN s = 1..Len(s) /\ Len(s) \in Nat
  OBVIOUS
<1>2. Tail(s) \in Seq(S) /\ Len(Tail(s)) = Len(s) - 1 /\ \A j \in 1..Len(Tail(s)) : Tail(s)[j] = s[j + 1]
  BY HeadTailProperties
<1>3. PICK i \in 1..Len(Tail(s)) : x = Tail(s)[i]
  BY <1>2 DEF ToSet
<1>4. i + 1 \in DOMAIN s
  BY <1>1, <1>2
<1> QED
  BY <1>2, <1>3, <1>4 DEF ToSet

(* An EOF received is on its way back: behind the data, in a timer, or noted
   for the output. *)
EofKept == inp_eof => out_eof \/ Eof \in ToSet(timers)

LEMMA EchoNextEofKept ==
  ASSUME EchoTypeOK, EofKept, [EchoNext]_allVars
  PROVE  EofKept'
<1> USE DEF EofKept
<1>0. timers \in Seq(Seq(Byte)) /\ Eof \in Seq(Byte) /\ Unread(ib) \in Seq(Byte)
  BY UnreadFacts DEF EchoTypeOK, Eof
<1>1. CASE timer
  <2>1. CASE Eof \in ToSet(timers)
    <3>1. Eof = Head(timers) \/ Eof \in ToSet(Tail(timers))
      BY <1>0, <1>1, <2>1, ToSetTail DEF timer
    <3> QED
      BY <1>1, <3>1 DEF timer
  <2>2. CASE Eof \notin ToSet(timers)
    BY <1>1, <2>2 DEF timer
  <2> QED
    BY <2>1, <2>2
<1>2. ASSUME NEW max \in Maxes, NEW spare \in Spare, EchoRead(max, spare) PROVE EofKept'
  <2>1. CASE echoEndOfStream(max, spare)
    <3>1. timers' = Append(timers, Eof)
      BY <2>1 DEF echoEndOfStream, EofTimers
    <3> QED
      BY <1>0, <3>1, ToSetAppend
  <2>2. CASE ~echoEndOfStream(max, spare)
    BY <1>2, <2>2
       DEF EchoRead, echoNewData, echoWouldBlock, echoReadError, readData, readWouldBlock
  <2> QED
    BY <2>1, <2>2
<1>3. CASE keepData
  <2>1. timers' = Append(timers, Unread(ib)) /\ UNCHANGED <<inp_eof, out_eof>>
    BY <1>3 DEF keepData
  <2>2. ToSet(timers') = ToSet(timers) \cup {Unread(ib)}
    BY <1>0, <2>1, ToSetAppend
  <2> QED
    BY <2>1, <2>2
<1>4. CASE World \/ echoReady
  BY <1>4 DEF World, MoveOut, Arrive, PeerEof, echoReady
<1>5. CASE checkBang \/ callFlush \/ flushDone \/ end
  BY <1>5 DEF checkBang, callFlush, flushDone, end, deinit
<1>6. CASE echoFlushStep \/ echoFlushError
  BY <1>6
     DEF echoFlushStep, echoFlushError, flushNodelay, flushError, flushWrite, flushShutdown,
         flushReturn
<1>7. CASE UNCHANGED allVars
  BY <1>7
<1> QED
  BY <1>1, <1>2, <1>3, <1>4, <1>5, <1>6, <1>7 DEF EchoNext, Handler

(* inp_eof means the end of the stream, if read is never called with 0. *)
LEMMA EchoNextEofHonest ==
  ASSUME 0 \notin Maxes, EchoTypeOK, HandlersOK, EofHonest, [EchoNext]_allVars
  PROVE  EofHonest'
<1> USE DEF EofHonest
<1>0. k \in Stream
  BY DEF EchoTypeOK
<1>1. CASE World
  <2>1. CASE MoveOut
    <3>1. k'.fin = k.fin /\ k'.rbuf = k.rbuf /\ UNCHANGED <<stream, inp_eof>>
      BY <1>0, <2>1 DEF MoveOut, Stream
    <3> QED
      BY <3>1
  <2>2. CASE Arrive \/ PeerEof
    BY <2>2 DEF Arrive, PeerEof
  <2> QED
    BY <1>1, <2>1, <2>2 DEF World
<1>2. CASE echoReady
  <2>1. k'.fin = k.fin /\ k'.rbuf = k.rbuf /\ UNCHANGED <<stream, inp_eof>>
    BY <1>0, <1>2 DEF echoReady, Stream
  <2> QED
    BY <2>1
<1>3. CASE timer \/ checkBang \/ keepData \/ callFlush \/ flushDone
  <2>1. UNCHANGED <<k, stream, inp_eof>>
    BY <1>3 DEF timer, checkBang, keepData, callFlush, flushDone
  <2> QED
    BY <2>1
<1>4. ASSUME NEW max \in Maxes, NEW spare \in Spare, EchoRead(max, spare) PROVE EofHonest'
  <2>1. CASE echoNewData(max, spare)
    <3>1. k.rbuf # <<>>
      <4>1. PICK len \in 1..Len(k.rbuf) : TRUE
        BY <2>1 DEF echoNewData, readData
      <4>2. Len(<<>>) = 0
        OBVIOUS
      <4> QED
        BY <4>1, <4>2
    <3> QED
      BY <2>1, <3>1 DEF echoNewData, readData
  <2>2. CASE echoEndOfStream(max, spare)
    <3>1. k.rbuf = <<>> /\ k.fin
      BY <2>2 DEF echoEndOfStream, readEof, ReadsNothing
    <3>2. k'.fin = k.fin /\ k'.rbuf = k.rbuf
      BY <1>0, <2>2 DEF echoEndOfStream, readEof, Stream
    <3> QED
      BY <3>1, <3>2
  <2>3. CASE echoWouldBlock(max, spare) \/ echoReadError(max, spare)
    <3>1. k'.fin = k.fin /\ k'.rbuf = k.rbuf /\ UNCHANGED <<inp_eof, stream>>
      BY <1>0, <2>3 DEF echoWouldBlock, echoReadError, readWouldBlock, Stream
    <3> QED
      BY <3>1
  <2> QED
    BY <1>4, <2>1, <2>2, <2>3 DEF EchoRead
<1>5. CASE echoFlushStep \/ echoFlushError
  <2>1. k'.fin = k.fin /\ k'.rbuf = k.rbuf /\ UNCHANGED <<stream, inp_eof>>
    BY <1>0, <1>5
       DEF echoFlushStep, echoFlushError, flushNodelay, flushError, flushWrite, flushShutdown,
           flushReturn, Stream
  <2> QED
    BY <2>1
<1>6. CASE end
  BY <1>6 DEF end, deinit
<1>7. CASE UNCHANGED allVars
  BY <1>7
<1> QED
  BY <1>1, <1>2, <1>3, <1>4, <1>5, <1>6, <1>7 DEF EchoNext, Handler

(* In the loop of ready that reads *)
Reading == epc \in {"read", "data", "keep"} \/ (epc = "flush" /\ back = "keep")

(* While the actor lives and the end of the input has not been reported, it is
   reading, an event is on its way, or the last read blocked and nothing came
   since. *)
EchoInputOK ==
  epc # "ended" /\ die = "none" /\ ~inp_eof =>
    Reading \/ k.readable \/ (k.rarm /\ k.rbuf = <<>> /\ ~k.fin)

(* Outside of a call of flush, bytes in `out` have a WRITABLE event on its way
   or to come, or flush is called before the handler is over. *)
EchoOutputOK ==
  epc # "ended" /\ die = "none" /\ pc = "idle" /\ out # <<>> =>
    \/ k.writable \/ (k.warm /\ k.nbuf > 0)
    \/ epc = "call_flush" \/ (Reading /\ is("writable", ready))

(* The event reported is the one the handler sees. *)
LEMMA EchoReadyFlags ==
  ASSUME k \in Stream, echoReady
  PROVE  /\ epc' = (IF k.readable THEN "read" ELSE "call_flush")
         /\ k.writable => is("writable", ready')
<1> DEFINE ev == {f \in {"readable", "writable"} : k[f]}
<1>1. /\ ready' = new(ev)
      /\ epc' = (IF is("readable", new(ev)) THEN "read" ELSE "call_flush")
  BY DEF echoReady
<1>2. ev \in SUBSET Flag /\ "readable" \in Flag /\ "writable" \in Flag
  BY DEF Flag, READY
<1>3. is("readable", new(ev)) <=> "readable" \in ev
  BY <1>2, IsNew
<1>4. is("writable", new(ev)) <=> "writable" \in ev
  BY <1>2, IsNew
<1>5. ("readable" \in ev <=> k.readable) /\ ("writable" \in ev <=> k.writable)
  BY DEF Stream
<1> HIDE DEF ev
<1> QED
  BY <1>1, <1>3, <1>4, <1>5

LEMMA EchoNextInput ==
  ASSUME EchoTypeOK, HandlersOK, EchoInputOK, [EchoNext]_allVars
  PROVE  EchoInputOK'
<1> USE DEF EchoInputOK, Reading
<1>0. k \in Stream /\ back \in {"idle", "keep"}
  BY DEF EchoTypeOK
<1>1. CASE World
  <2>1. CASE MoveOut
    <3>1. /\ k'.readable = k.readable /\ k'.rarm = k.rarm /\ k'.rbuf = k.rbuf /\ k'.fin = k.fin
          /\ UNCHANGED <<inp_eof, epc, back, die>>
      BY <1>0, <1>1, <2>1 DEF World, MoveOut, Stream
    <3> QED
      BY <3>1
  <2>2. CASE Arrive \/ PeerEof
    <3>1. k'.readable = (k.readable \/ k.rarm) /\ UNCHANGED <<inp_eof, epc, back, die>>
      BY <1>0, <1>1, <2>2 DEF World, Arrive, PeerEof, Stream
    <3> QED
      BY <3>1
  <2> QED
    BY <1>1, <2>1, <2>2 DEF World
<1>2. CASE echoReady
  <2>1. /\ k'.rarm = k.rarm /\ k'.rbuf = k.rbuf /\ k'.fin = k.fin /\ UNCHANGED <<inp_eof, die>>
        /\ epc = "idle"
    BY <1>0, <1>2 DEF echoReady, Stream
  <2>2. epc' = IF k.readable THEN "read" ELSE "call_flush"
    BY <1>0, <1>2, EchoReadyFlags
  <2> QED
    BY <2>1, <2>2
<1>3. CASE timer
  <2>1. UNCHANGED <<k, inp_eof, die>> /\ epc = "idle"
    BY <1>3 DEF timer
  <2> QED
    BY <2>1
<1>4. ASSUME NEW max \in Maxes, NEW spare \in Spare, EchoRead(max, spare) PROVE EchoInputOK'
  <2>1. CASE echoNewData(max, spare)
    BY <2>1 DEF echoNewData
  <2>2. CASE echoEndOfStream(max, spare)
    BY <2>2 DEF echoEndOfStream, readEof
  <2>3. CASE echoWouldBlock(max, spare)
    <3>1. stream
      BY <2>3 DEF echoWouldBlock, HandlersOK
    <3>2. k.rbuf = <<>> /\ ~k.fin
      BY <2>3, <3>1 DEF echoWouldBlock, readWouldBlock, NothingToRead
    <3>3. k'.rarm /\ k'.rbuf = k.rbuf /\ k'.fin = k.fin
      BY <1>0, <2>3, <3>1, <3>2 DEF echoWouldBlock, readWouldBlock, Stream
    <3> QED
      BY <3>2, <3>3
  <2>4. CASE echoReadError(max, spare)
    BY <2>4 DEF echoReadError
  <2> QED
    BY <1>4, <2>1, <2>2, <2>3, <2>4 DEF EchoRead
<1>5. CASE checkBang
  BY <1>5 DEF checkBang
<1>6. CASE keepData
  BY <1>6 DEF keepData, ReadOn
<1>7. CASE callFlush
  <2>1. UNCHANGED <<k, inp_eof, die>> /\ epc = "call_flush"
    BY <1>7 DEF callFlush
  <2> QED
    BY <2>1
<1>8. CASE echoFlushStep \/ echoFlushError
  <2>1. /\ k'.readable = k.readable /\ k'.rarm = k.rarm /\ k'.rbuf = k.rbuf /\ k'.fin = k.fin
        /\ UNCHANGED <<inp_eof, epc, back>> /\ (die' = die \/ die' = "failed")
    BY <1>0, <1>8
       DEF echoFlushStep, echoFlushError, flushNodelay, flushError, flushWrite, flushShutdown,
           flushReturn, Stream
  <2> QED
    BY <2>1
<1>9. CASE flushDone
  <2>1. UNCHANGED <<k, inp_eof>> /\ epc = "flush" /\ epc' = back /\ (die' = die \/ die' = "stopped")
    BY <1>9 DEF flushDone
  <2> QED
    BY <1>0, <2>1
<1>10. CASE end
  BY <1>10 DEF end
<1>11. CASE UNCHANGED allVars
  BY <1>11
<1> QED
  BY <1>1, <1>2, <1>3, <1>4, <1>5, <1>6, <1>7, <1>8, <1>9, <1>10, <1>11 DEF EchoNext, Handler

LEMMA EchoNextOutput ==
  ASSUME EchoTypeOK, HandlersOK, EchoOutputOK, [EchoNext]_allVars
  PROVE  EchoOutputOK'
<1> USE DEF EchoOutputOK, Reading
<1>0. k \in Stream /\ back \in {"idle", "keep"} /\ SndCap > 0 /\ k.nbuf \in 0..SndCap /\ SndCap \in Nat
  BY CapsAssumption DEF EchoTypeOK, Stream
<1>1. CASE World
  <2>1. UNCHANGED <<pc, out, epc, back, die, ready>>
    BY <1>1 DEF World, MoveOut, Arrive, PeerEof
  <2>2. CASE MoveOut
    <3>1. k'.writable = (k.writable \/ k.warm)
      BY <1>0, <2>2 DEF MoveOut, Stream
    <3> QED
      BY <2>1, <3>1
  <2>3. CASE Arrive \/ PeerEof
    <3>1. k'.writable = k.writable /\ k'.warm = k.warm /\ k'.nbuf = k.nbuf
      BY <1>0, <2>3 DEF Arrive, PeerEof, Stream
    <3> QED
      BY <2>1, <3>1
  <2> QED
    BY <1>1, <2>2, <2>3 DEF World
<1>2. CASE echoReady
  <2>1. k'.warm = k.warm /\ k'.nbuf = k.nbuf /\ UNCHANGED <<pc, out, die>> /\ epc = "idle"
    BY <1>0, <1>2 DEF echoReady, Stream
  <2>2. /\ epc' = IF k.readable THEN "read" ELSE "call_flush"
        /\ k.writable => is("writable", ready')
    BY <1>0, <1>2, EchoReadyFlags
  <2> QED
    BY <2>1, <2>2
<1>3. CASE timer \/ checkBang \/ callFlush
  <2>1. CASE epc' = "flush"
    <3>1. pc' = "nodelay"
      BY <1>3, <2>1 DEF timer, checkBang, callFlush, FlushEntry, HandlersOK
    <3> QED
      BY <3>1
  <2>2. CASE epc' # "flush"
    BY <1>3, <2>2 DEF timer, checkBang, callFlush
  <2> QED
    BY <2>1, <2>2
<1>4. ASSUME NEW max \in Maxes, NEW spare \in Spare, EchoRead(max, spare) PROVE EchoOutputOK'
  <2>1. /\ k'.writable = k.writable /\ k'.warm = k.warm /\ k'.nbuf = k.nbuf
        /\ UNCHANGED <<pc, out, ready>> /\ epc = "read" /\ (die' = die \/ die' = "failed")
    BY <1>0, <1>4
       DEF EchoRead, echoNewData, echoEndOfStream, echoWouldBlock, echoReadError, readData,
           readEof, readWouldBlock, Stream
  <2>2. epc' = "data" \/ epc' = (IF is("writable", ready) THEN "call_flush" ELSE "idle")
    BY <1>4
       DEF EchoRead, echoNewData, echoEndOfStream, echoWouldBlock, echoReadError, AfterRead
  <2> QED
    BY <2>1, <2>2
<1>5. CASE keepData
  <2>1. UNCHANGED <<k, pc, out, ready>> /\ epc = "keep" /\ epc' = "read" /\ (die' = die \/ die' = "aborted")
    BY <1>5 DEF keepData, ReadOn
  <2> QED
    BY <2>1
<1>6. CASE echoFlushStep
  <2>1. CASE flushReturn
    <3>1. /\ (out # <<>> /\ k.nbuf = SndCap => k'.warm) /\ k'.nbuf = k.nbuf /\ out' = out
      BY <1>0, <2>1 DEF flushReturn, Stream
    <3>2. out # <<>> => k.nbuf = SndCap
      BY <2>1 DEF flushReturn, FlushOver
    <3> QED
      BY <1>0, <3>1, <3>2
  <2>2. CASE flushNodelay \/ flushWrite \/ flushShutdown
    BY <2>2 DEF flushNodelay, flushWrite, flushShutdown
  <2> QED
    BY <1>6, <2>1, <2>2 DEF echoFlushStep
<1>7. CASE echoFlushError
  BY <1>7 DEF echoFlushError
<1>8. CASE flushDone
  <2>1. UNCHANGED <<k, pc, out, ready>> /\ epc = "flush" /\ epc' = back /\ (die' = die \/ die' = "stopped")
    BY <1>8 DEF flushDone
  <2> QED
    BY <1>0, <2>1
<1>9. CASE end
  BY <1>9 DEF end
<1>10. CASE UNCHANGED allVars
  BY <1>10
<1> QED
  BY <1>1, <1>2, <1>3, <1>4, <1>5, <1>6, <1>7, <1>8, <1>9, <1>10 DEF EchoNext, Handler

EchoInv ==
  EchoTypeOK /\ HandlersOK /\ EofKept /\ EofHonest /\ EchoInputOK /\ EchoOutputOK

(* Whatever state the Echoer is in, what it has to do next has something that
   brings it about; read is never called with 0. *)
THEOREM EchoInvariance == ASSUME 0 \notin Maxes PROVE EchoSpec => []EchoInv
<1>1. EchoInit => EchoInv
  <2> SUFFICES ASSUME EchoInit PROVE EchoInv
    OBVIOUS
  <2>1. EchoTypeOK /\ HandlersOK
    BY EchoInitType
  <2>2. EofKept /\ EofHonest /\ EchoOutputOK
    BY DEF EchoInit, EofKept, EofHonest, EchoOutputOK
  <2>3. EchoInputOK
    BY DEF EchoInit, EchoInputOK, NewStream
  <2> QED
    BY <2>1, <2>2, <2>3 DEF EchoInv
<1>2. EchoInv /\ [EchoNext]_allVars => EchoInv'
  BY EchoNextType, EchoNextHandlers, EchoNextEofKept, EchoNextEofHonest, EchoNextInput,
     EchoNextOutput DEF EchoInv
<1> QED
  BY <1>1, <1>2, PTL DEF EchoSpec

-----------------------------------------------------------------------------
(* Every byte is echoed once and in order. *)

EchoBytesOK ==
  /\ wire \in Seq(Byte) /\ out \in Seq(Byte) /\ handed \in Seq(Byte)
  /\ EchoIntact

LEMMA ByteJoin == \A a, b \in Seq(Byte) : a \o b \in Seq(Byte)
  BY ConcatProperties

Joined(w, o, f, u) == ((w \o o) \o f) \o u

LEMMA RegroupTimer ==
  \A w, o, h, g, u \in Seq(Byte) : Joined(w, o \o h, g, u) = Joined(w, o, h \o g, u)
<1> SUFFICES ASSUME NEW w \in Seq(Byte), NEW o \in Seq(Byte), NEW h \in Seq(Byte),
                    NEW g \in Seq(Byte), NEW u \in Seq(Byte)
             PROVE  Joined(w, o \o h, g, u) = Joined(w, o, h \o g, u)
  OBVIOUS
<1>1. (w \o o) \o h = w \o (o \o h)
  BY BytePieces
<1> DEFINE wo == w \o o
<1>2. wo \in Seq(Byte)
  BY ByteJoin
<1> HIDE DEF wo
<1>3. (wo \o h) \o g = wo \o (h \o g)
  BY BytePieces, <1>2
<1> QED
  BY <1>1, <1>3 DEF wo, Joined

LEMMA RegroupKept ==
  \A w, o, f, u \in Seq(Byte) : Joined(w, o, f \o u, <<>>) = Joined(w, o, f, u)
<1> SUFFICES ASSUME NEW w \in Seq(Byte), NEW o \in Seq(Byte), NEW f \in Seq(Byte),
                    NEW u \in Seq(Byte)
             PROVE  Joined(w, o, f \o u, <<>>) = Joined(w, o, f, u)
  OBVIOUS
<1> DEFINE wo == w \o o
           fu == f \o u
<1>1. wo \in Seq(Byte)
  BY ByteJoin
<1>2. fu \in Seq(Byte)
  BY ByteJoin
<1> HIDE DEF wo
<1>3. (wo \o f) \o u = wo \o fu
  BY <1>1, BytePieces
<1> HIDE DEF fu
<1>4. wo \o fu \in Seq(Byte)
  BY <1>1, <1>2, ByteJoin
<1> DEFINE e == wo \o fu
<1>5. e \in Seq(Byte)
  BY <1>4
<1> HIDE DEF e
<1>6. e \o <<>> = e
  BY <1>5, ConcatSimplifications
<1> QED
  BY <1>3, <1>6 DEF e, wo, fu, Joined

LEMMA EchoNextBytes ==
  ASSUME EchoTypeOK, EchoBytesOK, [EchoNext]_allVars
  PROVE  EchoBytesOK'
<1> DEFINE f == FlattenSeq(timers)
           u == Unread(ib)
<1>0. /\ wire \in Seq(Byte) /\ out \in Seq(Byte) /\ handed \in Seq(Byte)
      /\ timers \in Seq(Seq(Byte)) /\ f \in Seq(Byte) /\ u \in Seq(Byte)
      /\ ((wire \o out) \o f) \o u = handed
  <2>1. timers \in Seq(Seq(Byte)) /\ Good(ib)
    BY DEF EchoTypeOK
  <2>2. f \in Seq(Byte)
    BY <2>1, FlattenSeqTyped
  <2>3. u \in Seq(Byte)
    BY <2>1, UnreadFacts
  <2> HIDE DEF f, u
  <2>4. ((wire \o out) \o f) \o u = handed
    BY DEF EchoBytesOK, EchoIntact, f, u
  <2> QED
    BY <2>1, <2>2, <2>3, <2>4 DEF EchoBytesOK
<1> HIDE DEF f, u
<1>a. wire \in Seq(Byte)
  BY <1>0
<1>b. out \in Seq(Byte)
  BY <1>0
<1>c. f \in Seq(Byte)
  BY <1>0
<1>d. u \in Seq(Byte)
  BY <1>0
<1>e. \A x \in Seq(Byte) : Joined(wire, out, f, u) \o x = Joined(wire, out, f, u \o x)
  <2> DEFINE p == (wire \o out) \o f
  <2>1. wire \o out \in Seq(Byte)
    BY <1>a, <1>b, ByteJoin
  <2>2. p \in Seq(Byte)
    BY <1>c, <2>1, ByteJoin
  <2> HIDE DEF p
  <2>3. \A x \in Seq(Byte) : (p \o u) \o x = p \o (u \o x)
    BY <1>d, <2>2, BytePieces
  <2> QED
    BY <2>3 DEF p, Joined
<1>1. CASE timer
  <2> DEFINE h == Head(timers)
             g == FlattenSeq(Tail(timers))
  <2>1. /\ timers # <<>> /\ out' = out \o h /\ timers' = Tail(timers)
        /\ UNCHANGED <<wire, handed, ib>>
    BY <1>1 DEF timer, OutExtended
  <2>2. h \in Seq(Byte)
    BY <1>0, <2>1
  <2>3. f = h \o g
    BY <1>0, <2>1, FlattenSeqTail DEF f
  <2>4. g \in Seq(Byte)
    <3>1. Tail(timers) \in Seq(Seq(Byte))
      BY <1>0, <2>1
    <3> QED
      BY <3>1, FlattenSeqTyped
  <2>5. FlattenSeq(timers') = g /\ Unread(ib') = u
    BY <2>1 DEF u
  <2> HIDE DEF h, g
  <2>6. out \o h \in Seq(Byte)
    BY <1>0, <2>2, ConcatProperties
  <2>7. Joined(wire, out \o h, g, u) = Joined(wire, out, h \o g, u)
    BY <1>a, <1>b, <1>d, <2>2, <2>4, RegroupTimer
  <2>8. EchoIntact'
    BY <1>0, <2>1, <2>3, <2>5, <2>7 DEF EchoIntact, Joined
  <2> QED
    BY <1>0, <2>1, <2>6, <2>8 DEF EchoBytesOK
<1>2. CASE keepData
  <2>1. /\ timers' = Append(timers, u) /\ ib' = [ib EXCEPT !.rd = ib.wr]
        /\ UNCHANGED <<wire, out, handed>>
    BY <1>2 DEF keepData, u
  <2>2. FlattenSeq(timers') = f \o u
    BY <1>0, <2>1, FlattenSeqAppend DEF f
  <2>3. Unread(ib') = <<>>
    <3>1. ib'.inp = ib.inp /\ ib'.rd = ib.wr /\ ib'.wr = ib.wr /\ ib.wr \in Int /\ ib.wr < ib.wr + 1
      BY <2>1 DEF EchoTypeOK, Good, Buffer
    <3> QED
      BY <3>1, SubSeqEmpty DEF Unread
  <2>4. Joined(wire, out, f \o u, <<>>) = Joined(wire, out, f, u)
    BY <1>a, <1>b, <1>c, <1>d, RegroupKept
  <2>5. EchoIntact'
    BY <1>0, <2>1, <2>2, <2>3, <2>4 DEF EchoIntact, Joined
  <2> QED
    BY <1>0, <2>1, <2>5 DEF EchoBytesOK
<1>3. ASSUME NEW max \in Maxes, NEW spare \in Spare, EchoRead(max, spare) PROVE EchoBytesOK'
  <2>0. max \in Nat /\ spare \in Nat /\ Good(ib) /\ k \in Stream
    BY ArgsAssumption DEF EchoTypeOK
  <2>1. CASE echoNewData(max, spare)
    <3>1. \E n \in Seq(1..MaxIn) : handed' = handed \o n /\ Unread(ib') = Unread(ib) \o n
      BY <2>0, <2>1, ReadDataGood DEF echoNewData
    <3>2. PICK n \in Seq(Byte) : handed' = handed \o n /\ Unread(ib') = u \o n
      BY <3>1, BytesTyped DEF u
    <3>3. n \in Seq(Byte)
      OBVIOUS
    <3>4. UNCHANGED <<wire, out, timers>>
      BY <2>1 DEF echoNewData, readData
    <3>5. Joined(wire, out, f, u) \o n = Joined(wire, out, f, u \o n)
      BY <1>e, <3>3
    <3>6. FlattenSeq(timers') = f
      BY <3>4 DEF f
    <3>7. EchoIntact'
      BY <1>0, <3>2, <3>4, <3>5, <3>6 DEF EchoIntact, Joined
    <3>8. handed \o n \in Seq(Byte)
      BY <1>0, <3>3, ConcatProperties
    <3> QED
      BY <1>0, <3>2, <3>4, <3>7, <3>8 DEF EchoBytesOK
  <2>2. CASE echoEndOfStream(max, spare)
    <3>1. Unread(ib') = u
      BY <2>0, <2>2, ReadNoDataGood DEF echoEndOfStream, u
    <3>2. UNCHANGED <<wire, out, handed>> /\ timers' = Append(timers, <<>>)
      BY <2>2 DEF echoEndOfStream, readEof, EofTimers, Eof
    <3>3. <<>> \in Seq(Byte)
      OBVIOUS
    <3>4. FlattenSeq(timers') = f \o <<>>
      BY <1>0, <3>2, <3>3, FlattenSeqAppend DEF f
    <3>5. f \o <<>> = f
      BY <1>0, ConcatSimplifications
    <3>6. EchoIntact'
      BY <1>0, <3>1, <3>2, <3>4, <3>5 DEF EchoIntact
    <3> QED
      BY <1>0, <3>2, <3>6 DEF EchoBytesOK
  <2>3. CASE echoWouldBlock(max, spare) \/ echoReadError(max, spare)
    <3>1. Unread(ib') = u
      BY <2>0, <2>3, MakeSpaceGood DEF echoWouldBlock, readWouldBlock, echoReadError, u
    <3>2. UNCHANGED <<wire, out, handed, timers>>
      BY <2>3 DEF echoWouldBlock, echoReadError, readWouldBlock
    <3>3. EchoIntact'
      BY <1>0, <3>1, <3>2 DEF EchoIntact, f
    <3> QED
      BY <1>0, <3>2, <3>3 DEF EchoBytesOK
  <2> QED
    BY <1>3, <2>1, <2>2, <2>3 DEF EchoRead
<1>4. CASE flushWrite /\ UNCHANGED echoVars
  <2>1. PICK len \in 1..Len(out) :
          wire' = wire \o SubSeq(out, 1, len) /\ out' = SubSeq(out, len + 1, Len(out))
    BY <1>4 DEF flushWrite, Drained
  <2> DEFINE a == SubSeq(out, 1, len)
             b == SubSeq(out, len + 1, Len(out))
  <2>2. len \in 0..Len(out)
    BY <1>0
  <2>3. a \in Seq(Byte) /\ wire \o a \in Seq(Byte) /\ b \in Seq(Byte)
    BY <1>0, <2>2, Moved
  <2>4. a \o b = out
    BY <1>0, <2>2, Moved
  <2>5. wire' = wire \o a /\ out' = b
    BY <2>1
  <2> HIDE DEF a, b
  <2>6. (wire \o a) \o b = wire \o (a \o b)
    <3>1. a \in Seq(Byte)
      BY <2>3
    <3>2. b \in Seq(Byte)
      BY <2>3
    <3> QED
      BY <1>a, <3>1, <3>2, BytePieces
  <2>7. UNCHANGED <<handed, ib, timers>>
    BY <1>4 DEF flushWrite
  <2>8. FlattenSeq(timers') = f /\ Unread(ib') = u
    BY <2>7 DEF f, u
  <2>9. EchoIntact'
    BY <1>0, <2>4, <2>5, <2>6, <2>7, <2>8 DEF EchoIntact
  <2> QED
    BY <1>0, <2>3, <2>5, <2>7, <2>9 DEF EchoBytesOK
<1>5. ASSUME UNCHANGED <<wire, out, handed, ib, timers>> PROVE EchoBytesOK'
  BY <1>5 DEF EchoBytesOK, EchoIntact, Unread
<1>6. CASE World \/ echoReady \/ checkBang \/ callFlush \/ flushDone \/ end \/ UNCHANGED allVars
  <2>1. UNCHANGED <<wire, out, handed, ib, timers>>
    BY <1>6
       DEF World, MoveOut, Arrive, PeerEof, echoReady, checkBang, callFlush, flushDone, end, deinit
  <2> QED
    BY <1>5, <2>1
<1>7. CASE echoFlushError \/ ((flushNodelay \/ flushShutdown \/ flushReturn) /\ UNCHANGED echoVars)
  <2>1. UNCHANGED <<wire, out, handed, ib, timers>>
    BY <1>7 DEF echoFlushError, flushError, flushNodelay, flushShutdown, flushReturn
  <2> QED
    BY <1>5, <2>1
<1> QED
  BY <1>1, <1>2, <1>3, <1>4, <1>6, <1>7 DEF EchoNext, Handler, echoFlushStep

-----------------------------------------------------------------------------
(* The server *)

(* The listener and the other connections leave an Echoer to itself: under
   them it does only what it does alone. *)
THEOREM ServerRunsEchoer == ServerSpec => EchoSpec
<1>1. ServerInit => EchoInit
  BY DEF ServerInit
<1>2. [ServerNext]_serverVars => [EchoNext]_allVars
  <2> SUFFICES ASSUME [ServerNext]_serverVars PROVE [EchoNext]_allVars
    OBVIOUS
  <2>1. CASE Connection \/ Tick
    BY <2>1 DEF Connection, Tick
  <2>2. CASE connect \/ Accept
    BY <2>2 DEF connect, Accept, acceptOk, acceptWouldBlock, acceptError
  <2>3. CASE inactivity \/ terminated \/ otherEnds
    BY <2>3 DEF inactivity, terminated, otherEnds
  <2>4. CASE echoerCalled \/ echoerGoesOn \/ echoerWorld \/ echoerEnds
    BY <2>4 DEF echoerCalled, echoerGoesOn, echoerWorld, echoerEnds, EchoNext
  <2>5. CASE UNCHANGED serverVars
    BY <2>5
  <2> QED
    BY <2>1, <2>2, <2>3, <2>4, <2>5 DEF ServerNext
<1> QED
  BY <1>1, <1>2, PTL DEF ServerSpec, EchoSpec

(* Outside connect, a connection that waits has an event on its way. *)
ListenOK ==
  /\ backlog \in Nat
  /\ lpc = "idle" => lready \/ (larm /\ backlog = 0)

LEMMA ListenNext == ASSUME ListenOK, [ServerNext]_serverVars PROVE ListenOK'
<1> USE DEF ListenOK
<1>1. CASE Connection
  <2>1. backlog' \in Nat
    BY <1>1 DEF Connection
  <2>2. lpc' = lpc /\ (lready' <=> lready \/ larm)
    BY <1>1 DEF Connection
  <2> QED
    BY <2>1, <2>2
<1>2. CASE Tick \/ connect
  BY <1>2 DEF Tick, connect
<1>3. CASE acceptOk
  BY <1>3 DEF acceptOk, AcceptOn
<1>4. CASE acceptWouldBlock \/ acceptError
  BY <1>4 DEF acceptWouldBlock, acceptError, Fail
<1>5. CASE inactivity \/ terminated \/ otherEnds
  BY <1>5 DEF inactivity, terminated, otherEnds, Fail
<1>6. CASE echoerCalled \/ echoerGoesOn \/ echoerWorld \/ echoerEnds
  BY <1>6 DEF echoerCalled, echoerGoesOn, echoerWorld, echoerEnds
<1>7. CASE UNCHANGED serverVars
  BY <1>7
<1> QED
  BY <1>1, <1>2, <1>3, <1>4, <1>5, <1>6, <1>7 DEF ServerNext, Accept

(* connect accepts until WouldBlock, and ready reads and writes until
   WouldBlock: no connection, no input and no output waits without an event to
   come, and an EOF received is passed on; read is never called with 0. *)
THEOREM NeverStranded == ASSUME 0 \notin Maxes PROVE ServerSpec => []NothingStranded
<1>1. ServerInit => ListenOK
  BY DEF ServerInit, ListenOK
<1>2. ListenOK /\ [ServerNext]_serverVars => ListenOK'
  BY ListenNext
<1>3. EchoSpec => []EchoInv
  BY EchoInvariance
<1>4. EchoInv => NoStrandedEcho
  <2> SUFFICES ASSUME EchoInv, epc = "idle", die = "none"
               PROVE  /\ k.rbuf # <<>> \/ (k.fin /\ ~inp_eof) => k.readable
                      /\ inp_eof => out_eof \/ Eof \in ToSet(timers)
                      /\ out # <<>> => k.writable \/ (k.warm /\ k.nbuf > 0)
    BY DEF NoStrandedEcho
  <2>1. stream /\ pc = "idle" /\ ~Reading
    BY DEF EchoInv, HandlersOK, Reading
  <2> QED
    BY <2>1 DEF EchoInv, EofKept, EofHonest, EchoInputOK, EchoOutputOK
<1>5. ListenOK /\ EchoInv => NothingStranded
  BY <1>4 DEF NothingStranded, ListenOK
<1> QED
  BY <1>1, <1>2, <1>3, <1>5, ServerRunsEchoer, PTL DEF ServerSpec

(* Every byte the Echoer received is in one of the four places. *)
THEOREM EchoBytesInvariance == EchoSpec => []EchoBytesOK
<1>1. EchoInit => EchoTypeOK /\ HandlersOK /\ EchoBytesOK
  <2> SUFFICES ASSUME EchoInit PROVE EchoBytesOK
    BY EchoInitType
  <2>1. wire = <<>> /\ out = <<>> /\ handed = <<>> /\ timers = <<>>
    BY DEF EchoInit
  <2>2. <<>> \in Seq(Byte) /\ <<>> \o <<>> = <<>> /\ Len(<<>>) = 0
    OBVIOUS
  <2>3. FlattenSeq(timers) = <<>>
    BY <2>1, <2>2 DEF FlattenSeq
  <2>4. Unread(ib) = <<>>
    <3>1. ib.rd = 0 /\ ib.wr = 0
      BY DEF EchoInit
    <3> QED
      BY <3>1, SubSeqEmpty DEF Unread
  <2> QED
    BY <2>1, <2>2, <2>3, <2>4 DEF EchoBytesOK, EchoIntact
<1>2. EchoTypeOK /\ HandlersOK /\ EchoBytesOK /\ [EchoNext]_allVars =>
        (EchoTypeOK /\ HandlersOK /\ EchoBytesOK)'
  BY EchoNextType, EchoNextHandlers, EchoNextBytes
<1> QED
  BY <1>1, <1>2, PTL DEF EchoSpec

(* ready, send_data and flush: every byte received is, once and in order,
   sent, in `out`, in a timer or in hand, whatever partial reads and writes,
   errors and special characters there are. *)
THEOREM EchoedIntact == ServerSpec => []EchoIntact
<1>1. EchoBytesOK => EchoIntact
  BY DEF EchoBytesOK
<1> QED
  BY <1>1, EchoBytesInvariance, ServerRunsEchoer, PTL

-----------------------------------------------------------------------------
(* An Echoer that stops has sent everything back. *)

(* What the peer sent was received or is in the socket. *)
PeerOK ==
  /\ k.peer \in Nat /\ handed \in Seq(Byte)
  /\ epc # "ended" => handed \o k.rbuf = [i \in 1..k.peer |-> i]

(* Bytes are unread exactly from a read to keepData. *)
Holding == epc \in {"data", "keep"} \/ (epc = "flush" /\ back = "keep")
InHandOK == Holding <=> Unread(ib) # <<>>

(* The EOF is reported once: nothing is read after it, and no data is to be
   sent back behind it. *)
EofOnce ==
  /\ inp_eof /\ epc # "ended" => ~k.readable /\ ~Reading
  /\ \A i \in 1..Len(timers) : timers[i] = Eof => inp_eof /\ i = Len(timers)

(* Without a '!' the output ends only behind the last timer. *)
StopOK ==
  mark.bang \notin ToSet(handed) =>
    /\ out_eof => inp_eof /\ timers = <<>>
    /\ die = "stopped" => out_eof /\ out = <<>>

StopInv == PeerOK /\ InHandOK /\ EofOnce /\ StopOK

LEMMA EchoNextPeer ==
  ASSUME EchoTypeOK, HandlersOK, PeerOK, [EchoNext]_allVars
  PROVE  PeerOK'
<1> USE DEF PeerOK
<1>0. k \in Stream /\ k.rbuf \in Seq(Byte)
  <2>1. k \in Stream /\ k.rbuf \in Seq(1..MaxIn)
    BY DEF EchoTypeOK, Stream
  <2> QED
    BY <2>1, BytesTyped
<1>1. ASSUME k'.rbuf = k.rbuf, k'.peer = k.peer, handed' = handed, epc' # "ended" => epc # "ended"
      PROVE  PeerOK'
  BY <1>1
<1>2. CASE World
  <2>0. UNCHANGED <<handed, epc>>
    BY <1>2 DEF World, MoveOut, Arrive, PeerEof
  <2>1. CASE MoveOut \/ PeerEof
    <3>1. k'.rbuf = k.rbuf /\ k'.peer = k.peer
      BY <1>0, <2>1 DEF MoveOut, PeerEof, Stream
    <3> QED
      BY <1>1, <2>0, <3>1
  <2>2. CASE Arrive
    <3>1. k'.rbuf = Append(k.rbuf, k.peer + 1) /\ k'.peer = k.peer + 1 /\ k.peer + 1 \in Byte
      BY <1>0, <2>2, BoundsAssumption DEF Arrive, Stream, Byte
    <3>2. handed \o Append(k.rbuf, k.peer + 1) = Append(handed \o k.rbuf, k.peer + 1)
      <4> DEFINE p == <<k.peer + 1>>
                 q == handed \o k.rbuf
      <4>1. p \in Seq(Byte)
        BY <3>1
      <4>2. Append(k.rbuf, k.peer + 1) = k.rbuf \o p
        BY <1>0, <3>1, AppendIsConcat
      <4>3. q \in Seq(Byte)
        BY <1>0, ConcatProperties
      <4> HIDE DEF q
      <4>4. Append(q, k.peer + 1) = q \o p
        BY <3>1, <4>3, AppendIsConcat
      <4> HIDE DEF p
      <4>5. q \o p = handed \o (k.rbuf \o p)
        BY <1>0, <4>1, BytePieces DEF q
      <4> QED
        BY <4>2, <4>4, <4>5 DEF q
    <3>3. epc # "ended" => Append(handed \o k.rbuf, k.peer + 1) = [i \in 1..(k.peer + 1) |-> i]
      BY OneMore
    <3>4. k.peer + 1 \in Nat
      OBVIOUS
    <3> QED
      BY <2>0, <3>1, <3>2, <3>3, <3>4
  <2> QED
    BY <1>2, <2>1, <2>2 DEF World
<1>3. CASE echoReady
  <2>1. k'.rbuf = k.rbuf /\ k'.peer = k.peer /\ handed' = handed /\ epc = "idle"
    BY <1>0, <1>3 DEF echoReady, Stream
  <2> QED
    BY <1>1, <2>1
<1>4. CASE timer \/ checkBang \/ keepData \/ callFlush \/ flushDone
  <2>1. UNCHANGED <<k, handed>> /\ epc # "ended"
    BY <1>4 DEF timer, checkBang, keepData, callFlush, flushDone
  <2> QED
    BY <1>1, <2>1
<1>5. ASSUME NEW max \in Maxes, NEW spare \in Spare, EchoRead(max, spare) PROVE PeerOK'
  <2>0. max \in Nat /\ spare \in Nat /\ Good(ib) /\ epc = "read"
    BY <1>5, ArgsAssumption
       DEF EchoTypeOK, EchoRead, echoNewData, echoEndOfStream, echoWouldBlock, echoReadError
  <2>1. CASE echoNewData(max, spare)
    <3>1. PICK n \in Seq(1..MaxIn) : handed' = handed \o n /\ n \o k'.rbuf = k.rbuf
      BY <1>0, <2>0, <2>1, ReadDataGood DEF echoNewData
    <3>2. k' \in Stream /\ k'.peer = k.peer
      <4>1. k' \in Stream
        BY <1>0, <2>0, <2>1, ReadDataGood DEF echoNewData
      <4> QED
        BY <1>0, <2>1, <4>1 DEF echoNewData, readData, Stream
    <3>3. n \in Seq(Byte) /\ k'.rbuf \in Seq(Byte)
      <4>1. k'.rbuf \in Seq(1..MaxIn)
        BY <3>2 DEF Stream
      <4> QED
        BY <4>1, BytesTyped
    <3>4. (handed \o n) \o k'.rbuf = handed \o (n \o k'.rbuf)
      BY <3>3, BytePieces
    <3>5. handed \o n \in Seq(Byte)
      BY <3>3, ByteJoin
    <3> QED
      BY <2>0, <3>1, <3>2, <3>4, <3>5
  <2>2. CASE ~echoNewData(max, spare)
    <3>1. k'.rbuf = k.rbuf /\ k'.peer = k.peer /\ handed' = handed
      BY <1>0, <1>5, <2>2
         DEF EchoRead, echoEndOfStream, echoWouldBlock, echoReadError, readEof, readWouldBlock, Stream
    <3> QED
      BY <1>1, <2>0, <3>1
  <2> QED
    BY <2>1, <2>2
<1>6. CASE echoFlushStep \/ echoFlushError
  <2>1. k'.rbuf = k.rbuf /\ k'.peer = k.peer /\ handed' = handed /\ epc' = epc
    BY <1>0, <1>6
       DEF echoFlushStep, echoFlushError, flushNodelay, flushError, flushWrite, flushShutdown,
           flushReturn, Stream
  <2> QED
    BY <1>1, <2>1
<1>7. CASE end
  <2>1. handed' = handed /\ epc' = "ended" /\ k' \in Stream
    BY <1>7, FreshStreams DEF end, deinit
  <2>2. k'.peer \in Nat
    BY <2>1 DEF Stream
  <2> QED
    BY <2>1, <2>2
<1>8. CASE UNCHANGED allVars
  BY <1>8
<1> QED
  BY <1>2, <1>3, <1>4, <1>5, <1>6, <1>7, <1>8 DEF EchoNext, Handler

LEMMA EchoNextInHand ==
  ASSUME EchoTypeOK, HandlersOK, InHandOK, [EchoNext]_allVars
  PROVE  InHandOK'
<1> USE DEF InHandOK, Holding
<1>0. k \in Stream /\ Good(ib) /\ back \in {"idle", "keep"}
  BY DEF EchoTypeOK
<1>1. ASSUME ib' = ib, Holding' <=> Holding PROVE InHandOK'
  BY <1>1 DEF Unread
<1>2. CASE World \/ echoReady \/ timer \/ callFlush \/ end
  BY <1>1, <1>2 DEF World, MoveOut, Arrive, PeerEof, echoReady, timer, callFlush, end, deinit
<1>3. ASSUME NEW max \in Maxes, NEW spare \in Spare, EchoRead(max, spare) PROVE InHandOK'
  <2>0. max \in Nat /\ spare \in Nat /\ epc = "read" /\ Unread(ib) = <<>>
    BY <1>3, ArgsAssumption
       DEF EchoRead, echoNewData, echoEndOfStream, echoWouldBlock, echoReadError
  <2>1. CASE echoNewData(max, spare)
    <3>1. PICK n \in Seq(1..MaxIn) : n # <<>> /\ Unread(ib') = Unread(ib) \o n
      BY <1>0, <2>0, <2>1, ReadDataGood DEF echoNewData
    <3>2. <<>> \o n = n
      BY ConcatSimplifications
    <3>3. epc' = "data"
      BY <2>1 DEF echoNewData
    <3> QED
      BY <2>0, <3>1, <3>2, <3>3
  <2>2. CASE ~echoNewData(max, spare)
    <3>1. Unread(ib') = Unread(ib)
      BY <1>0, <1>3, <2>0, <2>2, ReadNoDataGood, MakeSpaceGood
         DEF EchoRead, echoEndOfStream, echoWouldBlock, echoReadError
    <3>2. epc' \in {"call_flush", "idle"}
      BY <1>3, <2>2 DEF EchoRead, echoEndOfStream, echoWouldBlock, echoReadError, AfterRead
    <3> QED
      BY <2>0, <3>1, <3>2
  <2> QED
    BY <2>1, <2>2
<1>4. CASE checkBang \/ flushDone
  BY <1>0, <1>1, <1>4 DEF checkBang, flushDone
<1>5. CASE keepData
  <2>1. epc' = "read"
    BY <1>5 DEF keepData, ReadOn
  <2>2. Unread(ib') = <<>>
    <3>1. ib'.inp = ib.inp /\ ib'.rd = ib.wr /\ ib'.wr = ib.wr /\ ib.wr \in Int /\ ib.wr < ib.wr + 1
      BY <1>0, <1>5 DEF keepData, Good, Buffer
    <3> QED
      BY <3>1, SubSeqEmpty DEF Unread
  <2> QED
    BY <2>1, <2>2
<1>6. CASE echoFlushStep \/ echoFlushError
  <2>1. UNCHANGED <<ib, epc, back>>
    BY <1>6
       DEF echoFlushStep, echoFlushError, flushNodelay, flushError, flushWrite, flushShutdown,
           flushReturn
  <2> QED
    BY <1>1, <2>1
<1>7. CASE UNCHANGED allVars
  BY <1>1, <1>7
<1> QED
  BY <1>2, <1>3, <1>4, <1>5, <1>6, <1>7 DEF EchoNext, Handler

LEMMA EchoNextEofOnce ==
  ASSUME 0 \notin Maxes, EchoTypeOK, HandlersOK, EofHonest, InHandOK, EofOnce, [EchoNext]_allVars
  PROVE  EofOnce'
<1> USE DEF EofOnce, Reading
<1>0. /\ k \in Stream /\ Good(ib) /\ back \in {"idle", "keep"}
      /\ timers \in Seq(Seq(Byte)) /\ Len(timers) \in Nat
  BY DEF EchoTypeOK
<1>1. ASSUME UNCHANGED <<inp_eof, timers>>, epc' # "ended" => epc # "ended",
             inp_eof /\ epc # "ended" /\ epc' # "ended" => ~k'.readable /\ ~Reading'
      PROVE  EofOnce'
  BY <1>1
<1>2. CASE World
  <2>0. UNCHANGED <<inp_eof, timers, epc, back>>
    BY <1>2 DEF World, MoveOut, Arrive, PeerEof
  <2>1. CASE MoveOut
    <3>1. k'.readable = k.readable
      BY <1>0, <2>1 DEF MoveOut, Stream
    <3> QED
      BY <1>1, <2>0, <3>1
  <2>2. CASE Arrive \/ PeerEof
    <3>1. ~inp_eof
      BY <2>2 DEF Arrive, PeerEof, EofHonest
    <3> QED
      BY <1>1, <2>0, <3>1
  <2> QED
    BY <1>2, <2>1, <2>2 DEF World
<1>3. CASE echoReady
  <2>1. epc = "idle" /\ ~k'.readable /\ UNCHANGED <<inp_eof, timers>>
    BY <1>0, <1>3 DEF echoReady, Stream
  <2>2. epc' = IF k.readable THEN "read" ELSE "call_flush"
    BY <1>0, <1>3, EchoReadyFlags
  <2> QED
    BY <1>1, <2>1, <2>2
<1>4. CASE timer
  <2>1. /\ epc = "idle" /\ epc' = "flush" /\ back' = "idle" /\ UNCHANGED <<k, inp_eof>>
        /\ timers # <<>> /\ timers' = Tail(timers)
    BY <1>4 DEF timer
  <2>2. Len(timers') = Len(timers) - 1 /\ \A i \in 1..Len(timers') : timers'[i] = timers[i + 1]
    BY <1>0, <2>1
  <2>3. ASSUME NEW i \in 1..Len(timers'), timers'[i] = Eof PROVE inp_eof' /\ i = Len(timers')
    <3>1. i + 1 \in 1..Len(timers) /\ timers[i + 1] = Eof
      BY <1>0, <2>2, <2>3
    <3>2. inp_eof /\ i + 1 = Len(timers)
      BY <3>1
    <3>3. inp_eof'
      BY <2>1, <3>2
    <3>4. i = Len(timers')
      BY <1>0, <2>2, <3>2
    <3> QED
      BY <3>3, <3>4
  <2> QED
    BY <2>1, <2>3
<1>5. ASSUME NEW max \in Maxes, NEW spare \in Spare, EchoRead(max, spare) PROVE EofOnce'
  <2>0. epc = "read" /\ ~inp_eof
    BY <1>5 DEF EchoRead, echoNewData, echoEndOfStream, echoWouldBlock, echoReadError
  <2>1. CASE echoEndOfStream(max, spare)
    <3>1. timers' = Append(timers, Eof) /\ inp_eof'
      BY <2>1 DEF echoEndOfStream, readEof, EofTimers
    <3>2. Eof \in Seq(Byte)
      BY DEF Eof
    <3>3. Len(timers') = Len(timers) + 1 /\ \A i \in 1..Len(timers) : timers'[i] = timers[i]
      BY <1>0, <3>1, <3>2
    <3>4. epc' \in {"call_flush", "idle"} /\ ~k'.readable
      BY <1>0, <2>1 DEF echoEndOfStream, readEof, AfterRead, Stream
    <3>5. ASSUME NEW i \in 1..Len(timers'), timers'[i] = Eof PROVE i = Len(timers')
      BY <1>0, <2>0, <3>3, <3>5
    <3> QED
      BY <3>1, <3>4, <3>5
  <2>2. CASE ~echoEndOfStream(max, spare)
    <3>1. UNCHANGED <<inp_eof, timers>>
      BY <1>5, <2>2
         DEF EchoRead, echoNewData, echoWouldBlock, echoReadError, readData, readWouldBlock
    <3> QED
      BY <1>1, <2>0, <3>1
  <2> QED
    BY <2>1, <2>2
<1>6. CASE keepData
  <2>1. timers' = Append(timers, Unread(ib)) /\ UNCHANGED inp_eof /\ epc = "keep"
    BY <1>6 DEF keepData
  <2>2. Unread(ib) # Eof /\ Unread(ib) \in Seq(Byte) /\ ~inp_eof
    BY <1>0, <2>1, UnreadFacts DEF InHandOK, Holding, Eof
  <2>3. /\ Len(timers') = Len(timers) + 1 /\ \A i \in 1..Len(timers) : timers'[i] = timers[i]
        /\ timers'[Len(timers) + 1] = Unread(ib)
    BY <1>0, <2>1, <2>2
  <2>4. ASSUME NEW i \in 1..Len(timers') PROVE timers'[i] # Eof
    BY <1>0, <2>2, <2>3
  <2> QED
    BY <2>1, <2>2, <2>4
<1>7. CASE checkBang \/ callFlush \/ flushDone \/ end
  <2>1. UNCHANGED <<inp_eof, timers>> /\ epc # "ended" /\ (k' = k \/ epc' = "ended")
    BY <1>7 DEF checkBang, callFlush, flushDone, end, deinit
  <2>2. inp_eof /\ epc # "ended" /\ epc' # "ended" => ~Reading'
    BY <1>0, <1>7 DEF checkBang, callFlush, flushDone, end
  <2> QED
    BY <1>1, <2>1, <2>2
<1>8. CASE echoFlushStep \/ echoFlushError
  <2>1. k'.readable = k.readable /\ UNCHANGED <<inp_eof, timers, epc, back>>
    BY <1>0, <1>8
       DEF echoFlushStep, echoFlushError, flushNodelay, flushError, flushWrite, flushShutdown,
           flushReturn, Stream
  <2> QED
    BY <1>1, <2>1
<1>9. CASE UNCHANGED allVars
  BY <1>9
<1> QED
  BY <1>2, <1>3, <1>4, <1>5, <1>6, <1>7, <1>8, <1>9 DEF EchoNext, Handler

(* A '!' in the bytes in hand is one of those received. *)
LEMMA HeldReceived ==
  ASSUME EchoTypeOK, EchoBytesOK, NEW x, Contains(Unread(ib), x)
  PROVE  x \in ToSet(handed)
<1> DEFINE p == (wire \o out) \o FlattenSeq(timers)
           u == Unread(ib)
<1>1. u \in Seq(Byte)
  BY UnreadFacts DEF EchoTypeOK
<1>2. p \in Seq(Byte)
  <2>1. FlattenSeq(timers) \in Seq(Byte)
    BY FlattenSeqTyped DEF EchoTypeOK
  <2>2. wire \o out \in Seq(Byte)
    BY ByteJoin DEF EchoBytesOK
  <2> QED
    BY <2>1, <2>2, ByteJoin
<1>3. handed = p \o u
  BY DEF EchoBytesOK, EchoIntact
<1> HIDE DEF p, u
<1>4. PICK i \in 1..Len(u) : u[i] = x
  BY DEF Contains, u
<1>5. /\ Len(p) \in Nat /\ Len(u) \in Nat /\ Len(handed) = Len(p) + Len(u)
      /\ \A j \in 1..(Len(p) + Len(u)) : handed[j] = IF j <= Len(p) THEN p[j] ELSE u[j - Len(p)]
  BY <1>1, <1>2, <1>3, ConcatProperties
<1>6. Len(p) + i \in 1..(Len(p) + Len(u)) /\ handed[Len(p) + i] = x
  BY <1>4, <1>5
<1>7. Len(p) + i \in DOMAIN handed
  <2>1. handed \in Seq(Byte)
    BY DEF EchoBytesOK
  <2> QED
    BY <1>5, <1>6, <2>1
<1> QED
  BY <1>6, <1>7 DEF ToSet

(* A byte received stays received. *)
LEMMA ReceivedStays ==
  ASSUME EchoTypeOK, EchoBytesOK, [EchoNext]_allVars, NEW x \in ToSet(handed)
  PROVE  x \in ToSet(handed')
<1>0. handed \in Seq(Byte)
  BY DEF EchoBytesOK
<1>1. CASE \E n \in Seq(Byte) : handed' = handed \o n
  <2>1. PICK n \in Seq(Byte) : handed' = handed \o n
    BY <1>1
  <2>2. /\ handed' \in Seq(Byte) /\ Len(handed) \in Nat /\ Len(n) \in Nat
        /\ Len(handed') = Len(handed) + Len(n)
        /\ \A j \in 1..(Len(handed) + Len(n)) :
             handed'[j] = IF j <= Len(handed) THEN handed[j] ELSE n[j - Len(handed)]
    BY <1>0, <2>1, ConcatProperties
  <2>3. PICK i \in 1..Len(handed) : handed[i] = x
    BY <1>0 DEF ToSet
  <2>4. handed'[i] = x /\ i \in DOMAIN handed'
    BY <2>2, <2>3
  <2> QED
    BY <2>4 DEF ToSet
<1>2. CASE handed' = handed
  BY <1>2
<1>3. ASSUME NEW max \in Maxes, NEW spare \in Spare, EchoRead(max, spare)
      PROVE  handed' = handed \/ \E n \in Seq(Byte) : handed' = handed \o n
  <2>0. max \in Nat /\ spare \in Nat /\ Good(ib) /\ k \in Stream
    BY ArgsAssumption DEF EchoTypeOK
  <2>1. CASE readData(max, spare)
    <3>1. PICK n \in Seq(1..MaxIn) : handed' = handed \o n
      BY <2>0, <2>1, ReadDataGood
    <3>2. n \in Seq(Byte)
      BY BytesTyped
    <3> QED
      BY <3>1, <3>2
  <2>2. CASE ~readData(max, spare)
    BY <1>3, <2>2
       DEF EchoRead, echoNewData, echoEndOfStream, echoWouldBlock, echoReadError, readEof,
           readWouldBlock
  <2> QED
    BY <2>1, <2>2
<1>4. CASE World \/ echoReady \/ timer \/ checkBang \/ keepData \/ callFlush \/ flushDone \/ end
  BY <1>2, <1>4
     DEF World, MoveOut, Arrive, PeerEof, echoReady, timer, checkBang, keepData, callFlush,
         flushDone, end, deinit
<1>5. CASE echoFlushStep \/ echoFlushError
  BY <1>2, <1>5
     DEF echoFlushStep, echoFlushError, flushNodelay, flushError, flushWrite, flushShutdown,
         flushReturn
<1>6. CASE UNCHANGED allVars
  BY <1>2, <1>6
<1> QED
  BY <1>1, <1>2, <1>3, <1>4, <1>5, <1>6 DEF EchoNext, Handler

LEMMA EchoNextStop ==
  ASSUME EchoTypeOK, HandlersOK, EofHonest, EchoBytesOK, InHandOK, EofOnce, StopOK,
         [EchoNext]_allVars
  PROVE  StopOK'
<1>0. mark' = mark
  <2>1. CASE World \/ echoReady \/ timer \/ checkBang \/ keepData \/ callFlush \/ flushDone \/ end
    BY <2>1
       DEF World, echoReady, timer, checkBang, keepData, callFlush, flushDone, end
  <2>2. CASE echoFlushStep \/ echoFlushError
    BY <2>2 DEF echoFlushStep, echoFlushError
  <2>3. CASE \E max \in Maxes, spare \in Spare : EchoRead(max, spare)
    BY <2>3 DEF EchoRead, echoNewData, echoEndOfStream, echoWouldBlock, echoReadError
  <2> QED
    BY <2>1, <2>2, <2>3 DEF EchoNext, Handler
<1> SUFFICES ASSUME mark.bang \notin ToSet(handed')
             PROVE  /\ out_eof' => inp_eof' /\ timers' = <<>>
                    /\ die' = "stopped" => out_eof' /\ out' = <<>>
  BY <1>0 DEF StopOK
<1>1. mark.bang \notin ToSet(handed)
  BY ReceivedStays
<1>2. /\ out_eof => inp_eof /\ timers = <<>>
      /\ die = "stopped" => out_eof /\ out = <<>>
  BY <1>1 DEF StopOK
<1>3. CASE timer
  <2>1. /\ die' = die /\ die = "none" /\ timers # <<>> /\ timers' = Tail(timers) /\ inp_eof' = inp_eof
        /\ out_eof' <=> (out_eof \/ Head(timers) = Eof)
    BY <1>3 DEF timer
  <2>2. CASE Head(timers) = Eof
    <3>1. timers \in Seq(Seq(Byte)) /\ Len(timers) \in Nat /\ Len(timers) >= 1 /\ timers[1] = Eof
      BY <2>1, <2>2 DEF EchoTypeOK
    <3>2. 1 \in 1..Len(timers)
      BY <3>1
    <3>3. inp_eof /\ 1 = Len(timers)
      BY <3>1, <3>2 DEF EofOnce
    <3>4. Tail(timers) = <<>>
      <4>1. Tail(timers) \in Seq(Seq(Byte)) /\ Len(Tail(timers)) = 0
        BY <2>1, <3>1, <3>3
      <4> QED
        BY <4>1, EmptySeq
    <3> QED
      BY <2>1, <3>3, <3>4
  <2>3. CASE Head(timers) # Eof
    BY <1>2, <2>1, <2>3
  <2> QED
    BY <2>2, <2>3
<1>4. CASE checkBang
  <2>1. ~Contains(Unread(ib), mark.bang)
    BY <1>1, HeldReceived
  <2> QED
    BY <1>2, <1>4, <2>1 DEF checkBang
<1>5. CASE keepData
  <2>1. ~inp_eof
    BY <1>5 DEF keepData, EofOnce, Reading
  <2>2. UNCHANGED <<out, out_eof, inp_eof>> /\ (die' = die \/ die' = "aborted")
    BY <1>5 DEF keepData
  <2> QED
    BY <1>2, <2>1, <2>2
<1>6. CASE flushDone
  <2>1. UNCHANGED <<out, out_eof, inp_eof, timers>>
    BY <1>6 DEF flushDone
  <2>2. die' = "stopped" => (out_eof /\ out = <<>>) \/ die = "stopped"
    BY <1>6 DEF flushDone, OutputComplete
  <2> QED
    BY <1>2, <2>1, <2>2
<1>7. ASSUME NEW max \in Maxes, NEW spare \in Spare, EchoRead(max, spare)
      PROVE  /\ out_eof' => inp_eof' /\ timers' = <<>>
             /\ die' = "stopped" => out_eof' /\ out' = <<>>
  <2>1. epc = "read" /\ ~inp_eof
    BY <1>7
       DEF EchoRead, echoNewData, echoEndOfStream, echoWouldBlock, echoReadError, EofOnce, Reading
  <2>2. UNCHANGED <<out, out_eof>> /\ (die' = die \/ die' = "failed")
    BY <1>7
       DEF EchoRead, echoNewData, echoEndOfStream, echoWouldBlock, echoReadError, readData,
           readEof, readWouldBlock
  <2> QED
    BY <1>2, <2>1, <2>2
<1>8. CASE echoFlushStep \/ echoFlushError
  <2>1. UNCHANGED <<out_eof, inp_eof, timers>> /\ (die' = die \/ die' = "failed")
    BY <1>8
       DEF echoFlushStep, echoFlushError, flushNodelay, flushError, flushWrite, flushShutdown,
           flushReturn
  <2>2. out = <<>> => out' = <<>>
    BY <1>8
       DEF echoFlushStep, echoFlushError, flushNodelay, flushError, flushWrite, flushShutdown,
           flushReturn
  <2> QED
    BY <1>2, <2>1, <2>2
<1>9. CASE World \/ echoReady \/ callFlush \/ end \/ UNCHANGED allVars
  <2>1. UNCHANGED <<out, out_eof, inp_eof, timers, die>>
    BY <1>9 DEF World, MoveOut, Arrive, PeerEof, echoReady, callFlush, end, deinit
  <2> QED
    BY <1>2, <2>1
<1> QED
  BY <1>3, <1>4, <1>5, <1>6, <1>7, <1>8, <1>9 DEF EchoNext, Handler

LEMMA StopInvariance == ASSUME 0 \notin Maxes PROVE EchoSpec => []StopInv
<1>1. EchoInit => StopInv
  <2> SUFFICES ASSUME EchoInit PROVE StopInv
    OBVIOUS
  <2>1. <<>> \in Seq(Byte) /\ <<>> \o <<>> = <<>> /\ Len(<<>>) = 0 /\ <<>> = [i \in 1..0 |-> i]
    OBVIOUS
  <2>2. PeerOK
    BY <2>1 DEF EchoInit, NewStream, PeerOK
  <2>3. Unread(ib) = <<>>
    <3>1. ib.rd = 0 /\ ib.wr = 0
      BY DEF EchoInit
    <3> QED
      BY <3>1, SubSeqEmpty DEF Unread
  <2>4. InHandOK
    BY <2>3 DEF EchoInit, InHandOK, Holding
  <2>5. EofOnce /\ StopOK
    BY <2>1 DEF EchoInit, EofOnce, StopOK
  <2> QED
    BY <2>2, <2>4, <2>5 DEF StopInv
<1>2. EchoInv /\ EchoBytesOK /\ StopInv /\ [EchoNext]_allVars => StopInv'
  BY EchoNextPeer, EchoNextInHand, EchoNextEofOnce, EchoNextStop DEF EchoInv, StopInv
<1> QED
  BY <1>1, <1>2, EchoInvariance, EchoBytesInvariance, PTL DEF EchoSpec

(* flush, send_eof and stop!: without a '!' among the bytes received, an actor
   that stops has seen the EOF of the peer and sent back all that came before
   it, whatever partial reads and writes there were and in whatever order
   timers and events came; read is never called with 0. *)
THEOREM StopsWhenComplete == ASSUME 0 \notin Maxes PROVE ServerSpec => StopsComplete
<1>3. EchoInv /\ EchoBytesOK /\ StopInv =>
        (Ends /\ die = "stopped" /\ mark.bang \notin ToSet(handed) =>
           k.fin /\ wire = [i \in 1..k.peer |-> i])
  <2> SUFFICES ASSUME EchoInv, EchoBytesOK, StopInv, epc # "ended", epc' = "ended",
                      die = "stopped", mark.bang \notin ToSet(handed)
               PROVE  k.fin /\ wire = [i \in 1..k.peer |-> i]
    BY DEF Ends
  <2>1. out = <<>> /\ timers = <<>> /\ inp_eof
    BY DEF StopInv, StopOK
  <2>2. k.fin /\ k.rbuf = <<>>
    BY <2>1 DEF EchoInv, HandlersOK, EofHonest
  <2>3. Unread(ib) = <<>>
    BY <2>1 DEF StopInv, EofOnce, InHandOK, Holding, Reading
  <2>4. FlattenSeq(timers) = <<>>
    BY <2>1 DEF FlattenSeq
  <2>5. wire \in Seq(Byte) /\ handed \in Seq(Byte)
    BY DEF EchoBytesOK
  <2>6. wire \o <<>> = wire /\ handed \o <<>> = handed
    BY <2>5, ConcatSimplifications
  <2>7. wire = handed
    BY <2>1, <2>3, <2>4, <2>6 DEF EchoBytesOK, EchoIntact
  <2>8. handed = [i \in 1..k.peer |-> i]
    BY <2>2, <2>6 DEF StopInv, PeerOK
  <2> QED
    BY <2>2, <2>7, <2>8
<1>4. EchoSpec => []EchoInv
  BY EchoInvariance
<1>5. EchoSpec => []EchoBytesOK
  BY EchoBytesInvariance
<1>6. EchoInv /\ EchoBytesOK /\ StopInv /\ [EchoNext]_allVars =>
        [Ends /\ die = "stopped" /\ mark.bang \notin ToSet(handed) =>
           k.fin /\ wire = [i \in 1..k.peer |-> i]]_allVars
  BY <1>3
<1> QED
  BY <1>4, <1>5, <1>6, StopInvariance, ServerRunsEchoer, PTL DEF EchoSpec, StopsComplete

(* Without a '!' the output of an actor that was sent a '%' never ends, and once
   the '%' is no longer in hand the actor fails. *)
AbortOK ==
  mark.bang \notin ToSet(handed) /\ mark.pct \in ToSet(handed) =>
    ~out_eof /\ (die \in {"aborted", "failed"} \/ Contains(Unread(ib), mark.pct))

LEMMA NothingContained == ASSUME NEW x PROVE ~Contains(<<>>, x)
  BY DEF Contains

(* What a read hands over and had not been received before is in hand. *)
LEMMA NewInHand ==
  ASSUME NEW n \in Seq(Byte), handed \in Seq(Byte), handed' = handed \o n,
         NEW x \in ToSet(handed'), x \notin ToSet(handed)
  PROVE  Contains(n, x)
<1>1. /\ handed' \in Seq(Byte) /\ Len(handed) \in Nat /\ Len(n) \in Nat
      /\ Len(handed') = Len(handed) + Len(n)
      /\ \A j \in 1..(Len(handed) + Len(n)) :
           handed'[j] = IF j <= Len(handed) THEN handed[j] ELSE n[j - Len(handed)]
  BY ConcatProperties
<1>2. PICK i \in 1..Len(handed') : handed'[i] = x
  BY <1>1 DEF ToSet
<1>3. ~(i <= Len(handed))
  <2>1. \A j \in 1..Len(handed) : handed[j] # x
    BY DEF ToSet
  <2> QED
    BY <1>1, <1>2, <2>1
<1>4. i - Len(handed) \in 1..Len(n) /\ n[i - Len(handed)] = x
  BY <1>1, <1>2, <1>3
<1> QED
  BY <1>4 DEF Contains

LEMMA EchoNextAbort ==
  ASSUME EchoTypeOK, EchoBytesOK, InHandOK, EofOnce, StopOK, AbortOK, [EchoNext]_allVars
  PROVE  AbortOK'
<1>0. mark' = mark
  <2>1. CASE World \/ echoReady \/ timer \/ checkBang \/ keepData \/ callFlush \/ flushDone \/ end
    BY <2>1
       DEF World, echoReady, timer, checkBang, keepData, callFlush, flushDone, end
  <2>2. CASE echoFlushStep \/ echoFlushError
    BY <2>2 DEF echoFlushStep, echoFlushError
  <2>3. CASE \E max \in Maxes, spare \in Spare : EchoRead(max, spare)
    BY <2>3 DEF EchoRead, echoNewData, echoEndOfStream, echoWouldBlock, echoReadError
  <2> QED
    BY <2>1, <2>2, <2>3 DEF EchoNext, Handler
<1> DEFINE Kept == ~out_eof /\ (die \in {"aborted", "failed"} \/ Contains(Unread(ib), mark.pct))
<1> SUFFICES ASSUME mark.bang \notin ToSet(handed'), mark.pct \in ToSet(handed')
             PROVE  ~out_eof' /\ (die' \in {"aborted", "failed"} \/ Contains(Unread(ib'), mark.pct))
  BY <1>0 DEF AbortOK
<1>1. mark.bang \notin ToSet(handed)
  BY ReceivedStays
<1>2. ASSUME handed' = handed PROVE Kept
  BY <1>1, <1>2 DEF AbortOK
<1>3. Holding \/ die \in {"aborted", "failed"} \/ ~Kept
  BY NothingContained DEF InHandOK
<1> HIDE DEF Kept
<1>4. CASE timer
  <2>1. epc = "idle" /\ die = "none" /\ handed' = handed
    BY <1>4 DEF timer
  <2> QED
    BY <1>2, <1>3, <2>1 DEF Holding
<1>5. CASE checkBang
  <2>1. ~Contains(Unread(ib), mark.bang)
    BY <1>1, HeldReceived
  <2>2. UNCHANGED <<handed, out_eof, die, ib>>
    BY <1>5, <2>1 DEF checkBang
  <2> QED
    BY <1>2, <2>2 DEF Kept
<1>6. CASE keepData
  <2>1. UNCHANGED <<handed, out_eof>>
    BY <1>6 DEF keepData
  <2>2. die' = IF Contains(Unread(ib), mark.pct) THEN "aborted" ELSE die
    BY <1>6 DEF keepData
  <2> QED
    BY <1>2, <2>1, <2>2 DEF Kept
<1>7. CASE flushDone
  <2>1. UNCHANGED <<handed, out_eof, ib>> /\ die' = (IF out_eof /\ out = <<>> THEN "stopped" ELSE die)
    BY <1>7 DEF flushDone, OutputComplete
  <2> QED
    BY <1>2, <2>1 DEF Kept
<1>8. ASSUME NEW max \in Maxes, NEW spare \in Spare, EchoRead(max, spare)
      PROVE  ~out_eof' /\ (die' \in {"aborted", "failed"} \/ Contains(Unread(ib'), mark.pct))
  <2>1. epc = "read" /\ ~inp_eof /\ ~Holding /\ Unread(ib) = <<>>
    BY <1>8
       DEF EchoRead, echoNewData, echoEndOfStream, echoWouldBlock, echoReadError, EofOnce, Reading,
           InHandOK, Holding
  <2>2. out_eof' = out_eof /\ (die' = die \/ die' = "failed")
    BY <1>8
       DEF EchoRead, echoNewData, echoEndOfStream, echoWouldBlock, echoReadError, readData,
           readEof, readWouldBlock
  <2>3. ~out_eof
    BY <1>1, <2>1 DEF StopOK
  <2>4. CASE mark.pct \in ToSet(handed)
    <3>1. die \in {"aborted", "failed"}
      BY <1>1, <2>1, <2>4, NothingContained DEF AbortOK
    <3> QED
      BY <2>2, <2>3, <3>1
  <2>5. CASE mark.pct \notin ToSet(handed)
    <3>1. handed' # handed
      BY <2>5
    <3>2. readData(max, spare)
      BY <1>8, <3>1
         DEF EchoRead, echoNewData, echoEndOfStream, echoWouldBlock, echoReadError, readEof,
             readWouldBlock
    <3>3. PICK n \in Seq(1..MaxIn) : handed' = handed \o n /\ Unread(ib') = Unread(ib) \o n
      BY <3>2, ReadDataGood, ArgsAssumption DEF EchoTypeOK
    <3>4. n \in Seq(Byte) /\ handed \in Seq(Byte) /\ <<>> \o n = n
      BY BytesTyped, ConcatSimplifications DEF EchoBytesOK
    <3>5. Contains(n, mark.pct)
      BY <2>5, <3>3, <3>4, NewInHand
    <3> QED
      BY <2>1, <2>2, <2>3, <3>3, <3>4, <3>5
  <2> QED
    BY <2>4, <2>5
<1>9. CASE echoFlushStep \/ echoFlushError
  <2>1. UNCHANGED <<handed, out_eof, ib>> /\ (die' = die \/ die' = "failed")
    BY <1>9
       DEF echoFlushStep, echoFlushError, flushNodelay, flushError, flushWrite, flushShutdown,
           flushReturn
  <2> QED
    BY <1>2, <2>1 DEF Kept
<1>10. CASE World \/ echoReady \/ callFlush \/ end \/ UNCHANGED allVars
  <2>1. UNCHANGED <<handed, out_eof, die, ib>>
    BY <1>10 DEF World, MoveOut, Arrive, PeerEof, echoReady, callFlush, end, deinit
  <2> QED
    BY <1>2, <2>1 DEF Kept
<1> QED
  BY <1>4, <1>5, <1>6, <1>7, <1>8, <1>9, <1>10 DEF EchoNext, Handler

(* check_special_chars, send_eof and flush: without a '!' or an I/O error, an
   actor that was sent a '%' ends with the AbortError, whatever it had still to
   send and even if the EOF of the peer comes with the '%': its output cannot
   be complete, since no timer fires between the '%' and the end. *)
THEOREM AbortIsKept == ASSUME 0 \notin Maxes PROVE ServerSpec => AbortKept
<1>1. EchoInit => AbortOK
  BY DEF EchoInit, ToSet, AbortOK
<1>2. EchoInv /\ EchoBytesOK /\ StopInv /\ AbortOK /\ [EchoNext]_allVars => AbortOK'
  BY EchoNextAbort DEF EchoInv, StopInv
<1>3. EchoInv /\ EchoBytesOK /\ StopInv /\ AbortOK /\ [EchoNext]_allVars =>
        [Ends /\ mark.pct \in ToSet(handed) /\ mark.bang \notin ToSet(handed) =>
           die \in {"aborted", "failed"}]_allVars
  <2> SUFFICES ASSUME EchoTypeOK, StopInv, AbortOK, [EchoNext]_allVars, Ends,
                      mark.pct \in ToSet(handed), mark.bang \notin ToSet(handed)
               PROVE  die \in {"aborted", "failed"}
    BY DEF EchoInv
  <2>1. epc = "idle"
    <3>1. epc # "ended" /\ epc' = "ended"
      BY DEF Ends
    <3>2. CASE end
      BY <3>2 DEF end
    <3>3. CASE World \/ echoReady \/ timer \/ checkBang \/ keepData \/ callFlush
      BY <3>1, <3>3 DEF World, echoReady, timer, checkBang, keepData, callFlush, ReadOn
    <3>4. CASE \E max \in Maxes, spare \in Spare : EchoRead(max, spare)
      BY <3>1, <3>4
         DEF EchoRead, echoNewData, echoEndOfStream, echoWouldBlock, echoReadError, AfterRead
    <3>5. CASE echoFlushStep \/ echoFlushError \/ UNCHANGED allVars
      BY <3>1, <3>5 DEF echoFlushStep, echoFlushError
    <3>6. CASE flushDone
      BY <3>1, <3>6 DEF flushDone, EchoTypeOK
    <3> QED
      BY <3>2, <3>3, <3>4, <3>5, <3>6 DEF EchoNext, Handler
  <2>2. Unread(ib) = <<>>
    BY <2>1 DEF StopInv, InHandOK, Holding
  <2> QED
    BY <2>2, NothingContained DEF AbortOK
<1> QED
  BY <1>1, <1>2, <1>3, EchoInvariance, EchoBytesInvariance, StopInvariance, ServerRunsEchoer, PTL
     DEF EchoSpec, AbortKept

(* Behind a shutdown nothing is to be sent, and the actor is about to end. *)
ShutOK == k.shut => out = <<>> /\ out_eof /\ (die # "none" \/ epc = "flush")

LEMMA EchoNextShut == ASSUME EchoTypeOK, HandlersOK, ShutOK, [EchoNext]_allVars PROVE ShutOK'
<1> USE DEF ShutOK
<1>0. k \in Stream
  BY DEF EchoTypeOK
<1>1. CASE World
  <2>1. k'.shut = k.shut /\ UNCHANGED <<out, out_eof, die, epc>>
    BY <1>0, <1>1 DEF World, MoveOut, Arrive, PeerEof, Stream
  <2> QED
    BY <2>1
<1>2. CASE echoReady
  <2>1. k'.shut = k.shut /\ UNCHANGED <<out, out_eof, die>> /\ die = "none" /\ epc = "idle"
    BY <1>0, <1>2 DEF echoReady, Stream
  <2> QED
    BY <2>1
<1>3. CASE timer
  BY <1>3 DEF timer
<1>4. ASSUME NEW max \in Maxes, NEW spare \in Spare, EchoRead(max, spare) PROVE ShutOK'
  <2>1. /\ k'.shut = k.shut /\ UNCHANGED <<out, out_eof>> /\ (die' = die \/ die' = "failed")
        /\ epc = "read"
    BY <1>0, <1>4
       DEF EchoRead, echoNewData, echoEndOfStream, echoWouldBlock, echoReadError, readData,
           readEof, readWouldBlock, Stream
  <2> QED
    BY <2>1
<1>5. CASE checkBang
  BY <1>5 DEF checkBang
<1>6. CASE keepData
  <2>1. UNCHANGED <<k, out, out_eof>> /\ (die' = die \/ die' = "aborted") /\ epc = "keep"
    BY <1>6 DEF keepData
  <2> QED
    BY <2>1
<1>7. CASE callFlush
  BY <1>7 DEF callFlush
<1>8. CASE echoFlushStep \/ echoFlushError
  <2>1. epc = "flush"
    BY <1>8
       DEF HandlersOK, echoFlushStep, echoFlushError, flushNodelay, flushError, flushWrite,
           flushShutdown, flushReturn
  <2>2. CASE flushShutdown /\ UNCHANGED echoVars
    BY <2>1, <2>2 DEF flushShutdown, EofReady
  <2>3. CASE ~flushShutdown
    <3>1. k'.shut = k.shut /\ UNCHANGED <<out_eof, epc>> /\ (k.shut => out' = out)
      BY <1>0, <1>8, <2>3
         DEF echoFlushStep, echoFlushError, flushNodelay, flushError, flushWrite, flushReturn,
             Stream
    <3> QED
      BY <2>1, <3>1
  <2> QED
    BY <1>8, <2>2, <2>3 DEF echoFlushStep, echoFlushError, flushError, flushShutdown
<1>9. CASE flushDone
  <2>1. UNCHANGED <<k, out, out_eof>> /\ die' = IF out_eof /\ out = <<>> THEN "stopped" ELSE die
    BY <1>9 DEF flushDone, OutputComplete
  <2> QED
    BY <2>1
<1>10. CASE end
  BY <1>10 DEF end, deinit, NoStream, NewStream
<1>11. CASE UNCHANGED allVars
  BY <1>11
<1> QED
  BY <1>1, <1>2, <1>3, <1>4, <1>5, <1>6, <1>7, <1>8, <1>9, <1>10, <1>11 DEF EchoNext, Handler

(* flush and send_data: once the actor has shut down its half of the stream,
   by a '!' or by the EOF of the peer, it has no output left and gets none:
   timers that are still set no longer fire, since it stops. *)
THEOREM SilentAfterShutdown == ServerSpec => [](k.shut => out = <<>>)
<1>1. EchoInit => EchoTypeOK /\ HandlersOK /\ ShutOK
  BY EchoInitType DEF EchoInit, NewStream, ShutOK
<1>2. EchoTypeOK /\ HandlersOK /\ ShutOK /\ [EchoNext]_allVars =>
        (EchoTypeOK /\ HandlersOK /\ ShutOK)'
  BY EchoNextShut, EchoNextType, EchoNextHandlers
<1>3. ShutOK => (k.shut => out = <<>>)
  BY DEF ShutOK
<1> QED
  BY <1>1, <1>2, <1>3, ServerRunsEchoer, PTL DEF EchoSpec

-----------------------------------------------------------------------------
(* Why the server goes down *)

Status == {"live", "stopped", "failed", "aborted"}

Aborted == \E i \in DOMAIN children : children[i] = "aborted"

Why ==
  \/ cause \in {"setup", "accept"}
  \/ cause = "timeout" /\ (quiet = Timeout \/ late)
  \/ cause = "aborted" /\ Aborted

(* The inactivity timer is as old as the last connection; a child that ended
   with an AbortError and its notice go together until the listener sees it. *)
CauseInv ==
  /\ children \in Seq(Status) /\ notices \in Seq(Status)
  /\ age = quiet
  /\ "aborted" \in ToSet(notices) => Aborted
  /\ CauseHonest

(* A child is added, or one that lives ends. *)
LEMMA ChildAdded ==
  ASSUME CauseInv, NEW why \in {"live", "failed"}, children' = Append(children, why)
  PROVE  children' \in Seq(Status) /\ (Aborted' <=> Aborted)
<1>1. children \in Seq(Status) /\ why \in Status /\ why # "aborted" /\ Len(children) \in Nat
  BY DEF CauseInv, Status
<1>2. /\ children' \in Seq(Status) /\ Len(children') = Len(children) + 1
      /\ \A i \in 1..Len(children) : children'[i] = children[i]
      /\ children'[Len(children) + 1] = why
  BY <1>1, AppendProperties
<1>3. DOMAIN children = 1..Len(children) /\ DOMAIN children' = 1..(Len(children) + 1)
  BY <1>1, <1>2
<1>4. Aborted => Aborted'
  <2> SUFFICES ASSUME NEW i \in DOMAIN children, children[i] = "aborted" PROVE Aborted'
    BY DEF Aborted
  <2>1. i \in DOMAIN children' /\ children'[i] = "aborted"
    BY <1>1, <1>2, <1>3
  <2> QED
    BY <2>1 DEF Aborted
<1>5. Aborted' => Aborted
  <2> SUFFICES ASSUME NEW i \in DOMAIN children', children'[i] = "aborted" PROVE Aborted
    BY DEF Aborted
  <2>1. i \in DOMAIN children /\ children[i] = "aborted"
    BY <1>1, <1>2, <1>3
  <2> QED
    BY <2>1 DEF Aborted
<1> QED
  BY <1>2, <1>4, <1>5

LEMMA ChildEnded ==
  ASSUME CauseInv, NEW i, Alive(i), NEW why \in Status, Ended(i, why)
  PROVE  /\ children' \in Seq(Status) /\ notices' \in Seq(Status)
         /\ Aborted => Aborted'
         /\ why = "aborted" => Aborted' /\ "aborted" \in ToSet(notices')
         /\ why # "aborted" => (Aborted' => Aborted)
         /\ ToSet(notices') = ToSet(notices) \cup {why}
<1>1. /\ children \in Seq(Status) /\ notices \in Seq(Status) /\ i \in DOMAIN children
      /\ children[i] = "live"
  BY DEF CauseInv, Alive
<1>2. children' = [children EXCEPT ![i] = why] /\ notices' = Append(notices, why)
  BY DEF Ended
<1>3. ToSet(notices') = ToSet(notices) \cup {why}
  BY <1>1, <1>2, ToSetAppend
<1>4. children' \in Seq(Status) /\ notices' \in Seq(Status) /\ DOMAIN children' = DOMAIN children
  BY <1>1, <1>2
<1>5. children'[i] = why /\ \A j \in DOMAIN children : j # i => children'[j] = children[j]
  BY <1>1, <1>2
<1>6. Aborted => Aborted'
  <2> SUFFICES ASSUME NEW j \in DOMAIN children, children[j] = "aborted" PROVE Aborted'
    BY DEF Aborted
  <2>1. j # i
    BY <1>1
  <2> QED
    BY <1>4, <1>5, <2>1 DEF Aborted
<1>7. why = "aborted" => Aborted'
  BY <1>1, <1>4, <1>5 DEF Aborted
<1>8. why # "aborted" => (Aborted' => Aborted)
  <2> SUFFICES ASSUME why # "aborted", NEW j \in DOMAIN children', children'[j] = "aborted"
               PROVE  Aborted
    BY DEF Aborted
  <2> QED
    BY <1>4, <1>5 DEF Aborted
<1> QED
  BY <1>3, <1>4, <1>6, <1>7, <1>8

LEMMA CauseNext ==
  ASSUME CauseInv, die \in Reason, [ServerNext]_serverVars
  PROVE  CauseInv'
<1>0. /\ children \in Seq(Status) /\ notices \in Seq(Status) /\ age = quiet
      /\ "aborted" \in ToSet(notices) => Aborted
      /\ lpc = "down" => Why
      /\ Aborted => lpc = "down" \/ "aborted" \in ToSet(notices)
  BY DEF CauseInv, CauseHonest, Why, Aborted, Up
<1> SUFFICES /\ children' \in Seq(Status) /\ notices' \in Seq(Status) /\ age' = quiet'
             /\ "aborted" \in ToSet(notices') => Aborted'
             /\ lpc' = "down" => Why'
             /\ Aborted' => lpc' = "down" \/ "aborted" \in ToSet(notices')
  BY DEF CauseInv, CauseHonest, Why, Aborted, Up
<1>1. CASE Connection
  BY <1>0, <1>1 DEF Connection, Aborted, Up
<1>2. CASE Tick
  <2>1. UNCHANGED <<lpc, cause, children, notices>> /\ age' = quiet' /\ lpc # "down"
    BY <1>0, <1>2 DEF Tick, Up
  <2> QED
    BY <1>0, <2>1 DEF Aborted
<1>3. CASE connect \/ acceptWouldBlock
  <2>1. UNCHANGED <<cause, children, notices, age, quiet>> /\ lpc # "down" /\ lpc' # "down"
    BY <1>3 DEF connect, acceptWouldBlock, Turn
  <2> QED
    BY <1>0, <2>1 DEF Aborted
<1>4. CASE acceptOk
  <2>1. lpc = "connect" /\ lpc' = "connect" /\ cause' = cause /\ age' = 0 /\ quiet' = 0
    BY <1>4 DEF acceptOk, activity, AcceptOn
  <2>2. PICK why \in {"live", "failed"} : children' = Append(children, why)
    BY <1>4 DEF acceptOk
  <2>3. children' \in Seq(Status) /\ (Aborted' <=> Aborted)
    BY <2>2, ChildAdded
  <2>4. CASE notices' = notices
    BY <1>0, <2>1, <2>3, <2>4
  <2>5. CASE notices' = Append(notices, "failed")
    <3>1. "failed" \in Status
      BY DEF Status
    <3>2. notices' \in Seq(Status) /\ ToSet(notices') = ToSet(notices) \cup {"failed"}
      BY <1>0, <2>5, <3>1, ToSetAppend
    <3> QED
      BY <1>0, <2>1, <2>3, <3>2
  <2> QED
    BY <1>4, <2>4, <2>5 DEF acceptOk
<1>5. CASE acceptError
  BY <1>0, <1>5 DEF acceptError, Fail, Aborted, Why
<1>6. CASE inactivity
  BY <1>0, <1>6 DEF inactivity, Fail, Aborted, Why
<1>7. CASE terminated
  <2>1. /\ notices # <<>> /\ notices' = Tail(notices) /\ UNCHANGED <<children, age, quiet>>
        /\ lpc = "idle"
        /\ IF Head(notices) = "aborted" THEN lpc' = "down" /\ cause' = "aborted"
           ELSE UNCHANGED <<lpc, cause>>
    BY <1>7 DEF terminated, Turn, IsAbort, Fail
  <2>2. Tail(notices) \in Seq(Status)
    BY <1>0, <2>1
  <2>3. "aborted" \in ToSet(notices') => "aborted" \in ToSet(notices)
    BY <1>0, <2>1, InToSetTail
  <2>4. "aborted" \in ToSet(notices) => Head(notices) = "aborted" \/ "aborted" \in ToSet(notices')
    BY <1>0, <2>1, ToSetTail
  <2>5. Head(notices) \in ToSet(notices)
    <3>1. Head(notices) = notices[1] /\ 1 \in DOMAIN notices
      BY <1>0, <2>1
    <3> QED
      BY <3>1 DEF ToSet
  <2>6. Aborted' <=> Aborted
    BY <2>1 DEF Aborted
  <2> QED
    BY <1>0, <2>1, <2>2, <2>3, <2>4, <2>5, <2>6 DEF Why
<1>8. CASE otherEnds
  <2>1. PICK i \in DOMAIN children \ {1}, why \in {"stopped", "failed", "aborted"} :
          Alive(i) /\ Ended(i, why)
    BY <1>8 DEF otherEnds
  <2>2. why \in Status
    BY DEF Status
  <2>3. UNCHANGED <<lpc, cause, age, quiet>> /\ lpc = "idle"
    BY <1>8 DEF otherEnds, Turn
  <2>4. /\ children' \in Seq(Status) /\ notices' \in Seq(Status)
        /\ Aborted => Aborted'
        /\ why = "aborted" => Aborted' /\ "aborted" \in ToSet(notices')
        /\ why # "aborted" => (Aborted' => Aborted)
        /\ ToSet(notices') = ToSet(notices) \cup {why}
    BY <2>1, <2>2, ChildEnded
  <2> QED
    BY <1>0, <2>3, <2>4
<1>9. CASE echoerEnds
  <2>1. Alive(1) /\ Ended(1, die) /\ UNCHANGED <<lpc, cause, age, quiet>> /\ lpc = "idle"
    BY <1>9 DEF echoerEnds
  <2>2. die \in Status
    BY <1>9 DEF echoerEnds, end, Reason, Status
  <2>3. /\ children' \in Seq(Status) /\ notices' \in Seq(Status)
        /\ Aborted => Aborted'
        /\ die = "aborted" => Aborted' /\ "aborted" \in ToSet(notices')
        /\ die # "aborted" => (Aborted' => Aborted)
        /\ ToSet(notices') = ToSet(notices) \cup {die}
    BY <2>1, <2>2, ChildEnded
  <2> QED
    BY <1>0, <2>1, <2>3
<1>10. CASE echoerCalled \/ echoerGoesOn \/ echoerWorld
  BY <1>0, <1>10 DEF echoerCalled, echoerGoesOn, echoerWorld, Aborted, Why
<1>11. CASE UNCHANGED serverVars
  BY <1>0, <1>11 DEF Aborted, Why
<1> QED
  BY <1>1, <1>2, <1>3, <1>4, <1>5, <1>6, <1>7, <1>8, <1>9, <1>10, <1>11 DEF ServerNext, Accept

(* inactivity, terminated and connect: a server that is down had no connection
   for the whole timeout, or a child that ended with AbortError, or its listening
   socket failed; and no AbortError that a child ended with is passed over. *)
THEOREM CauseIsHonest == ServerSpec => []CauseHonest
<1>1. EchoTypeOK /\ HandlersOK /\ [EchoNext]_allVars => (EchoTypeOK /\ HandlersOK)'
  BY EchoNextType, EchoNextHandlers
<1>2. EchoInit => EchoTypeOK /\ HandlersOK
  BY EchoInitType
<1>3. EchoSpec => []EchoTypeOK
  BY <1>1, <1>2, PTL DEF EchoSpec
<1>4. ServerInit => CauseInv
  <2> SUFFICES ASSUME ServerInit PROVE CauseInv
    OBVIOUS
  <2>1. children = <<>> /\ notices = <<>> /\ age = quiet /\ (lpc = "down" => cause = "setup")
    BY DEF ServerInit, SetupTimer
  <2>2. \A S : <<>> \in Seq(S)
    OBVIOUS
  <2>3. DOMAIN children = {} /\ ToSet(notices) = {}
    BY <2>1 DEF ToSet
  <2> QED
    BY <2>1, <2>2, <2>3 DEF CauseInv, CauseHonest, Aborted, Up
<1>5. EchoTypeOK => die \in Reason
  BY DEF EchoTypeOK
<1>6. die \in Reason /\ CauseInv /\ [ServerNext]_serverVars => CauseInv'
  BY CauseNext
<1>7. CauseInv => CauseHonest
  BY DEF CauseInv
<1> QED
  BY <1>3, <1>4, <1>5, <1>6, <1>7, ServerRunsEchoer, PTL DEF ServerSpec
=============================================================================
