---------------------------- MODULE TcpStreamBuf ----------------------------
(***************************************************************************)
(* src/src/tcpstrbuf.rs: the buffers of a TcpStreamBuf, the mio TcpStream  *)
(* in its MioSource, which is external, and the actor that uses them the   *)
(* way src/examples/echo_server.rs does.                                   *)
(*                                                                         *)
(* A byte is a number: the bytes the actor writes are 1, 2, 3 ..., and so  *)
(* are those the peer sends, so that a byte that is lost, repeated or out  *)
(* of place shows.  0 is what new space in `inp` is filled with.  The      *)
(* socket is edge-triggered as in UdpSocket.  EINTR repeats a call and     *)
(* changes nothing; stream.flush() of a TcpStream does nothing, shutdown   *)
(* does not block, and a write of some bytes never returns Ok(0).          *)
(***************************************************************************)
EXTENDS Integers, Sequences, SequencesExt

CONSTANTS
  MaxOut,      \* bound: bytes the actor writes
  MaxIn,       \* bound: bytes the peer sends on one connection
  MaxInits,    \* bound: streams given to init
  SndCap,      \* bytes the operating system buffers for output
  RcvCap,      \* bytes the operating system buffers for input
  Maxes,       \* values of the argument `max` of read
  Spare,       \* capacity the allocator may give in excess
  RetryFlush   \* the actor calls flush again after an error, or stops itself

ASSUME BoundsAssumption == MaxOut \in Nat /\ MaxIn \in Nat /\ MaxInits \in Nat
ASSUME CapsAssumption == SndCap \in Nat \ {0} /\ RcvCap \in Nat \ {0}
ASSUME ArgsAssumption == Maxes \subseteq Nat /\ Spare \subseteq Nat /\ RetryFlush \in BOOLEAN

VARIABLES
  out, out_eof,                      \* output buffer, and EOF wanted
  ib,                                \* input buffer: fields inp, rd and wr
  inp_eof,
  nodelay, pending_set_nodelay,
  sent_out_eof,
  pause,
  stream,                            \* there is a stream
  pc,          \* "idle"; in flush: "nodelay", "write"; "failed": actor stopped
  must_flush,  \* the actor changed something and will call flush
  must_read,   \* read has to be called again, it did not return WouldBlock yet
  k,           \* the stream: what the operating system keeps for it
  inits,       \* streams given to init so far
  written,     \* history: number of bytes the actor wrote
  wire,        \* history: bytes handed to the operating system
  handed,      \* history: bytes received from the operating system
  taken        \* history: bytes the actor took from `inp`

outVars == <<out, out_eof, sent_out_eof, written, wire>>
flagVars == <<nodelay, pending_set_nodelay, pause, stream, inits>>
inVars == <<ib, inp_eof, must_read, handed, taken>>
vars == <<outVars, flagVars, inVars, pc, must_flush, k>>

(* A fresh stream: nbuf bytes wait to be sent, warm: a write would have
   blocked; rbuf holds input, fin: the peer has sent EOF after `peer` bytes;
   rarm: a read would have blocked; shut: our half is shut down. *)
NewStream ==
  [nbuf |-> 0, warm |-> FALSE, writable |-> TRUE, shut |-> FALSE, nodelay |-> FALSE,
   rbuf |-> <<>>, peer |-> 0, fin |-> FALSE, rarm |-> TRUE, readable |-> FALSE]

NoStream == [NewStream EXCEPT !.writable = FALSE, !.rarm = FALSE]

Init ==
  /\ out = <<>> /\ out_eof = FALSE /\ sent_out_eof = FALSE
  /\ ib = [inp |-> <<>>, rd |-> 0, wr |-> 0] /\ inp_eof = FALSE
  /\ nodelay = FALSE /\ pending_set_nodelay = FALSE /\ pause = FALSE
  /\ stream = FALSE /\ inits = 0
  /\ pc = "idle" /\ must_flush = FALSE /\ must_read = FALSE
  /\ k = NoStream
  /\ written = 0 /\ wire = <<>> /\ handed = <<>> /\ taken = <<>>

-----------------------------------------------------------------------------
(* The operating system and the peer. *)

MoveOut ==
  /\ k.nbuf > 0
  /\ k' = [k EXCEPT !.nbuf = @ - 1, !.writable = @ \/ k.warm, !.warm = FALSE]
  /\ UNCHANGED <<outVars, flagVars, inVars, pc, must_flush>>

Arrive ==
  /\ stream /\ ~k.fin
  /\ Len(k.rbuf) < RcvCap /\ k.peer < MaxIn
  /\ k' = [k EXCEPT !.peer = @ + 1, !.rbuf = Append(@, k.peer + 1),
                    !.readable = @ \/ k.rarm, !.rarm = FALSE]
  /\ UNCHANGED <<outVars, flagVars, inVars, pc, must_flush>>

PeerEof ==
  /\ stream /\ ~k.fin
  /\ k' = [k EXCEPT !.fin = TRUE, !.readable = @ \/ k.rarm, !.rarm = FALSE]
  /\ UNCHANGED <<outVars, flagVars, inVars, pc, must_flush>>

-----------------------------------------------------------------------------
(* init, deinit and the settings *)

(* Mutants: init keeps the flag of the stream before. *)
PendingKept == pending_set_nodelay
SentEofKept == sent_out_eof

PendingAfterInit == TRUE
SentEofAfterInit == FALSE

init ==
  /\ pc = "idle" /\ inits < MaxInits
  /\ stream' = TRUE
  /\ k' = NewStream
  /\ sent_out_eof' = SentEofAfterInit
  /\ pending_set_nodelay' = PendingAfterInit
  /\ inits' = inits + 1
  /\ must_flush' = TRUE /\ must_read' = TRUE
  /\ UNCHANGED <<out, out_eof, written, wire, nodelay, pause, ib, inp_eof, handed, taken, pc>>

deinit ==
  /\ pc = "idle"
  /\ stream' = FALSE
  /\ k' = NoStream
  /\ UNCHANGED <<outVars, nodelay, pending_set_nodelay, pause, inits, inVars, pc, must_flush>>

set_nodelay(v) ==
  /\ pc = "idle"
  /\ nodelay # v
  /\ nodelay' = v
  /\ pending_set_nodelay' = TRUE
  /\ must_flush' = TRUE
  /\ UNCHANGED <<outVars, pause, stream, inits, inVars, pc, k>>

pause_writes(v) ==
  /\ pc = "idle"
  /\ pause' = v
  /\ must_flush' = TRUE
  /\ UNCHANGED <<outVars, nodelay, pending_set_nodelay, stream, inits, inVars, pc, k>>

-----------------------------------------------------------------------------
(* Output.  The actor calls flush on WRITABLE and after every change. *)

(* Write::write, or out.push *)
write ==
  /\ pc = "idle" /\ written < MaxOut
  /\ out' = Append(out, written + 1)
  /\ written' = written + 1
  /\ must_flush' = TRUE
  /\ UNCHANGED <<out_eof, sent_out_eof, wire, flagVars, inVars, pc, k>>

writeEof ==
  /\ pc = "idle" /\ ~out_eof
  /\ out_eof' = TRUE
  /\ must_flush' = TRUE
  /\ UNCHANGED <<out, sent_out_eof, written, wire, flagVars, inVars, pc, k>>

FlushEntry == pc' = IF pause \/ ~stream THEN "idle" ELSE "nodelay"

flush ==
  /\ pc = "idle"
  /\ must_flush' = FALSE
  /\ k' = [k EXCEPT !.writable = FALSE]
  /\ FlushEntry
  /\ UNCHANGED <<outVars, flagVars, inVars>>

flushNodelay ==
  /\ pc = "nodelay"
  /\ pc' = "write"
  /\ pending_set_nodelay' = FALSE
  /\ k' = IF pending_set_nodelay THEN [k EXCEPT !.nodelay = nodelay] ELSE k
  /\ UNCHANGED <<outVars, nodelay, pause, stream, inits, inVars, must_flush>>

(* An error: flush returns it, at the first call that gives one. *)
flushError ==
  /\ \/ pc = "nodelay" /\ pending_set_nodelay /\ pending_set_nodelay' = FALSE
     \/ /\ pc = "write"
        /\ out # <<>> \/ (out_eof /\ ~sent_out_eof)
        /\ UNCHANGED pending_set_nodelay
  /\ pc' = IF RetryFlush THEN "idle" ELSE "failed"
  /\ must_flush' = TRUE
  /\ UNCHANGED <<outVars, nodelay, pause, stream, inits, inVars, k>>

(* Mutant: out.clear(), as if a write always took everything. *)
DrainedAll(len) == <<>>

Drained(len) == SubSeq(out, len + 1, Len(out))

flushWrite ==
  /\ pc = "write" /\ out # <<>> /\ ~k.shut
  /\ \E len \in 1..Len(out) :
       /\ k.nbuf + len <= SndCap
       /\ k' = [k EXCEPT !.nbuf = @ + len]
       /\ wire' = wire \o SubSeq(out, 1, len)
       /\ out' = Drained(len)
  /\ UNCHANGED <<out_eof, sent_out_eof, written, flagVars, inVars, pc, must_flush>>

(* Mutant: EOF is sent as soon as out_eof is set. *)
EofReadyEarly == TRUE

EofReady == out = <<>>

(* shutdown(Write), once out is empty *)
flushShutdown ==
  /\ pc = "write" /\ EofReady
  /\ out_eof /\ ~sent_out_eof
  /\ k' = [k EXCEPT !.shut = TRUE]
  /\ sent_out_eof' = TRUE
  /\ UNCHANGED <<out, out_eof, written, wire, flagVars, inVars, pc, must_flush>>

(* Mutant: return after one write, although the stream would take more. *)
FlushOverOnce == TRUE

(* WouldBlock, or nothing is left to do. *)
FlushOver ==
  \/ out # <<>> /\ k.nbuf = SndCap /\ ~k.shut
  \/ out = <<>> /\ (out_eof => sent_out_eof)

flushReturn ==
  /\ pc = "write" /\ FlushOver
  /\ pc' = "idle"
  /\ k' = [k EXCEPT !.warm = @ \/ (out # <<>> /\ k.nbuf = SndCap)]
  /\ UNCHANGED <<outVars, flagVars, inVars, must_flush>>

-----------------------------------------------------------------------------
(* Input.  The actor calls read until it returns WouldBlock, maybe later, from
   an idle handler, and takes bytes when it likes. *)

Unread(b) == SubSeq(b.inp, b.rd + 1, b.wr)

(* b.inp with `bytes` copied to offset `at` *)
CopyTo(b, at, bytes) ==
  [i \in 1..Len(b.inp) |-> IF i \in at + 1 .. at + Len(bytes) THEN bytes[i - at] ELSE b.inp[i]]

(* Mutant: the offsets are moved without the bytes. *)
CompactOffsets(b) == [b EXCEPT !.rd = 0, !.wr = b.wr - b.rd]

Compact(b) == [inp |-> CopyTo(b, 0, Unread(b)), rd |-> 0, wr |-> b.wr - b.rd]

(* Mutant: off by one. *)
FitsAlmost(b, max) == b.wr + max <= Len(b.inp) + 1

Fits(b, max) == b.wr + max <= Len(b.inp)

Extend(b, max, spare) ==
  LET end == IF b.wr > max THEN b.wr + max ELSE max * 2 IN
  IF Len(b.inp) < end
  THEN [b EXCEPT !.inp = @ \o [i \in 1..(end + spare - Len(b.inp)) |-> 0]]
  ELSE b

(* inp_makespace, the allocator giving `spare` more than asked for *)
MakeSpace(b, max, spare) ==
  LET b1 == IF b.rd = b.wr THEN [b EXCEPT !.rd = 0, !.wr = 0] ELSE b
      b2 == Compact(b1)
  IN  IF Fits(b1, max) THEN b1
      ELSE IF Fits(b2, max) THEN b2 ELSE Extend(b2, max, spare)

(* read: new data *)
readData(max, spare) ==
  /\ pc = "idle" /\ stream
  /\ LET b == MakeSpace(ib, max, spare)
     IN \E len \in 1..Len(k.rbuf) :
          /\ len <= max
          /\ ib' = [b EXCEPT !.inp = CopyTo(b, b.wr, SubSeq(k.rbuf, 1, len)), !.wr = @ + len]
          /\ handed' = handed \o SubSeq(k.rbuf, 1, len)
          /\ k' = [k EXCEPT !.rbuf = SubSeq(@, len + 1, Len(@)), !.readable = FALSE]
  /\ must_read' = TRUE
  /\ UNCHANGED <<outVars, flagVars, inp_eof, taken, pc, must_flush>>

(* Mutant: WouldBlock is taken for the end of the stream. *)
ReadsNothingOrBlocks(max) == k.rbuf = <<>>

(* Ok(0): at the end of the stream, and for an empty slice *)
ReadsNothing(max) == max = 0 \/ (k.rbuf = <<>> /\ k.fin)

readEof(max, spare) ==
  /\ pc = "idle" /\ stream
  /\ ReadsNothing(max)
  /\ ib' = MakeSpace(ib, max, spare)
  /\ inp_eof' = TRUE
  /\ must_read' = FALSE
  /\ k' = [k EXCEPT !.readable = FALSE]
  /\ UNCHANGED <<outVars, flagVars, handed, taken, pc, must_flush>>

(* Mutant: EINTR is taken for WouldBlock. *)
NothingToReadOrEINTR == stream

NothingToRead == stream /\ k.rbuf = <<>> /\ ~k.fin

readWouldBlock(max, spare) ==
  /\ pc = "idle"
  /\ ~stream \/ (NothingToRead /\ max > 0)
  /\ ib' = MakeSpace(ib, max, spare)
  /\ must_read' = FALSE
  /\ k' = [k EXCEPT !.readable = FALSE, !.rarm = stream /\ k.rbuf = <<>> /\ ~k.fin]
  /\ UNCHANGED <<outVars, flagVars, inp_eof, handed, taken, pc, must_flush>>

readError(max, spare) ==
  /\ pc = "idle" /\ stream
  /\ ib' = MakeSpace(ib, max, spare)
  /\ pc' = "failed"
  /\ UNCHANGED <<outVars, flagVars, inp_eof, must_read, handed, taken, must_flush, k>>

(* Read::read with a buffer of n bytes, or the same done by hand; with nothing
   unread it changes nothing. *)
take(n) ==
  /\ pc = "idle" /\ ib.rd # ib.wr
  /\ LET len == IF n <= ib.wr - ib.rd THEN n ELSE ib.wr - ib.rd IN
       /\ taken' = taken \o SubSeq(ib.inp, ib.rd + 1, ib.rd + len)
       /\ ib' = [ib EXCEPT !.rd = @ + len]
  /\ UNCHANGED <<outVars, flagVars, inp_eof, must_read, handed, pc, must_flush, k>>

-----------------------------------------------------------------------------
FlushStep ==
  flushNodelay \/ flushError \/ flushWrite \/ flushShutdown \/ flushReturn

ReadStep(max, spare) ==
  \/ readData(max, spare) \/ readEof(max, spare)
  \/ readWouldBlock(max, spare) \/ readError(max, spare)

Next ==
  \/ MoveOut \/ Arrive \/ PeerEof
  \/ init \/ deinit \/ \E v \in BOOLEAN : set_nodelay(v) \/ pause_writes(v)
  \/ write \/ writeEof \/ flush \/ FlushStep
  \/ \E max \in Maxes, spare \in Spare : ReadStep(max, spare)
  \/ \E n \in Maxes : take(n)

Spec == Init /\ [][Next]_vars

(***************************************************************************)
(* A call of flush runs to its end, the calls of flush and read the actor  *)
(* is due to make are queued in Stakker and run in turn, and the operating *)
(* system sends what it buffered, which takes a peer that reads.           *)
(***************************************************************************)
FlushDue == (must_flush \/ k.writable) /\ flush
ReadDue ==
  /\ must_read \/ k.readable
  /\ \E max \in Maxes, spare \in Spare : ReadStep(max, spare)

FairSpec ==
  Spec /\ WF_vars(FlushStep) /\ SF_vars(FlushDue) /\ SF_vars(ReadDue) /\ WF_vars(MoveOut)

-----------------------------------------------------------------------------
(* Properties. *)

Stream ==
  [nbuf : 0..SndCap, warm : BOOLEAN, writable : BOOLEAN, shut : BOOLEAN, nodelay : BOOLEAN,
   rbuf : Seq(1..MaxIn), peer : 0..MaxIn, fin : BOOLEAN, rarm : BOOLEAN, readable : BOOLEAN]

(* Every variable has its type. *)
TypeOK ==
  /\ out \in Seq(1..MaxOut) /\ wire \in Seq(1..MaxOut) /\ written \in 0..MaxOut
  /\ out_eof \in BOOLEAN /\ sent_out_eof \in BOOLEAN
  /\ nodelay \in BOOLEAN /\ pending_set_nodelay \in BOOLEAN /\ pause \in BOOLEAN
  /\ stream \in BOOLEAN /\ inits \in 0..MaxInits
  /\ ib \in [inp : Seq(0..MaxIn), rd : Nat, wr : Nat]
  /\ inp_eof \in BOOLEAN /\ must_read \in BOOLEAN
  /\ handed \in Seq(1..MaxIn) /\ taken \in Seq(1..MaxIn)
  /\ pc \in {"idle", "nodelay", "write", "failed"} /\ must_flush \in BOOLEAN
  /\ k \in Stream

(* The bytes written reach the operating system in order, none lost, none
   twice, through partial writes, errors and changes of the stream. *)
OutIntact == wire \o out = [i \in 1..written |-> i]

(* EOF is sent only after all that was written, and nothing after it. *)
EofLast ==
  [][/\ k'.shut /\ ~k.shut => out' = <<>>
     /\ k'.shut /\ k.shut => UNCHANGED wire]_vars

Unsent == out # <<>> \/ (out_eof /\ ~k.shut)

(* Neither bytes in `out` nor a wanted EOF get stuck: while there are some and
   the actor is not about to flush, a WRITABLE event is on its way or will
   come. *)
NoStrandedOutput ==
  pc = "idle" /\ stream /\ ~pause /\ Unsent =>
    must_flush \/ k.writable \/ (k.warm /\ k.nbuf > 0)

(* "The change will be applied on the next flush": when the actor is not about
   to flush, the stream has the TCP_NODELAY setting asked for. *)
NodelayApplied ==
  pc = "idle" /\ stream /\ ~pause /\ ~must_flush => k.nodelay = nodelay

(* What was written, and the EOF, leave in the end, unless the actor stops,
   drops the stream or pauses it. *)
OutDrains ==
  (stream /\ Unsent) ~> (~Unsent \/ ~stream \/ pause \/ pc = "failed")

(* The bytes received are the ones the actor took and those unread in `inp`,
   in order: moving, growing and refilling the buffer neither loses, repeats
   nor damages any, and leaves the offsets in order and in the buffer (outside
   it the slices of the code panic). *)
InIntact ==
  /\ ib.rd <= ib.wr /\ ib.wr <= Len(ib.inp)
  /\ handed = taken \o Unread(ib)

(* Input never gets stuck in the socket: while bytes or an EOF wait there,
   the actor is due to read or will get a READABLE event. *)
NoStrandedInput ==
  pc = "idle" /\ stream /\ ~inp_eof /\ (k.rbuf # <<>> \/ k.fin) => must_read \/ k.readable

(* tcpstrbuf.rs:381: "End of stream was reported" - inp_eof means that the peer
   closed the stream and all its bytes were received. *)
EofHonest == stream /\ inp_eof => k.fin /\ k.rbuf = <<>>

Unreceived == k.rbuf # <<>> \/ (k.fin /\ ~inp_eof)

(* Input is received in the end, and so is the EOF, unless the actor stops or
   drops the stream. *)
InDrains == (stream /\ Unreceived) ~> (~Unreceived \/ ~stream \/ pc = "failed")
=============================================================================
