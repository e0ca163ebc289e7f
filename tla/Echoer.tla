------------------------------- MODULE Echoer -------------------------------
(***************************************************************************)
(* The Echoer actor of src/examples/echo_server.rs over its TcpStreamBuf:  *)
(* what it receives it sends back a second later.                          *)
(*                                                                         *)
(* Stakker is external: a handler runs to its end; stop! and fail! inside  *)
(* it record why the actor ends, a later one replacing an earlier one, and *)
(* the actor ends when the handler returns; timers of the same delay fire  *)
(* in the order they were set, if the actor is still there.  Time is left  *)
(* out: a timer fires some time after it was set.                          *)
(***************************************************************************)
EXTENDS TcpStreamBuf, Ready

CONSTANT Marks  \* choices of [bang, pct]: which byte is '!' and which '%', 0 for none

ASSUME MarksAssumption == Marks \subseteq [bang : 0..MaxIn, pct : 0..MaxIn]

VARIABLES
  mark,
  epc,     \* "idle"; in a handler: "read", "data", "keep", "call_flush", "flush"; "ended"
  back,    \* where the flush in progress returns to
  ready,   \* the argument of the call of ready in progress
  timers,  \* calls of send_data and send_eof to come
  die      \* why the actor ends

echoVars == <<mark, epc, back, ready, timers, die>>
allVars == <<vars, echoVars>>

Eof == <<>>   \* argument of a send_eof among those of send_data, never empty

(* Echoer::init and setup: a TcpStreamBuf with its first stream *)
EchoInit ==
  /\ out = <<>> /\ out_eof = FALSE /\ sent_out_eof = FALSE
  /\ ib = [inp |-> <<>>, rd |-> 0, wr |-> 0] /\ inp_eof = FALSE
  /\ nodelay = FALSE /\ pending_set_nodelay = TRUE /\ pause = FALSE
  /\ stream = TRUE /\ inits = 1 /\ k = NewStream
  /\ pc = "idle" /\ must_flush = FALSE /\ must_read = FALSE
  /\ written = 0 /\ wire = <<>> /\ handed = <<>> /\ taken = <<>>
  /\ mark \in Marks
  /\ epc = "idle" /\ back = "idle" /\ ready = 0 /\ timers = <<>> /\ die = "none"

-----------------------------------------------------------------------------
(* Handlers.  MioPoll calls ready for an event. *)

echoReady ==
  /\ epc = "idle" /\ die = "none" /\ (k.readable \/ k.writable)
  /\ LET ev == {f \in {"readable", "writable"} : k[f]} IN
       /\ ready' = new(ev)
       /\ epc' = IF is("readable", new(ev)) THEN "read" ELSE "call_flush"
  /\ k' = [k EXCEPT !.readable = FALSE, !.writable = FALSE]
  /\ UNCHANGED <<outVars, flagVars, inVars, pc, must_flush, mark, back, timers, die>>

AfterRead == IF is("writable", ready) THEN "call_flush" ELSE "idle"

(* Read one piece at a time. *)
echoNewData(max, spare) ==
  /\ epc = "read" /\ readData(max, spare)
  /\ epc' = "data"
  /\ UNCHANGED <<mark, back, ready, timers, die>>

(* Mutant: the EOF is not sent back. *)
EofTimersNone == timers

EofTimers == Append(timers, Eof)

echoEndOfStream(max, spare) ==
  /\ epc = "read" /\ readEof(max, spare)
  /\ timers' = EofTimers
  /\ epc' = AfterRead
  /\ UNCHANGED <<mark, back, ready, die>>

echoWouldBlock(max, spare) ==
  /\ epc = "read" /\ readWouldBlock(max, spare)
  /\ epc' = AfterRead
  /\ UNCHANGED <<mark, back, ready, timers, die>>

echoReadError(max, spare) ==
  /\ epc = "read"
  /\ ib' = MakeSpace(ib, max, spare)
  /\ die' = "failed"
  /\ epc' = AfterRead
  /\ UNCHANGED <<outVars, flagVars, inp_eof, must_read, handed, taken, pc, must_flush, k,
                 mark, back, ready, timers>>

(* check_special_chars, the first half *)
checkBang ==
  /\ epc = "data"
  /\ IF Contains(Unread(ib), mark.bang)
     THEN out_eof' = TRUE /\ FlushEntry /\ epc' = "flush" /\ back' = "keep"
     ELSE epc' = "keep" /\ UNCHANGED <<out_eof, pc, back>>
  /\ UNCHANGED <<out, sent_out_eof, written, wire, flagVars, inVars, must_flush, k,
                 mark, ready, timers, die>>

(* Mutant: no `continue` after a piece of data. *)
ReadOnce == AfterRead

ReadOn == "read"

(* check_special_chars, the second half, and after!(send_data) *)
keepData ==
  /\ epc = "keep"
  /\ die' = IF Contains(Unread(ib), mark.pct) THEN "aborted" ELSE die
  /\ timers' = Append(timers, Unread(ib))
  /\ taken' = taken \o Unread(ib)
  /\ ib' = [ib EXCEPT !.rd = ib.wr]
  /\ epc' = ReadOn
  /\ UNCHANGED <<outVars, flagVars, inp_eof, must_read, handed, pc, must_flush, k,
                 mark, back, ready>>

callFlush ==
  /\ epc = "call_flush"
  /\ FlushEntry /\ epc' = "flush" /\ back' = "idle"
  /\ UNCHANGED <<outVars, flagVars, inVars, must_flush, k, mark, ready, timers, die>>

echoFlushStep ==
  /\ flushNodelay \/ flushWrite \/ flushShutdown \/ flushReturn
  /\ UNCHANGED echoVars

echoFlushError ==
  /\ flushError
  /\ die' = "failed"
  /\ UNCHANGED <<mark, epc, back, ready, timers>>

(* Mutants: the actor stops when EOF is wanted, whatever is in `out`; it stops
   whenever `out` is empty. *)
OutputWanted == out_eof
OutputEmpty == out = <<>>

OutputComplete == out_eof /\ out = <<>>

flushDone ==
  /\ epc = "flush" /\ pc = "idle"
  /\ die' = IF OutputComplete THEN "stopped" ELSE die
  /\ epc' = back
  /\ UNCHANGED <<vars, mark, back, ready, timers>>

(* Mutant: the data replaces what is still to be sent. *)
OutReplaced(data) == data

OutExtended(data) == out \o data

(* send_data and send_eof *)
timer ==
  /\ epc = "idle" /\ die = "none" /\ timers # <<>>
  /\ out' = OutExtended(Head(timers))
  /\ out_eof' = (out_eof \/ Head(timers) = Eof)
  /\ written' = written + Len(Head(timers))
  /\ timers' = Tail(timers)
  /\ FlushEntry /\ epc' = "flush" /\ back' = "idle"
  /\ UNCHANGED <<sent_out_eof, wire, flagVars, inVars, must_flush, k, mark, ready, die>>

(* The actor ends, and drops its stream. *)
end ==
  /\ epc = "idle" /\ die # "none"
  /\ epc' = "ended"
  /\ deinit
  /\ UNCHANGED <<mark, back, ready, timers, die>>

-----------------------------------------------------------------------------
EchoRead(max, spare) ==
  \/ echoNewData(max, spare) \/ echoEndOfStream(max, spare)
  \/ echoWouldBlock(max, spare) \/ echoReadError(max, spare)

Handler ==
  \/ \E max \in Maxes, spare \in Spare : EchoRead(max, spare)
  \/ checkBang \/ keepData \/ callFlush
  \/ echoFlushStep \/ echoFlushError \/ flushDone

World == (MoveOut \/ Arrive \/ PeerEof) /\ UNCHANGED echoVars

(* The actor by itself; module EchoServer puts it under its listener. *)
EchoNext == World \/ echoReady \/ timer \/ Handler \/ end

EchoSpec == EchoInit /\ [][EchoNext]_allVars

-----------------------------------------------------------------------------
(* Properties. *)

Ends == epc # "ended" /\ epc' = "ended"

(* "This actor just sends back whatever data it receives": every byte received
   is, once and in order, sent, in `out`, in a timer or in hand. *)
EchoIntact == wire \o out \o FlattenSeq(timers) \o Unread(ib) = handed

(* "Stop actor when output is complete": unless it was sent a '!', an actor
   that stops has sent back everything the peer sent before its EOF. *)
StopsComplete ==
  [][Ends /\ die = "stopped" /\ mark.bang \notin ToSet(handed) =>
       k.fin /\ wire = [i \in 1..k.peer |-> i]]_allVars

(* The AbortError of a '%' that was received is lost to an I/O error or to a
   '!' only: in particular the EOF of the peer and the end of the output, which
   the handler may meet after the '%' or at the same time, do not replace it
   (that nothing ever does: AbortPassed). *)
AbortKept ==
  [][Ends /\ mark.pct \in ToSet(handed) /\ mark.bang \notin ToSet(handed) =>
       die \in {"aborted", "failed"}]_allVars

(* Nothing is left in the socket or in `out` without an event or a timer that
   brings the actor back to it. *)
NoStrandedEcho ==
  epc = "idle" /\ die = "none" =>
    /\ k.rbuf # <<>> \/ (k.fin /\ ~inp_eof) => k.readable
    /\ inp_eof => out_eof \/ Eof \in ToSet(timers)
    /\ out # <<>> => k.writable \/ (k.warm /\ k.nbuf > 0)

(* echo_server.rs:14: "If the character '%' is passed, this causes the actor to
   fail, passing an `AbortError` back to the listener". *)
AbortPassed == [][Ends /\ mark.pct \in ToSet(handed) => die = "aborted"]_allVars
=============================================================================
