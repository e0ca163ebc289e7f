--------------------------- MODULE TlsServerEngine ---------------------------
(***************************************************************************)
(* src/src/tls_rustls.rs: TlsServerEngine::process, which moves data       *)
(* between `ext`, a TcpStreamBuf with a stream (the variables of module    *)
(* TcpStreamBuf), and `int`, one without.  Without TLS it is               *)
(* TcpStreamBuf::exchange.                                                 *)
(*                                                                         *)
(* A unit of the numbers in `ext` stands for one TLS record, or without    *)
(* TLS for one byte; what it carries is in `recs` and `peer_recs`.  The    *)
(* plain bytes are numbers again: 1, 2, 3 ... in each direction.  The      *)
(* rustls ServerConnection (version 0.20) is external.  It keeps plaintext *)
(* until the handshake is over, up to Limit bytes; write_tls hands over    *)
(* one record, since a TcpStreamBuf has no vectored write; its reader      *)
(* gives Ok(0) for an empty slice, and after close_notify once all is      *)
(* read.  It would give UnexpectedEof if read_tls had read 0 bytes, but    *)
(* process never calls read_tls on an empty buffer.                        *)
(***************************************************************************)
EXTENDS TcpStreamBuf

CONSTANTS
  TlsModes,      \* with (TRUE) or without (FALSE) a TLS configuration
  Limit,         \* plaintext rustls keeps before the handshake is over
  MaxPlain,      \* bound: bytes the application writes
  MaxPeerPlain,  \* bound: plain bytes the peer sends
  PeerCloses,    \* the peer may send close_notify
  EarlyEof       \* the application may set out_eof before the handshake is over

ASSUME TlsModesAssumption == TlsModes \subseteq BOOLEAN /\ {PeerCloses, EarlyEof} \subseteq BOOLEAN
ASSUME LimitAssumption == Limit \in Nat \ {0} /\ {MaxPlain, MaxPeerPlain} \subseteq Nat

VARIABLES
  sc,            \* the ServerConnection; tls: there is one
  engine,        \* fields sent_out_eof and inp_eof of TlsServerEngine
  int,           \* fields of the plain TcpStreamBuf
  tpc,           \* "idle"; in process: "loop", and "reader" in its inner loop
  must_process,  \* something changed, the actor will call process
  recs,          \* content of the units written to ext
  peer_recs,     \* content of the units the peer sent
  app            \* history: bytes the application wrote, and those it took

tlsVars == <<sc, engine, int, tpc, must_process, recs, peer_recs, app>>
allVars == <<vars, tlsVars>>

Rec(t) == [t |-> t, bytes |-> <<>>]
Data(bytes) == [t |-> "data", bytes |-> bytes]
Plain(records) == FlattenSeq([i \in DOMAIN records |-> records[i].bytes])
Contents(records, units) == [i \in DOMAIN units |-> records[units[i]]]
Smaller(a, b) == IF a <= b THEN a ELSE b
From(n, s) == SubSeq(s, n + 1, Len(s))

(* new, with a fresh `ext` whose writes are paused, as process asks for *)
TlsInit ==
  /\ out = <<>> /\ out_eof = FALSE /\ sent_out_eof = FALSE
  /\ ib = [inp |-> <<>>, rd |-> 0, wr |-> 0] /\ inp_eof = FALSE
  /\ nodelay = FALSE /\ pending_set_nodelay = TRUE /\ pause = TRUE
  /\ stream = TRUE /\ inits = 1 /\ k = NewStream
  /\ pc = "idle" /\ must_flush = FALSE /\ must_read = FALSE
  /\ written = 0 /\ wire = <<>> /\ handed = <<>> /\ taken = <<>>
  /\ sc \in [tls : TlsModes, up : {FALSE}, held : {<<>>}, sendable : {<<>>},
             received : {<<>>}, closed : {FALSE}]
  /\ engine = [sent_out_eof |-> FALSE, inp_eof |-> "None"]
  /\ int = [out |-> <<>>, out_eof |-> FALSE, inp_eof |-> FALSE, ib |-> ib]
  /\ tpc = "idle" /\ must_process = FALSE
  /\ recs = <<>> /\ peer_recs = <<>>
  /\ app = [put |-> 0, taken |-> <<>>]

-----------------------------------------------------------------------------
(* process with TLS.  Each step is one round of the loop: the first of the
   conditions that holds decides. *)

processEnter ==
  /\ tpc = "idle" /\ pc = "idle" /\ must_process /\ sc.tls
  /\ tpc' = "loop"
  /\ must_process' = FALSE
  /\ UNCHANGED <<vars, sc, engine, int, recs, peer_recs, app>>

Looping == tpc = "loop" /\ pc = "idle"
WantsWrite == sc.sendable # <<>>

(* Mutant: int.out_eof is acted on before int.out has gone. *)
WantsNotifyEarly == int.out_eof /\ ~engine.sent_out_eof

WantsNotify == int.out_eof /\ int.out = <<>> /\ ~engine.sent_out_eof

WantsRead == sc.received = <<>> /\ ~sc.closed /\ ib.rd # ib.wr

(* sc.write_tls(ext) and ext.flush() *)
writeTls ==
  /\ Looping /\ WantsWrite
  /\ out' = Append(out, written + 1)
  /\ written' = written + 1
  /\ recs' = Append(recs, Head(sc.sendable))
  /\ sc' = [sc EXCEPT !.sendable = Tail(@)]
  /\ out_eof' = (out_eof \/ (engine.sent_out_eof /\ Len(sc.sendable) = 1))
  /\ FlushEntry
  /\ UNCHANGED <<sent_out_eof, wire, flagVars, inVars, must_flush, k,
                 engine, int, tpc, must_process, peer_recs, app>>

(* Mutant: int.out keeps what the writer took. *)
UndrainedOut(len) == int.out

DrainedOut(len) == From(len, int.out)

(* sc.writer().write(int.out); it may accept nothing *)
writePlain ==
  /\ Looping /\ ~WantsWrite /\ int.out # <<>>
  /\ LET room == IF sc.up THEN Limit ELSE Limit - Len(sc.held)
         len == Smaller(room, Len(int.out))
         bytes == SubSeq(int.out, 1, len)
     IN /\ sc' = IF sc.up THEN [sc EXCEPT !.sendable = Append(@, Data(bytes))]
                          ELSE [sc EXCEPT !.held = @ \o bytes]
        /\ int' = [int EXCEPT !.out = DrainedOut(len)]
  /\ UNCHANGED <<vars, engine, tpc, must_process, recs, peer_recs, app>>

sendCloseNotify ==
  /\ Looping /\ ~WantsWrite /\ WantsNotify
  /\ sc' = [sc EXCEPT !.sendable = Append(@, Rec("close"))]
  /\ engine' = [engine EXCEPT !.sent_out_eof = TRUE]
  /\ UNCHANGED <<vars, int, tpc, must_process, recs, peer_recs, app>>

(* process_new_packets, for one record *)
Receive(conn, rec) ==
  CASE rec.t = "hello" -> [conn EXCEPT !.sendable = Append(@, Rec("flight"))]
    [] rec.t = "finished" ->
         [conn EXCEPT !.up = TRUE, !.held = <<>>,
                      !.sendable = IF conn.held = <<>> THEN @ ELSE Append(@, Data(conn.held))]
    [] rec.t = "data" -> [conn EXCEPT !.received = @ \o rec.bytes]
    [] rec.t = "close" -> [conn EXCEPT !.closed = TRUE]

(* process_new_packets, for one record after the other *)
ReceiveAll(conn, records) ==
  LET upto[i \in 0..Len(records)] == IF i = 0 THEN conn ELSE Receive(upto[i - 1], records[i])
  IN upto[Len(records)]

(* sc.read_tls(ext), process_new_packets and inp_makespace.  read_tls takes all
   there is: more than its buffer holds is like input that comes later. *)
readTls(spare) ==
  /\ Looping /\ ~WantsWrite /\ int.out = <<>> /\ ~WantsNotify /\ WantsRead
  /\ ib' = [ib EXCEPT !.rd = ib.wr]
  /\ taken' = taken \o Unread(ib)
  /\ sc' = ReceiveAll(sc, Contents(peer_recs, Unread(ib)))
  /\ LET read_len == Len(sc'.received) IN
     IF read_len > 0
     THEN int' = [int EXCEPT !.ib = MakeSpace(@, read_len, spare)] /\ tpc' = "reader"
     ELSE UNCHANGED <<int, tpc>>
  /\ UNCHANGED <<outVars, flagVars, inp_eof, must_read, handed, pc, must_flush, k,
                 engine, must_process, recs, peer_recs, app>>

(* A TLS stream error *)
tlsError ==
  /\ Looping /\ ~WantsWrite /\ int.out = <<>> /\ ~WantsNotify /\ WantsRead
  /\ pc' = "failed"
  /\ UNCHANGED <<outVars, flagVars, inVars, must_flush, k, tlsVars>>

processReturn ==
  /\ Looping /\ ~WantsWrite /\ int.out = <<>> /\ ~WantsNotify /\ ~WantsRead
  /\ tpc' = "idle"
  /\ UNCHANGED <<vars, sc, engine, int, must_process, recs, peer_recs, app>>

Room == Len(int.ib.inp) - int.ib.wr

readerData ==
  /\ tpc = "reader" /\ sc.received # <<>> /\ Room > 0
  /\ LET len == Smaller(Room, Len(sc.received)) IN
       /\ int' = [int EXCEPT !.ib.inp = CopyTo(int.ib, int.ib.wr, SubSeq(sc.received, 1, len)),
                             !.ib.wr = @ + len]
       /\ sc' = [sc EXCEPT !.received = From(len, @)]
  /\ UNCHANGED <<vars, engine, tpc, must_process, recs, peer_recs, app>>

(* Mutant: WouldBlock is taken for the end of the stream. *)
ReaderEmpty == Room = 0 \/ sc.received = <<>>

ReaderZero == Room = 0 \/ (sc.received = <<>> /\ sc.closed)

(* Ok(0), which does not end the inner loop *)
readerEof ==
  /\ tpc = "reader" /\ ReaderZero
  /\ engine' = [engine EXCEPT !.inp_eof = "Close"]
  /\ UNCHANGED <<vars, sc, int, tpc, must_process, recs, peer_recs, app>>

(* Mutant: the inner loop does not end either. *)
AfterWouldBlockSame == "reader"

AfterWouldBlock == "loop"

readerWouldBlock ==
  /\ tpc = "reader" /\ Room > 0 /\ sc.received = <<>> /\ ~sc.closed
  /\ tpc' = AfterWouldBlock
  /\ UNCHANGED <<vars, sc, engine, int, must_process, recs, peer_recs, app>>

-----------------------------------------------------------------------------
(* process without TLS: int.exchange(ext) and ext.flush() *)

(* Mutants: ext keeps its offsets; an EOF is not passed. *)
OffsetsKept == ib
OutEofKept == out_eof
InpEofKept == int.inp_eof

OffsetsReset == IF ib.rd # ib.wr THEN [ib EXCEPT !.rd = 0, !.wr = 0] ELSE ib
OutEofExchanged == out_eof \/ int.out_eof
InpEofExchanged == int.inp_eof \/ inp_eof

exchange(spare) ==
  LET units == [i \in DOMAIN int.out |-> written + i]
      bytes == Plain(Contents(peer_recs, Unread(ib)))
      b == MakeSpace(int.ib, Len(bytes), spare)
  IN /\ out' = out \o units
     /\ recs' = recs \o [i \in DOMAIN int.out |-> Data(<<int.out[i]>>)]
     /\ written' = written + Len(int.out)
     /\ out_eof' = OutEofExchanged
     /\ taken' = taken \o Unread(ib)
     /\ ib' = OffsetsReset
     /\ int' = [int EXCEPT !.out = <<>>, !.inp_eof = InpEofExchanged,
                  !.ib = IF bytes = <<>> THEN @
                         ELSE [b EXCEPT !.inp = CopyTo(b, b.wr, bytes), !.wr = @ + Len(bytes)]]

processPass(spare) ==
  /\ tpc = "idle" /\ pc = "idle" /\ must_process /\ ~sc.tls
  /\ exchange(spare)
  /\ engine' = IF InpEofExchanged THEN [engine EXCEPT !.inp_eof = "Close"] ELSE engine
  /\ FlushEntry
  /\ must_process' = FALSE
  /\ UNCHANGED <<sent_out_eof, wire, flagVars, inp_eof, must_read, handed, must_flush, k,
                 sc, tpc, peer_recs, app>>

-----------------------------------------------------------------------------
(* The actor: the application behind `int`, and its handlers for `ext`. *)

TlsFailed == pc = "failed"

Idle == tpc = "idle" /\ pc = "idle"

appWrite ==
  /\ Idle /\ ~int.out_eof /\ app.put < MaxPlain
  /\ int' = [int EXCEPT !.out = Append(@, app.put + 1)]
  /\ app' = [app EXCEPT !.put = @ + 1]
  /\ must_process' = TRUE
  /\ UNCHANGED <<vars, sc, engine, tpc, recs, peer_recs>>

appEof ==
  /\ Idle /\ ~int.out_eof /\ (EarlyEof \/ sc.up \/ ~sc.tls)
  /\ int' = [int EXCEPT !.out_eof = TRUE]
  /\ must_process' = TRUE
  /\ UNCHANGED <<vars, sc, engine, tpc, recs, peer_recs, app>>

appTake ==
  /\ Idle /\ int.ib.rd # int.ib.wr
  /\ app' = [app EXCEPT !.taken = @ \o Unread(int.ib)]
  /\ int' = [int EXCEPT !.ib.rd = int.ib.wr]
  /\ UNCHANGED <<vars, sc, engine, tpc, must_process, recs, peer_recs>>

unpause == Idle /\ pause /\ k.writable /\ pause_writes(FALSE) /\ UNCHANGED tlsVars

extFlush == tpc = "idle" /\ (must_flush \/ k.writable) /\ flush /\ UNCHANGED tlsVars

extRead(max, spare) ==
  /\ tpc = "idle" /\ (must_read \/ k.readable)
  /\ ReadStep(max, spare)
  /\ must_process' = TRUE
  /\ UNCHANGED <<sc, engine, int, tpc, recs, peer_recs, app>>

-----------------------------------------------------------------------------
(* The peer: a TLS client, or a plain one.  It sends nothing after its
   close_notify, and may close the TCP stream at any time. *)

PeerSent(t) == \E i \in DOMAIN peer_recs : peer_recs[i].t = t

PeerRecords ==
  LET n == Len(Plain(peer_recs))
      data == {Data(<<byte>>) : byte \in {n + 1} \cap 1..MaxPeerPlain}
  IN IF ~sc.tls THEN data
     ELSE IF peer_recs = <<>> THEN {Rec("hello")}
     ELSE IF ~PeerSent("finished")
          THEN {Rec("finished") : i \in {j \in DOMAIN wire : recs[wire[j]].t = "flight"}}
     ELSE IF PeerSent("close") THEN {}
     ELSE data \cup {Rec("close") : i \in {j \in {1} : PeerCloses}}

TlsArrive ==
  /\ Arrive
  /\ \E rec \in PeerRecords : peer_recs' = Append(peer_recs, rec)
  /\ UNCHANGED <<sc, engine, int, tpc, must_process, recs, app>>

-----------------------------------------------------------------------------
ProcessStep ==
  \/ writeTls \/ writePlain \/ sendCloseNotify
  \/ \E spare \in Spare : readTls(spare)
  \/ tlsError \/ processReturn
  \/ readerData \/ readerEof \/ readerWouldBlock

process == processEnter \/ \E spare \in Spare : processPass(spare)

(* The world goes on until the actor fails and drops the stream. *)
World == ~TlsFailed /\ (TlsArrive \/ ((MoveOut \/ PeerEof) /\ UNCHANGED tlsVars))

TlsNext ==
  \/ World
  \/ FlushStep /\ UNCHANGED tlsVars
  \/ process \/ ProcessStep
  \/ appWrite \/ appEof \/ appTake
  \/ unpause \/ extFlush \/ \E max \in Maxes, spare \in Spare : extRead(max, spare)

TlsSpec == TlsInit /\ [][TlsNext]_allVars

(***************************************************************************)
(* The calls of process and flush run to their end, those that are due are *)
(* made, and the operating system sends what it buffered, to a peer that   *)
(* reads.                                                                  *)
(***************************************************************************)
FairTlsSpec ==
  /\ TlsSpec
  /\ WF_allVars(ProcessStep) /\ WF_allVars(FlushStep /\ UNCHANGED tlsVars)
  /\ WF_allVars(~TlsFailed /\ MoveOut /\ UNCHANGED tlsVars)
  /\ SF_allVars(process) /\ SF_allVars(extFlush)
  /\ SF_allVars(\E max \in Maxes, spare \in Spare : extRead(max, spare))

-----------------------------------------------------------------------------
(* Properties. *)

(* Every plain byte, once and in order.  What the application wrote is in a
   record given to the operating system, in ext.out, in the ServerConnection or
   still in int.out; what the peer sent is with the application, in int.inp, in
   the ServerConnection, in ext.inp or in the socket. *)
PlainIntact ==
  /\ Plain(Contents(recs, wire \o out)) \o Plain(sc.sendable) \o sc.held \o int.out
       = [i \in 1..app.put |-> i]
  /\ app.taken \o Unread(int.ib) \o sc.received
         \o Plain(Contents(peer_recs, Unread(ib) \o k.rbuf))
       = Plain(peer_recs)

(* "the outgoing side of the connection is closed at the TLS level" when
   int.out_eof is set: close_notify comes after all the application wrote, no
   record follows it, and TCP is shut down only after it. *)
CloseLast ==
  sc.tls =>
    LET sent == Contents(recs, wire \o out) \o sc.sendable IN
    /\ \A i \in DOMAIN sent : sent[i].t = "close" =>
         i = Len(sent) /\ int.out = <<>> /\ sc.held = <<>>
    /\ k.shut => sent # <<>> /\ Last(sent).t = "close"

(* The rounds of process that change nothing and come again for ever: the inner
   loop has no room left in int.inp, or has read all before a close_notify, and
   takes each Ok(0) for the end of the stream without leaving; or the writer
   holds all it may before the handshake, so that the outer loop never comes to
   read_tls. *)
Spinning ==
  \/ tpc = "reader" /\ Room = 0
  \/ tpc = "reader" /\ sc.received = <<>> /\ sc.closed
  \/ Looping /\ ~WantsWrite /\ int.out # <<>> /\ ~sc.up /\ Len(sc.held) = Limit

(* "Clean EOF" (TlsEof::Close): the peer said that there is no more, and all
   its bytes have been passed on.  In an inner loop that spins for want of room
   the field is set too, but no call returns it any more (Spinning). *)
TlsEofHonest ==
  engine.inp_eof = "Close" /\ ~(tpc = "reader" /\ Room = 0) =>
    /\ IF sc.tls THEN sc.closed ELSE k.fin
    /\ app.taken \o Unread(int.ib) = Plain(peer_recs)

(* A call of process returns, fails, or comes to one of the rounds of Spinning,
   and those never end (that it returns whatever happens: ProcessReturns). *)
ProcessEnds ==
  /\ tpc # "idle" ~> tpc = "idle" \/ TlsFailed \/ Spinning
  /\ [][Spinning => Spinning']_allVars

(* exchange "also passes through EOF flags both ways", and process an EOF of
   the application: it reaches the network, behind what was written, unless
   process spins; without TLS the end of the input is reported. *)
EofPassed ==
  /\ int.out_eof ~> k.shut \/ pause \/ TlsFailed \/ Spinning
  /\ k.fin /\ ~sc.tls ~> engine.inp_eof = "Close" \/ TlsFailed

(* tls_rustls.rs:67: "Returns the input EOF state, or `None` if the input side
   has not reached EOF yet" - so process returns, whatever the peer sends. *)
ProcessReturns == tpc # "idle" ~> tpc = "idle" \/ TlsFailed

(* tls_rustls.rs:11: "Unclean EOF" (TlsEof::Abort) - an end of the TCP stream is
   reported with TLS too. *)
UncleanEofReported == k.fin ~> engine.inp_eof # "None" \/ TlsFailed
=============================================================================
