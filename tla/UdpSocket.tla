------------------------------ MODULE UdpSocket ------------------------------
(***************************************************************************)
(* What UdpQueue and UdpServerQueue share: their fields, the mio UdpSocket *)
(* in its MioSource, which is external, and the actor that uses the queue. *)
(* The socket is edge-triggered under the weakest contract mio documents:  *)
(* a READABLE or WRITABLE event comes only after the operation would have  *)
(* blocked.                                                                *)
(***************************************************************************)
EXTENDS Integers, Sequences

CONSTANTS
  Peers,       \* socket addresses
  Sizes,       \* sizes of incoming packets
  BufSize,     \* size of the buffer `tmp` given to read
  SndCap,      \* packets the operating system buffers for output
  RcvCap,      \* packets the operating system buffers for input
  MaxPackets   \* bound: packets pushed, and packets that arrive on one socket

ASSUME SizesAssumption == Sizes \subseteq Nat /\ BufSize \in Nat
ASSUME CapsAssumption == SndCap \in Nat \ {0} /\ RcvCap \in Nat \ {0} /\ MaxPackets \in Nat

Packet == [id : 1..MaxPackets, addr : Peers]
Datagram == [id : 1..MaxPackets, addr : Peers, size : Sizes]
Received == [id : 1..MaxPackets, addr : Peers, size : 0..BufSize]

VARIABLES
  out,         \* output queue
  socket,      \* there is a socket
  pk,          \* local of flush: the packet being sent, or nothing
  pc,          \* "idle", "flush", "read", or "failed": the actor was stopped
  must_flush,  \* the actor pushed a packet and will call flush
  wbuf,        \* socket: number of packets in the output buffer
  warm,        \* socket: a send would have blocked, WRITABLE will come
  writable,    \* socket: the WRITABLE event is on its way to the actor
  rbuf,        \* socket: packets in the input buffer
  rarm,        \* socket: a recv would have blocked, READABLE will come
  readable,    \* socket: the READABLE event is on its way to the actor
  platform,    \* the operating system, which never changes
  pushed,      \* history: packets given to push
  sent,        \* history: packets given to the operating system, in order
  lost,        \* history: packets taken from the queue and not sent
  arrived,     \* history: packets that came in on this socket
  got          \* history: what read returned from this socket

queueVars == <<out, pk, must_flush>>
writeVars == <<wbuf, warm, writable>>
readVars == <<rbuf, rarm, readable>>
outHistory == <<pushed, sent, lost>>
inHistory == <<arrived, got>>
vars == <<queueVars, socket, pc, writeVars, readVars, platform, outHistory, inHistory>>

Init ==
  /\ out = <<>> /\ pk = <<>> /\ must_flush = FALSE
  /\ socket = FALSE
  /\ pc = "idle"
  /\ wbuf = 0 /\ warm = FALSE /\ writable = FALSE
  /\ rbuf = <<>> /\ rarm = FALSE /\ readable = FALSE
  /\ platform \in {"unix", "windows"}
  /\ pushed = <<>> /\ sent = <<>> /\ lost = {}
  /\ arrived = <<>> /\ got = <<>>

-----------------------------------------------------------------------------
(* The socket. *)

(* A packet comes in from the network. *)
Arrive(addr, size) ==
  /\ socket
  /\ Len(rbuf) < RcvCap
  /\ Len(arrived) < MaxPackets
  /\ LET d == [id |-> Len(arrived) + 1, addr |-> addr, size |-> size] IN
       rbuf' = Append(rbuf, d) /\ arrived' = Append(arrived, d)
  /\ readable' = (readable \/ rarm)
  /\ rarm' = FALSE
  /\ UNCHANGED <<queueVars, socket, pc, writeVars, platform, outHistory, got>>

(* The operating system moves a packet out of its buffer. *)
MoveOut ==
  /\ wbuf > 0
  /\ wbuf' = wbuf - 1
  /\ writable' = (writable \/ warm)
  /\ warm' = FALSE
  /\ UNCHANGED <<queueVars, socket, pc, readVars, platform, outHistory, inHistory>>

(* A new socket: writable, and without input. *)
NewSocket ==
  /\ socket' = TRUE
  /\ wbuf' = 0 /\ warm' = FALSE /\ writable' = TRUE
  /\ rbuf' = <<>> /\ rarm' = TRUE /\ readable' = FALSE
  /\ arrived' = <<>> /\ got' = <<>>

NoSocket ==
  /\ socket' = FALSE
  /\ wbuf' = 0 /\ warm' = FALSE /\ writable' = FALSE
  /\ rbuf' = <<>> /\ rarm' = FALSE /\ readable' = FALSE
  /\ arrived' = <<>> /\ got' = <<>>

(* The results of send that change the socket. *)
SendTaken == wbuf < SndCap /\ wbuf' = wbuf + 1 /\ UNCHANGED <<warm, writable>>
SendWouldBlock == wbuf = SndCap /\ warm' = TRUE /\ UNCHANGED <<wbuf, writable>>

-----------------------------------------------------------------------------
(* The actor: it calls flush on WRITABLE and after push, read until nothing
   is left on READABLE, each also without need, and stops itself (fail!) on
   an error, which drops the queue and the socket. *)

FlushCall ==
  /\ pc = "idle"
  /\ pc' = "flush"
  /\ must_flush' = FALSE
  /\ writable' = FALSE
  /\ UNCHANGED <<out, pk, socket, wbuf, warm, readVars, platform, outHistory, inHistory>>

ReadCall ==
  /\ pc = "idle"
  /\ pc' = "read"
  /\ readable' = FALSE
  /\ UNCHANGED <<queueVars, socket, writeVars, rbuf, rarm, platform, outHistory, inHistory>>

FlushDue == (must_flush \/ writable) /\ FlushCall
ReadDue == readable /\ ReadCall

Fail == pc' = "failed" /\ NoSocket

-----------------------------------------------------------------------------
(* Properties of both queues. *)

(* Every variable has its type. *)
TypeOK ==
  /\ out \in Seq(Packet)
  /\ pk = <<>> \/ \E p \in Packet : pk = <<p>>
  /\ socket \in BOOLEAN /\ must_flush \in BOOLEAN
  /\ warm \in BOOLEAN /\ writable \in BOOLEAN
  /\ rarm \in BOOLEAN /\ readable \in BOOLEAN
  /\ pc \in {"idle", "flush", "read", "failed"}
  /\ wbuf \in 0..SndCap
  /\ rbuf \in Seq(Datagram) /\ arrived \in Seq(Datagram)
  /\ platform \in {"unix", "windows"}
  /\ pushed \in Seq(Packet) /\ sent \in Seq(Packet)
  /\ lost \in SUBSET Packet
  /\ got \in Seq(Received)

(* Packets never get stuck in `out`: while some wait there and the actor is
   not about to flush, a WRITABLE event is on its way or will come, because
   the last flush ended in WouldBlock. *)
NoStrandedOutput ==
  pc = "idle" /\ socket /\ out # <<>> =>
    must_flush \/ writable \/ (warm /\ wbuf > 0)

(* Incoming packets never get stuck in the socket: while some wait there, the
   actor is reading or will get a READABLE event. *)
NoStrandedInput == socket /\ rbuf # <<>> => pc = "read" \/ readable

(* The edge-triggered protocol, both ways. *)
NothingStranded == NoStrandedOutput /\ NoStrandedInput

(* Packets cut to the size of the buffer, as recv does. *)
CutOne(d) == [d EXCEPT !.size = IF @ <= BufSize THEN @ ELSE BufSize]
Cut(seq) == [i \in 1..Len(seq) |-> CutOne(seq[i])]

(* The docs of `out`: "If the OS buffer is full, then you'll see packets
   building up here" - no packet is dropped on the way to the socket. *)
NothingLost == pc # "failed" => lost = {}

(* Packets that wait in `out` of a queue with a socket leave it in the end. *)
OutDrains == (socket /\ out # <<>>) ~> (out = <<>> \/ ~socket)
=============================================================================
