---------------------------- MODULE UdpServerQueue ----------------------------
(* src/src/udpserverqueue.rs: packet queue for an unconnected UDP socket. *)
EXTENDS UdpSocket

-----------------------------------------------------------------------------
init ==
  /\ pc = "idle"
  /\ NewSocket
  /\ UNCHANGED <<queueVars, pc, platform, outHistory>>

deinit ==
  /\ pc = "idle"
  /\ NoSocket
  /\ UNCHANGED <<queueVars, pc, platform, outHistory>>

push(addr) ==
  /\ pc = "idle"
  /\ Len(pushed) < MaxPackets
  /\ LET p == [id |-> Len(pushed) + 1, addr |-> addr] IN
       out' = Append(out, p) /\ pushed' = Append(pushed, p)
  /\ must_flush' = TRUE
  /\ UNCHANGED <<pk, socket, pc, writeVars, readVars, platform, sent, lost, inHistory>>

-----------------------------------------------------------------------------
(* flush; EINTR repeats the send_to and changes nothing. *)

flushPop ==
  /\ pc = "flush"
  /\ socket /\ pk = <<>> /\ out # <<>>
  /\ pk' = <<Head(out)>>
  /\ out' = Tail(out)
  /\ UNCHANGED <<must_flush, socket, pc, writeVars, readVars, platform, outHistory, inHistory>>

(* Mutant: the address of the next packet is used. *)
SendToNext == [id |-> Head(pk).id, addr |-> IF out = <<>> THEN Head(pk).addr ELSE Head(out).addr]

SendTo == Head(pk)

(* Mutant: return after the first packet. *)
AfterSendReturn == pc' = "idle"

AfterSend == UNCHANGED pc

flushSent ==
  /\ pc = "flush" /\ pk # <<>>
  /\ SendTaken
  /\ sent' = Append(sent, SendTo)
  /\ pk' = <<>>
  /\ AfterSend
  /\ UNCHANGED <<out, must_flush, socket, readVars, platform, pushed, lost, inHistory>>

(* WouldBlock: return Ok, and the packet is dropped *)
flushBlocked ==
  /\ pc = "flush" /\ pk # <<>>
  /\ SendWouldBlock
  /\ lost' = lost \cup {Head(pk)}
  /\ pk' = <<>>
  /\ pc' = "idle"
  /\ UNCHANGED <<out, must_flush, socket, readVars, platform, pushed, sent, inHistory>>

(* another error, or the packet was not sent whole: return Err *)
flushError ==
  /\ pc = "flush" /\ pk # <<>>
  /\ Fail
  /\ lost' = lost \cup {Head(pk)}
  /\ pk' = <<>>
  /\ UNCHANGED <<out, must_flush, platform, pushed, sent>>

flushEnd ==
  /\ pc = "flush" /\ pk = <<>>
  /\ ~socket \/ out = <<>>
  /\ pc' = "idle"
  /\ UNCHANGED <<queueVars, socket, writeVars, readVars, platform, outHistory, inHistory>>

-----------------------------------------------------------------------------
(* read, called until it returns None *)

(* Mutant: packets that are cut are skipped everywhere. *)
NoAddrAnywhere(d) == d.size > BufSize

(* Error 10040: on Windows there is no address with a packet that is cut. *)
NoAddr(d) == platform = "windows" /\ d.size > BufSize

(* Mutant: the size of the packet, beyond the end of tmp. *)
SliceUncut(d) == d

(* What read returns: &tmp[..len] *)
Slice(d) == [d EXCEPT !.size = IF @ <= BufSize THEN @ ELSE BufSize]

readPacket ==
  /\ pc = "read" /\ socket
  /\ rbuf # <<>>
  /\ ~NoAddr(Head(rbuf))
  /\ rbuf' = Tail(rbuf)
  /\ got' = Append(got, Slice(Head(rbuf)))
  /\ UNCHANGED <<queueVars, socket, pc, writeVars, rarm, readable, platform, outHistory, arrived>>

(* Mutant: Ok(None) for the packet that is skipped. *)
AfterSkipNone == pc' = "idle"

AfterSkip == UNCHANGED pc

(* the loop goes on with the next packet *)
readSkip ==
  /\ pc = "read" /\ socket
  /\ rbuf # <<>>
  /\ NoAddr(Head(rbuf))
  /\ rbuf' = Tail(rbuf)
  /\ AfterSkip
  /\ UNCHANGED <<queueVars, socket, writeVars, rarm, readable, platform, outHistory, inHistory>>

(* WouldBlock, or no socket: None *)
readNone ==
  /\ pc = "read"
  /\ ~socket \/ rbuf = <<>>
  /\ rarm' = (socket /\ rbuf = <<>>)
  /\ pc' = "idle"
  /\ UNCHANGED <<queueVars, socket, writeVars, rbuf, readable, platform, outHistory, inHistory>>

readError ==
  /\ pc = "read" /\ socket
  /\ Fail
  /\ UNCHANGED <<queueVars, platform, outHistory>>

-----------------------------------------------------------------------------
flushStep == flushPop \/ flushSent \/ flushBlocked \/ flushError \/ flushEnd
readStep == readPacket \/ readSkip \/ readNone \/ readError

Next ==
  \/ init \/ deinit
  \/ \E addr \in Peers : push(addr)
  \/ FlushCall \/ flushStep
  \/ ReadCall \/ readStep
  \/ \E addr \in Peers, size \in Sizes : Arrive(addr, size)
  \/ MoveOut

Spec == Init /\ [][Next]_vars

-----------------------------------------------------------------------------
(* read hands over every packet that came in, with its sender, in order, none
   twice, cut to the size of the buffer, and leaves out only those that do not
   fit the buffer on Windows: "truncated (UNIX) or discarded (Windows)". The
   first `done` packets were taken from the socket, the others wait in it. *)
ReadFaithful ==
  LET done == Len(arrived) - Len(rbuf)
      Kept(d) == platform = "unix" \/ d.size <= BufSize
  IN /\ done >= 0
     /\ \A i \in 1..Len(rbuf) : rbuf[i] = arrived[done + i]
     /\ {got[i] : i \in 1..Len(got)} =
          {CutOne(arrived[i]) : i \in {k \in 1..done : Kept(arrived[k])}}
     /\ \A i, j \in 1..Len(got) : i < j => got[i].id < got[j].id

(* The packets in flush's hands and in `out` form a FIFO that loses packets
   only at its head: flush neither reorders nor duplicates packets, and sends
   each to the address it was pushed for. *)
Fifo == INSTANCE LossyFifo WITH queue <- pk \o out
FifoSpec == Fifo!FifoSpec
=============================================================================
