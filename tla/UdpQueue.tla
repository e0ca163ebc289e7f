------------------------------- MODULE UdpQueue -------------------------------
(* src/src/udpqueue.rs: packet queue for a connected UDP socket. *)
EXTENDS UdpSocket

CONSTANT Peer     \* the address the socket is connected to

ASSUME PeerAssumption == Peer \in Peers

-----------------------------------------------------------------------------
init ==
  /\ pc = "idle"
  /\ NewSocket
  /\ UNCHANGED <<queueVars, pc, platform, outHistory>>

deinit ==
  /\ pc = "idle"
  /\ NoSocket
  /\ UNCHANGED <<queueVars, pc, platform, outHistory>>

push ==
  /\ pc = "idle"
  /\ Len(pushed) < MaxPackets
  /\ LET p == [id |-> Len(pushed) + 1, addr |-> Peer] IN
       out' = Append(out, p) /\ pushed' = Append(pushed, p)
  /\ must_flush' = TRUE
  /\ UNCHANGED <<pk, socket, pc, writeVars, readVars, platform, sent, lost, inHistory>>

-----------------------------------------------------------------------------
(* flush; EINTR repeats the send and changes nothing. *)

(* Mutant: pop_back *)
PopBack ==
  /\ pk' = <<out[Len(out)]>>
  /\ out' = SubSeq(out, 1, Len(out) - 1)

Pop == pk' = <<Head(out)>> /\ out' = Tail(out)

flushPop ==
  /\ pc = "flush"
  /\ socket /\ pk = <<>> /\ out # <<>>
  /\ Pop
  /\ UNCHANGED <<must_flush, socket, pc, writeVars, readVars, platform, outHistory, inHistory>>

(* Mutant: return after the first packet. *)
AfterSendReturn == pc' = "idle"

AfterSend == UNCHANGED pc

flushSent ==
  /\ pc = "flush" /\ pk # <<>>
  /\ SendTaken
  /\ sent' = Append(sent, Head(pk))
  /\ pk' = <<>>
  /\ AfterSend
  /\ UNCHANGED <<out, must_flush, socket, readVars, platform, pushed, lost, inHistory>>

(* WouldBlock: return Ok, and pk is dropped *)
flushBlocked ==
  /\ pc = "flush" /\ pk # <<>>
  /\ SendWouldBlock
  /\ lost' = lost \cup {Head(pk)}
  /\ pk' = <<>>
  /\ pc' = "idle"
  /\ UNCHANGED <<out, must_flush, socket, readVars, platform, pushed, sent, inHistory>>

(* another error, or the packet was not sent whole: return Err *)
flushError ==
  /\ pc = "flush" /\ pk # <<>>
  /\ Fail
  /\ lost' = lost \cup {Head(pk)}
  /\ pk' = <<>>
  /\ UNCHANGED <<out, must_flush, platform, pushed, sent>>

flushEnd ==
  /\ pc = "flush" /\ pk = <<>>
  /\ ~socket \/ out = <<>>
  /\ pc' = "idle"
  /\ UNCHANGED <<queueVars, socket, writeVars, readVars, platform, outHistory, inHistory>>

-----------------------------------------------------------------------------
(* read, called until it returns None *)

(* Mutant: the whole of tmp, whatever recv filled in. *)
SliceWhole(d) == [d EXCEPT !.size = BufSize]

(* What read returns: &tmp[..len], len being cut to the size of tmp, on
   Windows with error 10040 and then all of tmp. *)
Slice(d) == [d EXCEPT !.size = IF @ <= BufSize THEN @ ELSE BufSize]

readPacket ==
  /\ pc = "read" /\ socket
  /\ rbuf # <<>>
  /\ rbuf' = Tail(rbuf)
  /\ got' = Append(got, Slice(Head(rbuf)))
  /\ UNCHANGED <<queueVars, socket, pc, writeVars, rarm, readable, platform, outHistory, arrived>>

(* Mutant: EINTR is taken for WouldBlock. *)
NothingToReadOrEINTR == TRUE

NothingToRead == ~socket \/ rbuf = <<>>

(* WouldBlock, or no socket: None *)
readNone ==
  /\ pc = "read"
  /\ NothingToRead
  /\ rarm' = (socket /\ rbuf = <<>>)
  /\ pc' = "idle"
  /\ UNCHANGED <<queueVars, socket, writeVars, rbuf, readable, platform, outHistory, inHistory>>

readError ==
  /\ pc = "read" /\ socket
  /\ Fail
  /\ UNCHANGED <<queueVars, platform, outHistory>>

-----------------------------------------------------------------------------
flushStep == flushPop \/ flushSent \/ flushBlocked \/ flushError \/ flushEnd
readStep == readPacket \/ readNone \/ readError

Next ==
  \/ init \/ deinit \/ push
  \/ FlushCall \/ flushStep
  \/ ReadCall \/ readStep
  \/ \E size \in Sizes : Arrive(Peer, size)
  \/ MoveOut

Spec == Init /\ [][Next]_vars

(***************************************************************************)
(* A call of flush or read runs to its end; the calls the actor is due to  *)
(* make are queued in Stakker, which runs them in turn, also if other      *)
(* calls keep coming (SF); the operating system sends what it buffered.    *)
(***************************************************************************)
Fairness ==
  /\ WF_vars(flushStep \/ readStep)
  /\ SF_vars(FlushDue)
  /\ SF_vars(ReadDue)
  /\ WF_vars(MoveOut)

FairSpec == Spec /\ Fairness

-----------------------------------------------------------------------------
(* read hands over every packet that came in, in order, none twice, cut to
   the size of the buffer (what the Receiver in src/src/test/udp.rs expects). *)
ReadFaithful == Cut(arrived) = got \o Cut(rbuf)

(* The packets in flush's hands and in `out` form a FIFO that loses packets
   only at its head: flush neither reorders nor duplicates packets. *)
Fifo == INSTANCE LossyFifo WITH queue <- pk \o out
FifoSpec == Fifo!FifoSpec
=============================================================================
