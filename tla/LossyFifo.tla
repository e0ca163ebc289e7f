------------------------------ MODULE LossyFifo ------------------------------
(***************************************************************************)
(* What an UDP output queue promises: packets leave it in the order they   *)
(* were put in, each at most once; the one at the head may get lost.       *)
(***************************************************************************)
EXTENDS Sequences

CONSTANT Packet

VARIABLES
  queue,   \* packets that are waiting
  sent,    \* packets that left, in order
  lost     \* packets that were dropped

fifoVars == <<queue, sent, lost>>

FifoInit == queue = <<>> /\ sent = <<>> /\ lost = {}

Put(p) == queue' = Append(queue, p) /\ UNCHANGED <<sent, lost>>

Send ==
  /\ queue # <<>>
  /\ sent' = Append(sent, Head(queue))
  /\ queue' = Tail(queue)
  /\ UNCHANGED lost

Lose ==
  /\ queue # <<>>
  /\ lost' = lost \cup {Head(queue)}
  /\ queue' = Tail(queue)
  /\ UNCHANGED sent

FifoNext == (\E p \in Packet : Put(p)) \/ Send \/ Lose

FifoSpec == FifoInit /\ [][FifoNext]_fifoVars
=============================================================================
