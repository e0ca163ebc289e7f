------------------------------ MODULE EventLoop ------------------------------
(***************************************************************************)
(* The main loop a program runs around MioPoll (the example in the docs of *)
(* MioPoll::poll, used as it stands by src/examples/echo_server.rs and by  *)
(* src/src/test/mod.rs), with the threads that wake it:                    *)
(*                                                                         *)
(*    idle_pending = stakker.run(now, false); io_pending = false;          *)
(*    while stakker.not_shutdown() {                                       *)
(*       maxdur = stakker.next_wait_max(.., idle_pending || io_pending);   *)
(*       (activity, io_pending) = miopoll.poll(maxdur)?;                   *)
(*       idle_pending = stakker.run(now, !activity); }                     *)
(*                                                                         *)
(* Stakker is external.  Of it the loop needs: a queue of deferred calls   *)
(* that run() empties, an idle queue of which run() executes one item if   *)
(* its argument says so and nothing else is left, timers that may be due,  *)
(* and work handed over by other threads, taken in poll_wake().            *)
(***************************************************************************)
EXTENDS MioPoll

CONSTANT Threads         \* threads that hand over work and call the poll-waker

VARIABLES
  stage,       \* "run": in stakker.run(), "poll": in miopoll.poll(), "exit"
  io_pending,  \* local of the loop
  run_idle,    \* second argument of the current run(): ~activity
  idle,        \* Stakker: the idle queue is not empty
  deferred,    \* Stakker: a call of poll_wake() is queued
  work         \* threads with work not taken over yet

loopVars == <<stage, io_pending, run_idle, idle, deferred, work>>
allVars == <<vars, loopVars>>

LoopInit ==
  /\ Init
  /\ stage = "run"
  /\ io_pending = FALSE
  /\ run_idle = FALSE
  /\ idle = FALSE
  /\ deferred = FALSE
  /\ work = {}

-----------------------------------------------------------------------------
(* Other threads, and the operating system. *)

(* A thread leaves work and runs the closure given to set_poll_waker. *)
ThreadWake(t) ==
  /\ t \notin work
  /\ work' = work \cup {t}
  /\ Edge(Waker)
  /\ UNCHANGED <<stage, io_pending, run_idle, idle, deferred>>

SourceEdge(s) == Edge(s) /\ UNCHANGED loopVars

-----------------------------------------------------------------------------
(* stakker.run(): actors run, and call MioPoll. *)

RunApp == stage = "run" /\ AppStep /\ UNCHANGED loopVars

(* idle!() in an actor *)
RunQueueIdle ==
  /\ stage = "run"
  /\ ~idle
  /\ idle' = TRUE
  /\ UNCHANGED <<vars, stage, io_pending, run_idle, deferred, work>>

(* The call the default wake handler deferred: s.poll_wake() *)
RunPollWake ==
  /\ stage = "run"
  /\ deferred
  /\ deferred' = FALSE
  /\ work' = {}
  /\ UNCHANGED <<vars, stage, io_pending, run_idle, idle>>

RunIdle ==
  /\ stage = "run"
  /\ ~deferred /\ run_idle /\ idle
  /\ idle' = FALSE
  /\ run_idle' = FALSE
  /\ UNCHANGED <<vars, stage, io_pending, deferred, work>>

RunOver == stage = "run" /\ ~deferred /\ ~(run_idle /\ idle)

-----------------------------------------------------------------------------
(* The loop. *)

(* Mutants: io_pending is not passed on (the loop before 0.3.0); idle_pending
   is not passed on. *)
MaxDurIdleOnly(timerDue) == ~(idle \/ timerDue)
MaxDurIOOnly(timerDue) == ~(io_pending \/ timerDue)

(* next_wait_max(): no wait if something is pending or a timer is due *)
MaxDur(timerDue) == ~(idle \/ io_pending \/ timerDue)

LoopPoll ==
  /\ RunOver
  /\ \E timerDue \in BOOLEAN : PollCall(MaxDur(timerDue))
  /\ stage' = "poll"
  /\ UNCHANGED <<io_pending, run_idle, idle, deferred, work>>

(* not_shutdown() is false *)
LoopExit ==
  /\ RunOver
  /\ stage' = "exit"
  /\ UNCHANGED <<vars, io_pending, run_idle, idle, deferred, work>>

(* A step inside poll.  The default wake handler is a Fwd that defers. *)
InPoll(A) ==
  /\ stage = "poll"
  /\ A
  /\ deferred' = (deferred \/ (called'[Waker] # called[Waker]
                               /\ token_map[WAKER_TOKEN].fwd = Waker))
  /\ UNCHANGED <<stage, io_pending, run_idle, idle, work>>

(* Mutant: run(.., true), whatever poll did. *)
RunIdleArgAlways == TRUE

RunIdleArg == ~ret.activity

(* poll returned; an error leaves the loop *)
LoopResult ==
  /\ stage = "poll"
  /\ pc = "idle"
  /\ IF ret.ok
     THEN /\ stage' = "run"
          /\ io_pending' = ret.pending
          /\ run_idle' = RunIdleArg
     ELSE stage' = "exit" /\ UNCHANGED <<io_pending, run_idle>>
  /\ UNCHANGED <<vars, idle, deferred, work>>

-----------------------------------------------------------------------------
LoopNext ==
  \/ \E t \in Threads : ThreadWake(t)
  \/ \E s \in Sources : SourceEdge(s)
  \/ RunApp \/ RunQueueIdle \/ RunPollWake \/ RunIdle
  \/ LoopPoll \/ LoopExit \/ LoopResult
  \/ InPoll(PollFetch) \/ InPoll(PollTimeout) \/ InPoll(PollError) \/ InPoll(PollStep)

LoopSpec == LoopInit /\ [][LoopNext]_allVars

(***************************************************************************)
(* The thread of the loop goes on as long as it can.  It need not leave a  *)
(* blocking wait when nothing is ready: max_delay may be long.             *)
(***************************************************************************)
LoopProgress ==
  \/ RunPollWake \/ RunIdle \/ LoopPoll \/ LoopResult
  \/ InPoll(PollFetch) \/ InPoll(~block /\ PollTimeout) \/ InPoll(PollStep)

FairLoopSpec == LoopSpec /\ WF_allVars(LoopProgress)

-----------------------------------------------------------------------------
(* Properties. *)

(* CHANGELOG 0.3.0: the loop never goes to sleep in poll() while an event is
   queued in MioPoll or an idle handler waits in Stakker. *)
NoSleepWhilePending ==
  pc = "wait" /\ block => ~idle /\ \A q \in Queued : queues[q] = <<>>

(* Idle handlers, where programs put the reads they want throttled, run only
   if no I/O event of any priority is waiting in MioPoll. *)
IdleOnlyWhenNoIO ==
  stage = "run" /\ run_idle => \A q \in Queued : queues[q] = <<>>

(* Where a wake waits on its way to poll_wake(): in Stakker's queue, in the
   operating system, in the buffer of mio or in a queue of MioPoll. *)
WakePending ==
  \/ deferred
  \/ kready[Waker] # 0
  \/ \E i \in 1..Len(events) : events[i].src = Waker
  \/ \E q \in Queued : \E i \in 1..Len(queues[q]) : queues[q][i].src = Waker

(* No wake-up is lost: while a thread has work not taken over, the wake of the
   poll-waker is on its way, and if the loop sleeps, it is where it ends the
   sleep; unless the program replaced the wake handler or left the loop. *)
NoLostWake ==
  work # {} /\ stage # "exit" /\ token_map[WAKER_TOKEN].fwd = Waker =>
    WakePending /\ (pc = "wait" /\ block => kready[Waker] # 0)

(* Work a thread hands over is taken in by poll_wake(), whenever the wake
   falls relative to the steps of the loop and whatever the priority of the
   waker, unless the program replaced the wake handler or left the loop. *)
WorkTaken ==
  \A t \in Threads :
    t \in work ~> (t \notin work \/ stage = "exit" \/ token_map[WAKER_TOKEN].fwd # Waker)

(* An edge the operating system has for a registered source gets to the
   source's handler, itself or merged in a newer one, without help of a
   timeout, unless the source is dropped or the loop is left. *)
EdgeHandled ==
  \A s \in Sources : \A n \in 1..MaxEdges :
    (Live(s) /\ kready[s] = n) ~> (called[s] >= n \/ ~Live(s) \/ stage = "exit")

(* An idle handler that was queued is run in the end. *)
IdleRuns == idle ~> (~idle \/ stage = "exit")

(* The three together: what one loop of fixed order owes to threads, to the
   operating system and to idle handlers, at the same time. *)
AllHandled == WorkTaken /\ EdgeHandled /\ IdleRuns
=============================================================================
