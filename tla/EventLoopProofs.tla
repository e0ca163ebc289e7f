--------------------------- MODULE EventLoopProofs ---------------------------
(***************************************************************************)
(* Proofs about EventLoop: what the main loop does is what MioPoll allows, *)
(* so that the invariants of MioPoll hold in it, and they carry the safety *)
(* properties of the loop.                                                 *)
(***************************************************************************)
EXTENDS EventLoop, MioPollProofs

(* What the loop knows of MioPoll at each stage. *)
LoopInv ==
  /\ stage \in {"run", "poll", "exit"}
  /\ stage # "poll" => pc = "idle"
  /\ stage = "run" => (io_pending <=> Waiting(0)) /\ (run_idle => ~Waiting(0))
  /\ pc = "wait" /\ block => ~idle /\ ~Waiting(0)

USE DEF loopVars, ctrlVars, handleVars, kernelVars, pollVars, historyVars

(* Every step of the loop is a step of MioPoll, or leaves MioPoll alone. *)
LEMMA LoopStep == LoopNext => [Next]_vars
<1> SUFFICES ASSUME LoopNext PROVE Next \/ UNCHANGED vars
  BY DEF vars
<1>1. ASSUME NEW t \in Threads, ThreadWake(t) PROVE Next
  BY <1>1, HandlesFacts DEF ThreadWake, Next
<1>2. ASSUME NEW s \in Sources, SourceEdge(s) PROVE Next
  BY <1>2, HandlesFacts DEF SourceEdge, Next
<1>3. CASE RunApp
  BY <1>3 DEF RunApp, Next
<1>4. CASE RunQueueIdle \/ RunPollWake \/ RunIdle \/ LoopExit \/ LoopResult
  BY <1>4 DEF RunQueueIdle, RunPollWake, RunIdle, LoopExit, LoopResult
<1>5. CASE LoopPoll
  <2>1. \E timerDue \in BOOLEAN : MaxDur(timerDue) \in BOOLEAN /\ PollCall(MaxDur(timerDue))
    BY <1>5 DEF LoopPoll, MaxDur
  <2> QED
    BY <2>1 DEF Next
<1>6. CASE InPoll(PollFetch) \/ InPoll(PollTimeout) \/ InPoll(PollError) \/ InPoll(PollStep)
  BY <1>6 DEF InPoll, Next
<1> QED
  BY <1>1, <1>2, <1>3, <1>4, <1>5, <1>6 DEF LoopNext

(* The main loop implements MioPoll's specification: actors call MioPoll only
   while poll is not running. *)
THEOREM LoopRefinesMioPoll == LoopSpec => Spec
<1>1. LoopInit => Init
  BY DEF LoopInit
<1>2. [LoopNext]_allVars => [Next]_vars
  BY LoopStep DEF allVars
<1> QED
  BY <1>1, <1>2, PTL DEF LoopSpec, Spec

LEMMA LoopInitInv == LoopInit => LoopInv
BY DEF LoopInit, Init, LoopInv, Waiting

LEMMA LoopNextInv ==
  ASSUME IInv, IInv', LoopInv, LoopNext
  PROVE  LoopInv'
<1> USE DEF LoopInv
<1>0. UNCHANGED <<queues, pc, block, idle, stage, io_pending, run_idle>> => LoopInv'
  BY DEF Waiting
<1>1. ASSUME NEW t \in Threads, ThreadWake(t) PROVE LoopInv'
  BY <1>0, <1>1 DEF ThreadWake, Edge
<1>2. ASSUME NEW s \in Sources, SourceEdge(s) PROVE LoopInv'
  BY <1>0, <1>2 DEF SourceEdge, Edge
<1>3. CASE RunApp
  BY <1>0, <1>3 DEF RunApp, AppStep, Add, Drop, SetWakeFwd
<1>4. CASE RunQueueIdle \/ RunPollWake \/ RunIdle \/ LoopExit
  BY <1>4 DEF RunQueueIdle, RunPollWake, RunIdle, LoopExit, RunOver, Waiting, vars
<1>5. CASE LoopPoll
  <2>1. PICK timerDue \in BOOLEAN : PollCall(MaxDur(timerDue))
    BY <1>5 DEF LoopPoll
  <2>2. pc' = "wait" /\ block' = MaxDur(timerDue) /\ UNCHANGED queues /\ stage = "run" /\ UNCHANGED idle
        /\ stage' = "poll"
    BY <1>5, <2>1 DEF LoopPoll, PollCall, RunOver
  <2>3. block' => ~idle /\ ~io_pending
    BY <2>2 DEF MaxDur
  <2> QED
    BY <2>2, <2>3 DEF Waiting
<1>6. CASE LoopResult
  <2>1. stage = "poll" /\ pc = "idle" /\ UNCHANGED vars /\ UNCHANGED idle
    BY <1>6 DEF LoopResult
  <2>2. CASE ret.ok
    <3>1. stage' = "run" /\ io_pending' = ret.pending /\ run_idle' = ~ret.activity
      BY <1>6, <2>2 DEF LoopResult, RunIdleArg
    <3>2. (ret.pending <=> Waiting(0)) /\ (ret.pending => ret.activity)
      BY <2>1, <2>2 DEF IInv, ResultHonest, Waiting, Queued
    <3>3. Waiting(0)' <=> Waiting(0)
      BY <2>1 DEF Waiting, vars
    <3> QED
      BY <2>1, <3>1, <3>2, <3>3 DEF vars
  <2>3. CASE ~ret.ok
    BY <1>6, <2>1, <2>3 DEF LoopResult, vars
  <2> QED
    BY <2>2, <2>3
<1>7. ASSUME pc' # "wait", stage = "poll", stage' = "poll" PROVE LoopInv'
  BY <1>7
<1>8. CASE InPoll(PollFetch) \/ InPoll(PollTimeout) \/ InPoll(PollError)
  BY <1>7, <1>8 DEF InPoll, PollFetch, PollTimeout, PollError, Return
<1>9. CASE InPoll(PollStep)
  <2>1. pc' # "wait"
    BY <1>9 DEF InPoll, PollStep, Dispatch, DispatchEnd, ScanStart, Scan, Drain, DrainEnd, ScanEnd,
                ReturnOk, Return
  <2> QED
    BY <1>7, <1>9, <2>1 DEF InPoll
<1> QED
  BY <1>1, <1>2, <1>3, <1>4, <1>5, <1>6, <1>8, <1>9 DEF LoopNext

LEMMA LoopInvariance == LoopSpec => []LoopInv
<1>1. LoopSpec => []IInv
  BY LoopRefinesMioPoll, Invariance, PTL
<1>2. LoopInv /\ IInv /\ IInv' /\ [LoopNext]_allVars => LoopInv'
  <2>1. LoopInv /\ UNCHANGED allVars => LoopInv'
    BY DEF LoopInv, Waiting, allVars, vars
  <2> QED
    BY <2>1, LoopNextInv
<1> QED
  BY <1>1, <1>2, LoopInitInv, PTL DEF LoopSpec

(* The loop never sleeps in poll while an event is queued or an idle handler
   waits, for every number of levels, sources and threads. *)
THEOREM NeverSleepsWhilePending == LoopSpec => []NoSleepWhilePending
<1>1. LoopInv => NoSleepWhilePending
  BY DEF LoopInv, NoSleepWhilePending, Waiting, Queued
<1> QED
  BY <1>1, LoopInvariance, PTL

(* Idle handlers run only when no event of any level is queued. *)
THEOREM IdleHandlersLast == LoopSpec => []IdleOnlyWhenNoIO
<1>1. LoopInv => IdleOnlyWhenNoIO
  BY DEF LoopInv, IdleOnlyWhenNoIO, Waiting, Queued
<1> QED
  BY <1>1, LoopInvariance, PTL

-----------------------------------------------------------------------------
(***************************************************************************)
(* Why no wake is lost.  A thread leaves its work before it raises the     *)
(* edge of the Waker.  The edge is in the operating system until mio       *)
(* reports it, then counted in `fetched` until the handler is told of it,  *)
(* and then the call of poll_wake() is queued; run() does not end before   *)
(* that call is made.                                                      *)
(***************************************************************************)
WakeInv ==
  /\ work # {} /\ stage # "exit" /\ token_map[WAKER_TOKEN].fwd = Waker =>
       deferred \/ kready[Waker] # 0 \/ called[Waker] # fetched[Waker]
  /\ pc = "wait" => ~deferred

LEMMA WakeInit == LoopInit => WakeInv
BY DEF LoopInit, Init, WakeInv

(* The handlers and sources an actor adds or drops are never the waker's. *)
LEMMA AppKeepsWaker ==
  ASSUME IInv, AppStep
  PROVE  /\ UNCHANGED <<pc, called, fetched>> /\ kready'[Waker] = kready[Waker]
         /\ token_map'[WAKER_TOKEN].fwd = Waker => token_map[WAKER_TOKEN].fwd = Waker
<1>0. /\ token_map[WAKER_TOKEN].fwd \in {Waker, UserWake} /\ Waker # UserWake
      /\ token_map[WAKER_TOKEN] # Vacant /\ TokensOwned /\ TypeOK /\ WAKER_TOKEN \in Tokens
      /\ Waker \in Handles /\ Waker \notin Sources
  BY HandlesAssumption, TokensAssumption DEF IInv, TokensOwned, Handles
<1>1. ASSUME NEW s \in Sources, NEW p \in 0..(MAX_PRI + 1), NEW t \in Tokens, NEW registered \in BOOLEAN,
             Add(s, p, t, registered)
      PROVE  UNCHANGED <<pc, called, fetched, kready>> /\ token_map'[WAKER_TOKEN] = token_map[WAKER_TOKEN]
  <2>1. t # WAKER_TOKEN
    BY <1>0, <1>1 DEF Add
  <2> QED
    BY <1>0, <1>1, <2>1 DEF Add, TypeOK
<1>2. ASSUME NEW s \in Sources, NEW ok \in BOOLEAN, Drop(s, ok)
      PROVE  /\ UNCHANGED <<pc, called, fetched>> /\ kready'[Waker] = kready[Waker]
             /\ token_map'[WAKER_TOKEN] = token_map[WAKER_TOKEN]
  <2>1. Live(s) /\ s # Waker
    BY <1>0, <1>2 DEF Drop, Live
  <2>2. token[s] # WAKER_TOKEN
    <3>1. token_map[token[s]].fwd = s /\ s # UserWake
      BY <1>0, <2>1, HandlesAssumption DEF TokensOwned, Handles
    <3> QED
      BY <1>0, <2>1, <3>1
  <2>3. token_map'[WAKER_TOKEN] = token_map[WAKER_TOKEN]
    BY <1>0, <1>2, <2>2 DEF Drop, TypeOK
  <2>4. kready'[Waker] = kready[Waker]
    BY <1>0, <1>2, <2>1 DEF Drop, Deregister, TypeOK
  <2> QED
    BY <1>2, <2>3, <2>4 DEF Drop
<1>3. CASE SetWakeFwd
  BY <1>0, <1>3 DEF SetWakeFwd, TypeOK
<1> QED
  BY <1>1, <1>2, <1>3 DEF AppStep

LEMMA WakeNext ==
  ASSUME IInv, HistoryInv, LoopInv, WakeInv, LoopNext
  PROVE  WakeInv'
<1>0. Waker \in Handles /\ TypeOK /\ WAKER_TOKEN \in Tokens
  BY TokensAssumption DEF IInv, Handles
<1>1. ASSUME NEW t \in Threads, ThreadWake(t) PROVE WakeInv'
  <2>1. kready'[Waker] = edges + 1 /\ edges \in Nat /\ UNCHANGED <<pc, deferred>>
    BY <1>0, <1>1, BoundsAssumption DEF ThreadWake, Edge, TypeOK, Edges
  <2>2. kready'[Waker] # 0
    BY <2>1
  <2> QED
    BY <2>1, <2>2 DEF WakeInv
<1>2. ASSUME NEW s \in Sources, SourceEdge(s) PROVE WakeInv'
  <2>1. s # Waker
    BY HandlesAssumption
  <2>2. kready'[Waker] = kready[Waker]
    BY <1>0, <1>2, <2>1 DEF SourceEdge, Edge, TypeOK
  <2> QED
    BY <1>2, <2>2 DEF WakeInv, SourceEdge, Edge
<1>3. CASE RunApp
  BY <1>3, AppKeepsWaker DEF RunApp, WakeInv
<1>4. CASE RunQueueIdle \/ RunPollWake \/ RunIdle \/ LoopExit \/ LoopResult
  BY <1>4 DEF RunQueueIdle, RunPollWake, RunIdle, LoopExit, LoopResult, WakeInv, LoopInv, vars
<1>5. CASE LoopPoll
  BY <1>5 DEF LoopPoll, RunOver, PollCall, WakeInv
<1>6. CASE InPoll(PollFetch)
  <2>1. PICK got \in SUBSET Handles :
           /\ kready' = [h \in Handles |-> IF h \in got THEN 0 ELSE kready[h]]
           /\ fetched' = [h \in Handles |-> IF h \in got THEN kready[h] ELSE fetched[h]]
           /\ \A h \in got : kready[h] # 0
    <3>1. PICK n \in 1..EventsCap :
             \E order \in Injection(1..n, {h \in Handles : kready[h] # 0}) :
             /\ kready' = [h \in Handles |-> IF h \in {order[i] : i \in 1..n} THEN 0 ELSE kready[h]]
             /\ fetched' = [h \in Handles |-> IF h \in {order[i] : i \in 1..n} THEN kready[h] ELSE fetched[h]]
      BY <1>6, Zenon DEF InPoll, PollFetch
    <3>2. PICK order \in Injection(1..n, {h \in Handles : kready[h] # 0}) :
             /\ kready' = [h \in Handles |-> IF h \in {order[i] : i \in 1..n} THEN 0 ELSE kready[h]]
             /\ fetched' = [h \in Handles |-> IF h \in {order[i] : i \in 1..n} THEN kready[h] ELSE fetched[h]]
      BY <3>1
    <3>3. {order[i] : i \in 1..n} \in SUBSET Handles /\ \A h \in {order[i] : i \in 1..n} : kready[h] # 0
      BY <3>2 DEF Injection
    <3> QED
      BY <3>2, <3>3
  <2>2. UNCHANGED <<called, token_map, stage, work>> /\ pc' # "wait" /\ (deferred => deferred')
    BY <1>6 DEF InPoll, PollFetch
  <2>3. CASE Waker \in got
    <3>1. fetched'[Waker] = kready[Waker] /\ kready[Waker] # 0
      BY <1>0, <2>1, <2>3
    <3>2. called[Waker] < kready[Waker]
      BY <1>0, <3>1 DEF HistoryInv, EdgesOK, TypeOK, Edges
    <3> QED
      BY <1>0, <2>2, <3>1, <3>2 DEF WakeInv, TypeOK, Edges
  <2>4. CASE Waker \notin got
    BY <1>0, <2>1, <2>2, <2>4 DEF WakeInv
  <2> QED
    BY <2>3, <2>4
<1>7. CASE InPoll(PollTimeout) \/ InPoll(PollError)
  BY <1>7 DEF InPoll, PollTimeout, PollError, Return, WakeInv
<1>8. CASE InPoll(PollStep)
  <2>1. UNCHANGED <<token_map, kready, fetched, stage, work>> /\ pc' # "wait"
    BY <1>8 DEF InPoll, PollStep, Dispatch, DispatchEnd, ScanStart, Scan, Drain, DrainEnd, ScanEnd,
                ReturnOk, Return
  <2>2. deferred' = (deferred \/ (called'[Waker] # called[Waker] /\ token_map[WAKER_TOKEN].fwd = Waker))
    BY <1>8 DEF InPoll
  <2> QED
    BY <2>1, <2>2 DEF WakeInv
<1> QED
  BY <1>1, <1>2, <1>3, <1>4, <1>5, <1>6, <1>7, <1>8 DEF LoopNext

(* No wake-up of a thread is lost, for every number of threads, sources and
   levels, and whatever the priority of the waker. *)
THEOREM WakeNeverLost == LoopSpec => []NoLostWake
<1>1. LoopSpec => []IInv /\ []HistoryInv
  BY LoopRefinesMioPoll, Invariance, HistoryInvariance, PTL
<1>2. WakeInv /\ LoopInv /\ HistoryInv /\ IInv /\ [LoopNext]_allVars => WakeInv'
  <2>1. WakeInv /\ UNCHANGED allVars => WakeInv'
    BY DEF WakeInv, allVars, vars
  <2> QED
    BY <2>1, WakeNext
<1>3. LoopSpec => []WakeInv
  BY <1>1, <1>2, WakeInit, LoopInvariance, PTL DEF LoopSpec
<1>4. WakeInv /\ LoopInv /\ HistoryInv /\ IInv => NoLostWake
  <2> SUFFICES ASSUME WakeInv, LoopInv, HistoryInv, IInv,
                      work # {}, stage # "exit", token_map[WAKER_TOKEN].fwd = Waker
               PROVE  WakePending /\ (pc = "wait" /\ block => kready[Waker] # 0)
    BY DEF NoLostWake
  <2>1. ASSUME called[Waker] # fetched[Waker]
        PROVE  \/ \E i \in 1..Len(events) : events[i].src = Waker
               \/ \E q \in Queued : \E i \in 1..Len(queues[q]) : queues[q][i].src = Waker
    <3> DEFINE ev == [src |-> Waker, token |-> token[Waker], ready |-> fetched[Waker]]
    <3>1. Waker \in Handles /\ Live(Waker)
      BY NullAssumption, TokensAssumption DEF IInv, TokensOwned, Live, Handles
    <3>2. InSeq(ev, events) \/ \E q \in Queued : InSeq(ev, queues[q])
      BY <2>1, <3>1 DEF HistoryInv, NoLostReadiness
    <3>3. ev.src = Waker
      OBVIOUS
    <3> QED
      BY <3>2, <3>3 DEF InSeq
  <2>2. WakePending
    BY <2>1 DEF WakeInv, WakePending
  <2>3. ASSUME pc = "wait", block PROVE kready[Waker] # 0
    <3>1. events = <<>> /\ \A q \in Queued : queues[q] = <<>>
      BY <2>3 DEF IInv, PhaseOK, LoopInv, Waiting, Queued
    <3>2. ~\E i \in 1..Len(events) : events[i].src = Waker
      BY <3>1
    <3>3. ~\E q \in Queued : \E i \in 1..Len(queues[q]) : queues[q][i].src = Waker
      BY <3>1
    <3> QED
      BY <2>1, <2>3, <3>2, <3>3 DEF WakeInv
  <2> QED
    BY <2>2, <2>3
<1> QED
  BY <1>1, <1>3, <1>4, LoopInvariance, PTL
=============================================================================
