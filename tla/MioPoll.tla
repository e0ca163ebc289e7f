------------------------------- MODULE MioPoll -------------------------------
(***************************************************************************)
(* src/src/miopoll.rs: the token map of MioPoll, the MioSource handles     *)
(* that own its tokens, and Control::poll, which hands mio events to their *)
(* handlers one priority level per call.                                   *)
(*                                                                         *)
(* One thread owns the Control (Rc<RefCell<..>>), so `add`, `drop` and     *)
(* `poll` never overlap; the operating system and the threads that hold a  *)
(* mio Waker run concurrently with every step (Edge).  A call of `poll` is *)
(* cut at the points where it hands an event to a handler.                 *)
(***************************************************************************)
EXTENDS Integers, Sequences, FiniteSets, Functions

CONSTANTS
  MAX_PRI,     \* highest priority level (10 in the code)
  waker_pri,   \* argument of new(): priority of the waker
  Tokens,      \* keys of the slab
  Sources,     \* mio sources that are ever registered, each at most once
  Waker,       \* the mio Waker, and the handler installed for it by new()
  UserWake,    \* a handler installed by set_wake_fwd()
  NoToken,     \* a source without token
  Vacant,      \* a vacant slab key
  EventsCap,   \* capacity of the mio Events buffer
  MaxEdges     \* bound: readiness edges raised by the operating system

WAKER_TOKEN == 0

Pri == 0..MAX_PRI
Queued == 0..(MAX_PRI - 1)                  \* levels that have a queue
Handles == Sources \cup {Waker}
Handlers == Handles \cup {UserWake}
Edges == 0..MaxEdges                        \* 0: nothing to report
Entry == [pri : Pri, fwd : Handlers]

(***************************************************************************)
(* An event, in the mio Events buffer or in a queue.  `token` and `ready`  *)
(* are the fields of QueueEvent; the readiness is abstracted to the number *)
(* of the edge it reports.  `src`, the handle the edge belongs to, is not  *)
(* in the code: the properties need it.                                    *)
(***************************************************************************)
Event == [src : Handles, token : Tokens, ready : Edges]

ASSUME MaxPriAssumption == MAX_PRI \in 1..15      \* a bit of the u16 bitmap
ASSUME WakerPriAssumption == waker_pri \in Nat
ASSUME TokensAssumption == Tokens \subseteq Nat /\ WAKER_TOKEN \in Tokens
ASSUME HandlesAssumption == Waker \notin Sources /\ UserWake \notin Handles
ASSUME NullAssumption == NoToken \notin Tokens /\ Vacant \notin Entry
ASSUME BoundsAssumption == EventsCap \in Nat \ {0} /\ MaxEdges \in Nat

VARIABLES
  token_map,   \* slab: token -> entry
  queues,      \* level -> events kept for a later call of poll
  n_queued,    \* number of queued events
  max_pri,     \* highest priority ever registered
  priorities,  \* set of the priorities ever registered (a bitmap)
  events,      \* events of the mio buffer not looked at yet
  errors,      \* number of errors recorded by drop handlers
  token,       \* handle -> token its MioSource owns
  used,        \* sources given to add so far
  kreg,        \* operating system: handle -> token it is registered under
  kready,      \* operating system: handle -> its unreported edge
  edges,       \* edges raised so far
  pc,          \* where the thread is: outside poll, or in which part of it
  block,       \* max_delay of the current call is not zero
  done,        \* local of poll: a handler was called
  level,       \* local of poll: queue being looked at
  ret,         \* result of the last call of poll
  fetched,     \* history: handle -> last edge mio reported
  called,      \* history: handle -> last edge its handler was told of
  ran          \* history: handlers this call of poll ran, see Forward

ctrlVars == <<token_map, queues, n_queued, max_pri, priorities, events, errors>>
handleVars == <<token, used>>
kernelVars == <<kreg, kready, edges>>
pollVars == <<pc, block, done, level, ret>>
historyVars == <<fetched, called, ran>>
vars == <<ctrlVars, handleVars, kernelVars, pollVars, historyVars>>

(* Mutants: the last priority registered wins; the priority is not clipped. *)
Max2Last(a, b) == b
ClipPriNever(p) == p

Max2(a, b) == IF a >= b THEN a ELSE b
ClipPri(p) == IF p <= MAX_PRI THEN p ELSE MAX_PRI

(***************************************************************************)
(* MioPoll::new: the waker owns token 0.                                   *)
(***************************************************************************)
Init ==
  /\ token_map = [t \in Tokens |->
       IF t = WAKER_TOKEN THEN [pri |-> ClipPri(waker_pri), fwd |-> Waker] ELSE Vacant]
  /\ queues = [q \in Queued |-> <<>>]
  /\ n_queued = 0
  /\ max_pri = ClipPri(waker_pri)
  /\ priorities = {ClipPri(waker_pri)}
  /\ events = <<>>
  /\ errors = 0
  /\ token = [h \in Handles |-> IF h = Waker THEN WAKER_TOKEN ELSE NoToken]
  /\ used = {}
  /\ kreg = [h \in Handles |-> IF h = Waker THEN WAKER_TOKEN ELSE NoToken]
  /\ kready = [h \in Handles |-> 0]
  /\ edges = 0
  /\ pc = "idle"
  /\ block = FALSE
  /\ done = FALSE
  /\ level = 0
  /\ ret = [ok |-> TRUE, activity |-> FALSE, pending |-> FALSE]
  /\ fetched = [h \in Handles |-> 0]
  /\ called = [h \in Handles |-> 0]
  /\ ran = {}

-----------------------------------------------------------------------------
(* The operating system and the threads that hold a Waker. *)

(* A registered source changes state, or (h = Waker) a thread calls wake().
   An edge that was not reported yet is merged with the new one. *)
Edge(h) ==
  /\ kreg[h] # NoToken
  /\ edges < MaxEdges
  /\ edges' = edges + 1
  /\ kready' = [kready EXCEPT ![h] = edges + 1]
  /\ UNCHANGED <<ctrlVars, handleVars, kreg, pollVars, historyVars>>

(* deregister(): on failure the registration may or may not survive. *)
Deregister(s, ok) ==
  /\ \/ /\ kreg' = [kreg EXCEPT ![s] = NoToken]
        /\ kready' = [kready EXCEPT ![s] = 0]
     \/ ~ok /\ UNCHANGED <<kreg, kready>>
  /\ UNCHANGED edges

-----------------------------------------------------------------------------
(* MioPoll::add, set_wake_fwd and the drop of a MioSource, all outside poll. *)

(* Mutant: the error of register() is ignored. *)
RegisterUnchecked(s, t, registered) ==
  /\ kreg' = IF registered THEN [kreg EXCEPT ![s] = t] ELSE kreg
  /\ token' = [token EXCEPT ![s] = t]

(* register(); if it fails there is no MioSource. *)
Register(s, t, registered) ==
  IF registered
  THEN /\ kreg' = [kreg EXCEPT ![s] = t]
       /\ token' = [token EXCEPT ![s] = t]
  ELSE UNCHANGED <<kreg, token>>

(* Control::add: the token is taken before the registration is tried. *)
Add(s, p, t, registered) ==
  /\ pc = "idle"
  /\ s \notin used
  /\ token_map[t] = Vacant
  /\ used' = used \cup {s}
  /\ max_pri' = Max2(max_pri, ClipPri(p))
  /\ priorities' = priorities \cup {ClipPri(p)}
  /\ token_map' = [token_map EXCEPT ![t] = [pri |-> ClipPri(p), fwd |-> s]]
  /\ Register(s, t, registered)
  /\ UNCHANGED <<queues, n_queued, events, errors, kready, edges, pollVars, historyVars>>

(* Drop of a MioSource: Control::del, whose error is recorded. *)
Drop(s, ok) ==
  /\ pc = "idle"
  /\ token[s] # NoToken
  /\ Deregister(s, ok)
  /\ errors' = IF ok /\ token_map[token[s]] # Vacant THEN errors ELSE errors + 1
  /\ token_map' = [token_map EXCEPT ![token[s]] = Vacant]
  /\ token' = [token EXCEPT ![s] = NoToken]
  /\ UNCHANGED <<queues, n_queued, max_pri, priorities, events, used, pollVars, historyVars>>

SetWakeFwd ==
  /\ pc = "idle"
  /\ token_map' = [token_map EXCEPT ![WAKER_TOKEN].fwd = UserWake]
  /\ UNCHANGED <<queues, n_queued, max_pri, priorities, events, errors,
                 handleVars, kernelVars, pollVars, historyVars>>

-----------------------------------------------------------------------------
(* Control::poll: waiting for mio. *)

PollCall(mayBlock) ==
  /\ pc = "idle"
  /\ pc' = "wait"
  /\ block' = mayBlock
  /\ ran' = {}
  /\ UNCHANGED <<ctrlVars, handleVars, kernelVars, done, level, ret, fetched, called>>

(* mio returns up to EventsCap of the pending edges, in any order. *)
PollFetch ==
  /\ pc = "wait"
  /\ \E n \in 1..EventsCap :
       \E order \in Injection(1..n, {h \in Handles : kready[h] # 0}) :
         LET got == {order[i] : i \in 1..n} IN
         /\ events' = [i \in 1..n |->
              [src |-> order[i], token |-> kreg[order[i]], ready |-> kready[order[i]]]]
         /\ kready' = [h \in Handles |-> IF h \in got THEN 0 ELSE kready[h]]
         /\ fetched' = [h \in Handles |-> IF h \in got THEN kready[h] ELSE fetched[h]]
  /\ pc' = "dispatch"
  /\ done' = FALSE
  /\ UNCHANGED <<token_map, queues, n_queued, max_pri, priorities, errors, handleVars,
                 kreg, edges, block, level, ret, called, ran>>

(* mio returns without event: max_delay is over. *)
PollTimeout ==
  /\ pc = "wait"
  /\ \A h \in Handles : kready[h] = 0
  /\ pc' = "dispatch"
  /\ done' = FALSE
  /\ UNCHANGED <<ctrlVars, handleVars, kernelVars, block, level, ret, historyVars>>

(* The end of the call; its locals are gone. *)
Return(result) ==
  /\ pc' = "idle"
  /\ ret' = result
  /\ block' = FALSE
  /\ done' = FALSE
  /\ level' = 0

(* Mutant: pending is forgotten once a handler ran. *)
ReturnIfIdle == Return([ok |-> TRUE, activity |-> done, pending |-> ~done /\ n_queued > 0])

ReturnOk == Return([ok |-> TRUE, activity |-> done, pending |-> n_queued > 0])

(* mio fails other than by EINTR, which retry() hides. *)
PollError ==
  /\ pc = "wait"
  /\ Return([ok |-> FALSE, activity |-> FALSE, pending |-> FALSE])
  /\ UNCHANGED <<ctrlVars, handleVars, kernelVars, historyVars>>

-----------------------------------------------------------------------------
(* Control::poll: handing out events. *)

(* An event that was raised for the handle that owns its token now. *)
Own(ev) == token[ev.src] = ev.token

(* entry.fwd.fwd(ready): the history has the priority of the handler called, and
   whether the event is its own or was left by an owner of the token before *)
Forward(ev, entry) ==
  /\ done' = TRUE
  /\ ran' = ran \cup {[pri |-> entry.pri, own |-> Own(ev)]}
  /\ called' = IF Own(ev) THEN [called EXCEPT ![ev.src] = ev.ready] ELSE called

NoForward == UNCHANGED <<done, ran, called>>

(* One event of the buffer: unknown token, fast path, or queue. *)
Dispatch ==
  /\ pc = "dispatch"
  /\ events # <<>>
  /\ LET ev == Head(events)
         entry == token_map[ev.token]
     IN \/ /\ entry = Vacant
           /\ NoForward
           /\ UNCHANGED <<queues, n_queued>>
        \/ /\ entry # Vacant
           /\ entry.pri = max_pri
           /\ Forward(ev, entry)
           /\ UNCHANGED <<queues, n_queued>>
        \/ /\ entry # Vacant
           /\ entry.pri # max_pri
           /\ queues' = [queues EXCEPT ![entry.pri] = Append(@, ev)]
           /\ n_queued' = n_queued + 1
           /\ NoForward
  /\ events' = Tail(events)
  /\ UNCHANGED <<token_map, max_pri, priorities, errors, handleVars, kernelVars,
                 pc, block, level, ret, fetched>>

(* Mutant: n_queued is not reset before the levels are counted again. *)
ScanStartKeepCount ==
  /\ pc' = "scan"
  /\ level' = max_pri - 1
  /\ UNCHANGED <<n_queued, block, done, ret>>

ScanStart ==
  /\ n_queued' = 0
  /\ pc' = "scan"
  /\ level' = max_pri - 1
  /\ UNCHANGED <<block, done, ret>>

(* The buffer is done: look at the queues if no handler ran yet. *)
DispatchEnd ==
  /\ pc = "dispatch"
  /\ events = <<>>
  /\ IF ~done /\ n_queued > 0
     THEN ScanStart
     ELSE ReturnOk /\ UNCHANGED n_queued
  /\ UNCHANGED <<token_map, queues, max_pri, priorities, events, errors,
                 handleVars, kernelVars, historyVars>>

(* Mutant: every level is drained, not only the first that has a handler. *)
MayDrainAlways == TRUE

MayDrain == ~done

(* One turn of the loop over the levels, downwards. *)
Scan ==
  /\ pc = "scan"
  /\ level >= 0
  /\ IF level \in priorities /\ queues[level] # <<>>
     THEN \/ MayDrain /\ pc' = "drain" /\ UNCHANGED <<n_queued, level>>
          \/ /\ ~MayDrain
             /\ n_queued' = n_queued + Len(queues[level])
             /\ level' = level - 1
             /\ UNCHANGED pc
     ELSE level' = level - 1 /\ UNCHANGED <<n_queued, pc>>
  /\ UNCHANGED <<token_map, queues, max_pri, priorities, events, errors,
                 handleVars, kernelVars, block, done, ret, historyVars>>

(* Mutants: drain(..) dropped after the first event; the queue iterated over
   without removing. *)
DrainedAll == <<>>
DrainedNone == queues[level]

Drained == Tail(queues[level])

(* One event of the queue being drained; its token may have gone. *)
Drain ==
  /\ pc = "drain"
  /\ queues[level] # <<>>
  /\ LET ev == Head(queues[level])
         entry == token_map[ev.token]
     IN IF entry # Vacant THEN Forward(ev, entry) ELSE NoForward
  /\ queues' = [queues EXCEPT ![level] = Drained]
  /\ UNCHANGED <<token_map, n_queued, max_pri, priorities, events, errors,
                 handleVars, kernelVars, pc, block, level, ret, fetched>>

DrainEnd ==
  /\ pc = "drain"
  /\ queues[level] = <<>>
  /\ pc' = "scan"
  /\ level' = level - 1
  /\ UNCHANGED <<ctrlVars, handleVars, kernelVars, block, done, ret, historyVars>>

ScanEnd ==
  /\ pc = "scan"
  /\ level < 0
  /\ ReturnOk
  /\ UNCHANGED <<ctrlVars, handleVars, kernelVars, historyVars>>

-----------------------------------------------------------------------------
PollStep == Dispatch \/ DispatchEnd \/ Scan \/ Drain \/ DrainEnd \/ ScanEnd

AppStep ==
  \/ \E s \in Sources, p \in 0..(MAX_PRI + 1), t \in Tokens, registered \in BOOLEAN :
       Add(s, p, t, registered)
  \/ \E s \in Sources, ok \in BOOLEAN : Drop(s, ok)
  \/ SetWakeFwd

Next ==
  \/ \E h \in Handles : Edge(h)
  \/ AppStep
  \/ \E mayBlock \in BOOLEAN : PollCall(mayBlock)
  \/ PollFetch
  \/ PollTimeout
  \/ PollError
  \/ PollStep

Spec == Init /\ [][Next]_vars

-----------------------------------------------------------------------------
(* Properties. *)

(* Every variable has the type of the field or local it stands for; in
   particular every priority is clipped to MAX_PRI and fits the bitmap. *)
TypeOK ==
  /\ token_map \in [Tokens -> Entry \cup {Vacant}]
  /\ queues \in [Queued -> Seq(Event)]
  /\ n_queued \in Nat
  /\ max_pri \in Pri
  /\ priorities \in SUBSET Pri
  /\ events \in Seq(Event)
  /\ errors \in Nat
  /\ token \in [Handles -> Tokens \cup {NoToken}]
  /\ used \in SUBSET Sources
  /\ kreg \in [Handles -> Tokens \cup {NoToken}]
  /\ kready \in [Handles -> Edges]
  /\ edges \in Edges
  /\ pc \in {"idle", "wait", "dispatch", "scan", "drain"}
  /\ block \in BOOLEAN
  /\ done \in BOOLEAN
  /\ level \in -1..(MAX_PRI - 1)
  /\ ret \in [ok : BOOLEAN, activity : BOOLEAN, pending : BOOLEAN]
  /\ fetched \in [Handles -> Edges]
  /\ called \in [Handles -> Edges]
  /\ ran \in SUBSET [pri : Pri, own : BOOLEAN]

Live(h) == token[h] # NoToken

InSeq(ev, seq) == \E i \in 1..Len(seq) : seq[i] = ev

(* Every live MioSource owns a token of its own, under which the slab keeps
   its own handler and mio has it registered, and the waker keeps token 0
   for ever: `del` never meets a missing token and set_wake_fwd never indexes
   a vacant key, whatever was added, dropped or failed before. *)
TokensOwned ==
  /\ \A s \in Sources : Live(s) =>
       /\ token_map[token[s]] # Vacant
       /\ token_map[token[s]].fwd = s
       /\ kreg[s] = token[s]
  /\ token[Waker] = WAKER_TOKEN
  /\ kreg[Waker] = WAKER_TOKEN
  /\ token_map[WAKER_TOKEN] # Vacant
  /\ token_map[WAKER_TOKEN].fwd \in {Waker, UserWake}

(* Every queue that holds an event is one the scan of `poll` reaches (below
   max_pri, its bit set), although max_pri moves up while events are queued;
   an event is queued at the priority of the handler it is meant for; and no
   handler has a priority above max_pri, so that the index of `queues` stays
   within its MAX_PRI elements. *)
QueuesSound ==
  /\ \A t \in Tokens : token_map[t] # Vacant =>
       token_map[t].pri <= max_pri /\ token_map[t].pri \in priorities
  /\ \A q \in Queued : queues[q] # <<>> => q < max_pri /\ q \in priorities
  /\ \A q \in Queued : \A i \in 1..Len(queues[q]) :
       Own(queues[q][i]) => token_map[queues[q][i].token].pri = q

(* Where events are queued, from level lo upwards. *)
Places(lo) == UNION {{q} \X (1..Len(queues[q])) : q \in {l \in Queued : l >= lo}}

(* n_queued, which `poll` recomputes on the way, counts the queued events
   exactly whenever it is read. *)
NQueuedExact ==
  pc \in {"idle", "wait", "dispatch"} => n_queued = Cardinality(Places(0))

(* The handlers that a call of `poll` runs for events of their own are all of
   one priority; when it returns, all events of that level have been handed out
   and nothing is queued at a higher one.  An event that a dropped source left
   behind is the exception: it runs the handler of the next owner of its token,
   whatever the priority of that (LowerPriorityWaits). *)
OneLevelPerPoll ==
  \A r \in ran : r.own =>
    /\ \A o \in ran : o.own => o.pri = r.pri
    /\ pc = "idle" => \A q \in Queued : q >= r.pri => queues[q] = <<>>

(* The result of `poll`: io_pending if and only if an event is still queued,
   and then only after activity. *)
ResultHonest ==
  pc = "idle" /\ ret.ok =>
    /\ ret.pending <=> \E q \in Queued : queues[q] # <<>>
    /\ ret.pending => ret.activity

(* The newest readiness mio reported for a live handle reached its handler,
   or is still in the buffer or in a queue. *)
NoLostReadiness ==
  \A h \in Handles : Live(h) /\ called[h] # fetched[h] =>
    LET ev == [src |-> h, token |-> token[h], ready |-> fetched[h]] IN
    InSeq(ev, events) \/ \E q \in Queued : InSeq(ev, queues[q])

(* What waits in the buffer or in a queue for a live handle is newer than all
   its handler has been told: no readiness is handed out twice or out of
   order. *)
NoReplay ==
  /\ \A i \in 1..Len(events) :
       Own(events[i]) => called[events[i].src] < events[i].ready
  /\ \A q \in Queued : \A i \in 1..Len(queues[q]) :
       Own(queues[q][i]) => called[queues[q][i].src] < queues[q][i].ready

(* miopoll.rs:164: "Lower-priority handlers will only get a chance to run when
   nothing higher-priority needs handling" - while a handler is called from a
   queue, no queued event waits for its own handler of a higher priority. *)
LowerPriorityWaits ==
  pc = "drain" /\ queues[level] # <<>> =>
    LET next == token_map[Head(queues[level]).token] IN
    \A q \in Queued : \A i \in 1..Len(queues[q]) :
      next # Vacant /\ Own(queues[q][i]) => token_map[queues[q][i].token].pri <= next.pri

(* lib.rs:6: "token cleanup is handled through drop handlers" - every token
   but the waker's belongs to a MioSource, whose drop frees it. *)
NoOrphanToken ==
  \A t \in Tokens \ {WAKER_TOKEN} :
    token_map[t] # Vacant => \E s \in Sources : token[s] = t
=============================================================================
