---------------------------- MODULE MioPollProofs ----------------------------
(***************************************************************************)
(* Proofs about MioPoll, for every number of levels, tokens, sources and   *)
(* edges.  IInv is the inductive invariant; the theorems follow from it.   *)
(* The last three say under which condition the promises hold that the     *)
(* code does not always keep.                                              *)
(***************************************************************************)
EXTENDS MioPoll, FiniteSetTheorems, TLAPS

(* Something waits in a queue of level lo or above. *)
Waiting(lo) == \E q \in Queued : q >= lo /\ queues[q] # <<>>

(* The operating system keeps edges only for what is registered. *)
KernelOK == \A h \in Handles : kready[h] # 0 => kreg[h] # NoToken

(* A source that was not given to add has no token and no events. *)
Known == used \cup {Waker}
SourcesOK ==
  /\ \A s \in Sources \ used : token[s] = NoToken /\ kreg[s] = NoToken
  /\ \A i \in 1..Len(events) : events[i].src \in Known
  /\ \A q \in Queued : \A i \in 1..Len(queues[q]) : queues[q][i].src \in Known

(* What the locals and n_queued say in each part of `poll`. *)
PhaseOK ==
  /\ pc # "dispatch" => events = <<>>
  /\ pc \in {"idle", "wait", "dispatch"} => (n_queued > 0 <=> Waiting(0))
  /\ pc = "wait" => ran = {}
  /\ pc = "dispatch" => (\A r \in ran : r.own => r.pri = max_pri) /\ (done <=> ran # {})
  /\ pc = "scan" =>
       /\ level < max_pri
       /\ n_queued > 0 <=> Waiting(level + 1)
       /\ ~done => ran = {} /\ n_queued = 0
       /\ done => \E p \in Pri :
            (\A r \in ran : r.own => r.pri = p) /\ p > level /\ ~Waiting(p)
  /\ pc = "drain" =>
       /\ level \in Queued /\ level < max_pri
       /\ n_queued = 0 /\ ~Waiting(level + 1)
       /\ (\A r \in ran : r.own => r.pri = level) /\ (done <=> ran # {})

IInv ==
  /\ TypeOK /\ KernelOK /\ SourcesOK /\ PhaseOK
  /\ TokensOwned /\ QueuesSound /\ OneLevelPerPoll /\ ResultHonest

-----------------------------------------------------------------------------
USE DEF ctrlVars, handleVars, kernelVars, pollVars, historyVars

(* Entries are not vacant, and tokens are not NoToken. *)
LEMMA Nulls ==
  /\ \A e \in Entry : e # Vacant
  /\ \A t \in Tokens : t # NoToken
BY NullAssumption

LEMMA ClipPriType == \A p \in Nat : ClipPri(p) \in Pri
BY MaxPriAssumption DEF ClipPri, Pri

LEMMA HandlesFacts ==
  /\ Waker \in Handles
  /\ \A s \in Sources : s \in Handles /\ s # Waker /\ s # UserWake
BY HandlesAssumption DEF Handles

(* The parts of an event, in the buffer or in a queue. *)
LEMMA EventFields == \A ev \in Event : ev.src \in Handles /\ ev.token \in Tokens /\ ev.ready \in Edges
BY DEF Event

LEMMA QueuedEvents ==
  ASSUME TypeOK, NEW q \in Queued, NEW i \in 1..Len(queues[q])
  PROVE  queues[q][i] \in Event
<1>1. queues[q] \in Seq(Event)
  BY DEF TypeOK
<1> QED
  BY <1>1

(* What Append and Tail do to a sequence, element by element. *)
LEMMA AppendFacts ==
  ASSUME NEW S, NEW seq \in Seq(S), NEW e \in S
  PROVE  /\ Append(seq, e) \in Seq(S) /\ Append(seq, e) # <<>>
         /\ Len(seq) \in Nat /\ Len(Append(seq, e)) = Len(seq) + 1
         /\ \A i \in 1..Len(Append(seq, e)) :
              Append(seq, e)[i] = IF i = Len(seq) + 1 THEN e ELSE seq[i]
OBVIOUS

LEMMA TailFacts ==
  ASSUME NEW S, NEW seq \in Seq(S), seq # <<>>
  PROVE  /\ Tail(seq) \in Seq(S)
         /\ Head(seq) = seq[1] /\ 1 \in 1..Len(seq)
         /\ \A i \in 1..Len(Tail(seq)) : Tail(seq)[i] = seq[i + 1] /\ i + 1 \in 1..Len(seq)
OBVIOUS

LEMMA InitInv == Init => IInv
<1> SUFFICES ASSUME Init PROVE IInv
  OBVIOUS
<1>1. ClipPri(waker_pri) \in Pri
  BY WakerPriAssumption, ClipPriType
<1>2. TypeOK
  <2>1. token_map \in [Tokens -> Entry \cup {Vacant}]
    BY <1>1, HandlesFacts DEF Init, Entry, Handlers
  <2>2. token \in [Handles -> Tokens \cup {NoToken}] /\ kreg \in [Handles -> Tokens \cup {NoToken}]
    BY TokensAssumption DEF Init
  <2>3. 0 \in Edges /\ 0 \in -1..(MAX_PRI - 1)
    BY BoundsAssumption, MaxPriAssumption DEF Edges
  <2>4. queues \in [Queued -> Seq(Event)] /\ events \in Seq(Event)
    BY DEF Init
  <2>5. ret \in [ok : BOOLEAN, activity : BOOLEAN, pending : BOOLEAN]
    BY DEF Init
  <2> QED
    BY <1>1, <2>1, <2>2, <2>3, <2>4, <2>5 DEF Init, TypeOK
<1>3. TokensOwned
  BY <1>1, TokensAssumption, HandlesFacts, Nulls
  DEF Init, TokensOwned, Live, Entry, Handlers
<1>4. KernelOK /\ SourcesOK
  BY HandlesFacts DEF Init, KernelOK, SourcesOK, Known, Handles
<1>5. PhaseOK
  BY DEF Init, PhaseOK, Waiting
<1>6. QueuesSound
  BY <1>1, MaxPriAssumption DEF Init, QueuesSound, Pri
<1>7. OneLevelPerPoll /\ ResultHonest
  BY DEF Init, OneLevelPerPoll, ResultHonest
<1> QED
  BY <1>2, <1>3, <1>4, <1>5, <1>6, <1>7 DEF IInv

LEMMA EdgeInv ==
  ASSUME IInv, NEW h \in Handles, Edge(h)
  PROVE  IInv'
<1> USE DEF Edge
<1>1. TypeOK'
  BY BoundsAssumption DEF IInv, TypeOK, Edges
<1>2. KernelOK'
  BY DEF IInv, TypeOK, KernelOK
<1>3. SourcesOK' /\ TokensOwned' /\ QueuesSound'
  BY DEF IInv, SourcesOK, Known, TokensOwned, Live, QueuesSound, Own
<1>4. PhaseOK' /\ OneLevelPerPoll' /\ ResultHonest'
  BY DEF IInv, PhaseOK, Waiting, OneLevelPerPoll, ResultHonest
<1> QED
  BY <1>1, <1>2, <1>3, <1>4 DEF IInv

-----------------------------------------------------------------------------
(* Outside poll *)

LEMMA AddInv ==
  ASSUME IInv, NEW s \in Sources, NEW p \in Nat, NEW t \in Tokens,
         NEW registered \in BOOLEAN, Add(s, p, t, registered)
  PROVE  IInv'
<1> DEFINE e == [pri |-> ClipPri(p), fwd |-> s]
<1> USE DEF Add, Register
<1>0. ClipPri(p) \in Pri /\ e \in Entry /\ e # Vacant /\ s \in Handles
  BY ClipPriType, HandlesFacts, Nulls DEF Entry, Handlers
<1>1. token_map' = [token_map EXCEPT ![t] = e]
  OBVIOUS
<1>2. max_pri' \in Pri /\ max_pri <= max_pri' /\ ClipPri(p) <= max_pri'
  BY <1>0, MaxPriAssumption DEF IInv, TypeOK, Max2, Pri
<1>3. TypeOK'
  <2>1. token_map' \in [Tokens -> Entry \cup {Vacant}]
    BY <1>0, <1>1 DEF IInv, TypeOK
  <2>2. token' \in [Handles -> Tokens \cup {NoToken}] /\ kreg' \in [Handles -> Tokens \cup {NoToken}]
    BY <1>0 DEF IInv, TypeOK
  <2> QED
    BY <1>0, <1>2, <2>1, <2>2 DEF IInv, TypeOK
<1>4. KernelOK'
  BY Nulls DEF IInv, TypeOK, KernelOK
<1>5. SourcesOK'
  BY <1>0, HandlesFacts DEF IInv, TypeOK, SourcesOK, Known
<1>6. PhaseOK' /\ OneLevelPerPoll' /\ ResultHonest'
  BY DEF IInv, PhaseOK, Waiting, OneLevelPerPoll, ResultHonest
<1>7. TokensOwned'
  <2>1. \A u \in Sources : u # s /\ Live(u) =>
          token[u] # t /\ token[u]' = token[u] /\ kreg[u]' = kreg[u]
    BY HandlesFacts DEF IInv, TypeOK, TokensOwned, Live
  <2>2. t # WAKER_TOKEN /\ token[Waker]' = token[Waker] /\ kreg[Waker]' = kreg[Waker]
    BY HandlesFacts DEF IInv, TypeOK, TokensOwned
  <2>3. ~Live(s)
    BY DEF IInv, SourcesOK, Live
  <2> QED
    BY <1>0, <1>1, <2>1, <2>2, <2>3, HandlesFacts, TokensAssumption
    DEF IInv, TypeOK, TokensOwned, Live
<1>8. QueuesSound'
  <2>1. \A u \in Tokens : token_map'[u] # Vacant =>
          token_map'[u].pri <= max_pri' /\ token_map'[u].pri \in priorities'
    BY <1>0, <1>1, <1>2 DEF IInv, TypeOK, QueuesSound, Entry, Pri
  <2>2. \A q \in Queued : queues'[q] # <<>> => q < max_pri' /\ q \in priorities'
    BY <1>2 DEF IInv, TypeOK, QueuesSound, Queued, Pri
  <2>3. ASSUME NEW q \in Queued, NEW i \in 1..Len(queues[q]), token'[queues[q][i].src] = queues[q][i].token
        PROVE  token_map'[queues[q][i].token].pri = q
    <3> DEFINE ev == queues[q][i]
    <3>0. ev \in Event /\ ev.src \in Handles /\ ev.token \in Tokens
      BY QueuedEvents, EventFields DEF IInv
    <3>1. ev.src \in Known /\ ev.src # s
      BY HandlesFacts DEF IInv, SourcesOK, Known
    <3>2. token'[ev.src] = token[ev.src]
      BY <3>0, <3>1 DEF IInv, TypeOK
    <3>3. token[ev.src] = ev.token /\ token_map[ev.token].pri = q
      BY <2>3, <3>2 DEF IInv, QueuesSound, Own
    <3>4. token_map[ev.token] # Vacant
      BY <3>0, <3>3, Nulls DEF IInv, TokensOwned, Live, Handles
    <3> QED
      BY <1>1, <3>0, <3>3, <3>4 DEF IInv, TypeOK
  <2> QED
    BY <2>1, <2>2, <2>3 DEF QueuesSound, Own
<1> QED
  BY <1>3, <1>4, <1>5, <1>6, <1>7, <1>8 DEF IInv

LEMMA DropInv ==
  ASSUME IInv, NEW s \in Sources, NEW ok \in BOOLEAN, Drop(s, ok)
  PROVE  IInv'
<1> USE DEF Drop, Deregister
<1>0. /\ s \in Handles /\ token[s] \in Tokens /\ token[s] # WAKER_TOKEN
      /\ \A u \in Handles \ {s} : token[u] # token[s] /\ token'[u] = token[u] /\ kreg'[u] = kreg[u]
      /\ token'[s] = NoToken
  BY HandlesFacts DEF IInv, TypeOK, TokensOwned, Live, Handles
<1>1. TypeOK'
  <2>0. 0 \in Edges
    BY BoundsAssumption DEF Edges
  <2>1. kreg' \in [Handles -> Tokens \cup {NoToken}] /\ kready' \in [Handles -> Edges]
    BY <2>0 DEF IInv, TypeOK
  <2>2. errors' \in Nat
    BY DEF IInv, TypeOK
  <2> QED
    BY <1>0, <2>1, <2>2 DEF IInv, TypeOK
<1>2. KernelOK'
  BY DEF IInv, TypeOK, KernelOK
<1>3. SourcesOK'
  BY <1>0, HandlesFacts DEF IInv, TypeOK, SourcesOK, Known
<1>4. PhaseOK' /\ OneLevelPerPoll' /\ ResultHonest'
  BY DEF IInv, PhaseOK, Waiting, OneLevelPerPoll, ResultHonest
<1>5. TokensOwned'
  BY <1>0, HandlesFacts, TokensAssumption, Nulls DEF IInv, TypeOK, TokensOwned, Live
<1>6. QueuesSound'
  <2>1. \A u \in Tokens : token_map'[u] # Vacant => token_map'[u] = token_map[u]
    BY <1>0 DEF IInv, TypeOK
  <2>2. ASSUME NEW q \in Queued, NEW i \in 1..Len(queues[q]), token'[queues[q][i].src] = queues[q][i].token
        PROVE  token_map'[queues[q][i].token].pri = q
    <3> DEFINE ev == queues[q][i]
    <3>1. ev \in Event /\ ev.src \in Handles /\ ev.token \in Tokens
      BY QueuedEvents, EventFields DEF IInv
    <3>2. token[ev.src] = ev.token /\ ev.token # token[s] /\ ev.token \in Tokens
      BY <1>0, <2>2, <3>1, Nulls
    <3> QED
      BY <1>0, <3>1, <3>2 DEF IInv, TypeOK, QueuesSound, Own
  <2> QED
    BY <2>1, <2>2 DEF IInv, QueuesSound, Own
<1> QED
  BY <1>1, <1>2, <1>3, <1>4, <1>5, <1>6 DEF IInv

LEMMA SetWakeFwdInv ==
  ASSUME IInv, SetWakeFwd
  PROVE  IInv'
<1> USE DEF SetWakeFwd
<1>0. /\ WAKER_TOKEN \in Tokens /\ token_map[WAKER_TOKEN] \in Entry
      /\ token_map'[WAKER_TOKEN] = [token_map[WAKER_TOKEN] EXCEPT !.fwd = UserWake]
  BY TokensAssumption DEF IInv, TypeOK, TokensOwned
<1>1. /\ token_map'[WAKER_TOKEN] \in Entry
      /\ token_map'[WAKER_TOKEN].pri = token_map[WAKER_TOKEN].pri
      /\ token_map'[WAKER_TOKEN].fwd = UserWake
      /\ \A u \in Tokens \ {WAKER_TOKEN} : token_map'[u] = token_map[u]
  BY <1>0 DEF IInv, TypeOK, Entry, Handlers
<1>2. TypeOK'
  BY <1>0, <1>1 DEF IInv, TypeOK
<1>3. KernelOK' /\ SourcesOK'
  BY DEF IInv, KernelOK, SourcesOK, Known
<1>4. PhaseOK' /\ OneLevelPerPoll' /\ ResultHonest'
  BY DEF IInv, PhaseOK, Waiting, OneLevelPerPoll, ResultHonest
<1>5. TokensOwned'
  <2>1. \A s \in Sources : Live(s) => token[s] \in Tokens \ {WAKER_TOKEN}
    BY HandlesFacts DEF IInv, TypeOK, TokensOwned, Live
  <2> QED
    BY <1>0, <1>1, <2>1, Nulls DEF IInv, TokensOwned, Live
<1>6. QueuesSound'
  <2>1. \A u \in Tokens : token_map'[u].pri = token_map[u].pri
                          /\ (token_map'[u] # Vacant => token_map[u] # Vacant)
    BY <1>0, <1>1, Nulls
  <2>2. \A q \in Queued : \A i \in 1..Len(queues[q]) : queues[q][i].token \in Tokens
    BY QueuedEvents, EventFields DEF IInv
  <2> QED
    BY <2>1, <2>2 DEF IInv, QueuesSound, Own
<1> QED
  BY <1>2, <1>3, <1>4, <1>5, <1>6 DEF IInv

-----------------------------------------------------------------------------
(* poll: waiting for mio *)

LEMMA PollCallInv ==
  ASSUME IInv, NEW mayBlock \in BOOLEAN, PollCall(mayBlock)
  PROVE  IInv'
<1> USE DEF PollCall
<1>1. TypeOK'
  BY DEF IInv, TypeOK
<1>2. KernelOK' /\ SourcesOK' /\ TokensOwned' /\ QueuesSound'
  BY DEF IInv, KernelOK, SourcesOK, Known, TokensOwned, Live, QueuesSound, Own
<1>3. PhaseOK'
  BY DEF IInv, PhaseOK, Waiting
<1>4. OneLevelPerPoll' /\ ResultHonest'
  BY DEF OneLevelPerPoll, ResultHonest
<1> QED
  BY <1>1, <1>2, <1>3, <1>4 DEF IInv

LEMMA PollFetchInv ==
  ASSUME IInv, PollFetch
  PROVE  IInv'
<1> USE DEF PollFetch
<1>1. PICK n \in 1..EventsCap : \E order \in Injection(1..n, {h \in Handles : kready[h] # 0}) :
         /\ events' = [i \in 1..n |->
              [src |-> order[i], token |-> kreg[order[i]], ready |-> kready[order[i]]]]
         /\ kready' = [h \in Handles |-> IF h \in {order[i] : i \in 1..n} THEN 0 ELSE kready[h]]
         /\ fetched' = [h \in Handles |-> IF h \in {order[i] : i \in 1..n} THEN kready[h] ELSE fetched[h]]
  OBVIOUS
<1>2. PICK order \in Injection(1..n, {h \in Handles : kready[h] # 0}) :
         /\ events' = [i \in 1..n |->
              [src |-> order[i], token |-> kreg[order[i]], ready |-> kready[order[i]]]]
         /\ kready' = [h \in Handles |-> IF h \in {order[i] : i \in 1..n} THEN 0 ELSE kready[h]]
         /\ fetched' = [h \in Handles |-> IF h \in {order[i] : i \in 1..n} THEN kready[h] ELSE fetched[h]]
  BY <1>1
<1> DEFINE ev(i) == [src |-> order[i], token |-> kreg[order[i]], ready |-> kready[order[i]]]
<1>3. \A i \in 1..n : order[i] \in Handles /\ kready[order[i]] # 0
  BY DEF Injection
<1>4. \A i \in 1..n : ev(i) \in Event /\ ev(i).src \in Known
  <2> TAKE i \in 1..n
  <2>1. kreg[order[i]] \in Tokens /\ kready[order[i]] \in Edges
    BY <1>3 DEF IInv, TypeOK, KernelOK
  <2>2. order[i] \in Known
    BY <1>3, <2>1, Nulls DEF IInv, SourcesOK, Known, Handles
  <2> QED
    BY <1>3, <2>1, <2>2 DEF Event
<1>5. events' \in Seq(Event) /\ Len(events') = n /\ \A i \in 1..n : events'[i] = ev(i)
  <2>1. n \in Nat /\ events' \in [1..n -> Event]
    BY <1>2, <1>4, BoundsAssumption
  <2> QED
    BY <1>2, <2>1
<1>6. TypeOK'
  <2>1. kready' \in [Handles -> Edges] /\ fetched' \in [Handles -> Edges]
    <3>1. 0 \in Edges
      BY BoundsAssumption DEF Edges
    <3> QED
      BY <1>2, <3>1 DEF IInv, TypeOK
  <2> QED
    BY <1>5, <2>1 DEF IInv, TypeOK
<1>7. KernelOK'
  BY <1>2 DEF IInv, TypeOK, KernelOK
<1>8. SourcesOK'
  BY <1>4, <1>5 DEF IInv, SourcesOK, Known
<1>9. TokensOwned' /\ QueuesSound'
  BY DEF IInv, TokensOwned, Live, QueuesSound, Own
<1>10. PhaseOK' /\ OneLevelPerPoll' /\ ResultHonest'
  BY DEF IInv, PhaseOK, Waiting, OneLevelPerPoll, ResultHonest
<1> QED
  BY <1>6, <1>7, <1>8, <1>9, <1>10 DEF IInv

LEMMA PollTimeoutInv ==
  ASSUME IInv, PollTimeout
  PROVE  IInv'
<1> USE DEF PollTimeout
<1>1. TypeOK'
  BY DEF IInv, TypeOK
<1>2. KernelOK' /\ SourcesOK' /\ TokensOwned' /\ QueuesSound'
  BY DEF IInv, KernelOK, SourcesOK, Known, TokensOwned, Live, QueuesSound, Own
<1>3. PhaseOK' /\ OneLevelPerPoll' /\ ResultHonest'
  BY DEF IInv, PhaseOK, Waiting, OneLevelPerPoll, ResultHonest
<1> QED
  BY <1>1, <1>2, <1>3 DEF IInv

LEMMA PollErrorInv ==
  ASSUME IInv, PollError
  PROVE  IInv'
<1> USE DEF PollError, Return
<1>0. ~ret'.ok /\ ret' \in [ok : BOOLEAN, activity : BOOLEAN, pending : BOOLEAN]
  OBVIOUS
<1>1. TypeOK'
  <2>1. 0 \in -1..(MAX_PRI - 1)
    BY MaxPriAssumption
  <2> QED
    BY <1>0, <2>1 DEF IInv, TypeOK
<1>2. KernelOK' /\ SourcesOK' /\ TokensOwned' /\ QueuesSound'
  BY DEF IInv, KernelOK, SourcesOK, Known, TokensOwned, Live, QueuesSound, Own
<1>3. PhaseOK' /\ OneLevelPerPoll' /\ ResultHonest'
  BY <1>0 DEF IInv, PhaseOK, Waiting, OneLevelPerPoll, ResultHonest
<1> QED
  BY <1>1, <1>2, <1>3 DEF IInv

-----------------------------------------------------------------------------
(* poll: handing out events *)

(* A call of a handler keeps the types of the history. *)
LEMMA ForwardType ==
  ASSUME TypeOK, NEW ev \in Event, NEW entry \in Entry, Forward(ev, entry)
  PROVE  /\ done' = TRUE /\ ran' = ran \cup {[pri |-> entry.pri, own |-> Own(ev)]}
         /\ ran' \in SUBSET [pri : Pri, own : BOOLEAN] /\ called' \in [Handles -> Edges]
<1>1. entry.pri \in Pri /\ Own(ev) \in BOOLEAN
  BY DEF Entry, Own
<1>2. ran' = ran \cup {[pri |-> entry.pri, own |-> Own(ev)]}
  BY DEF Forward
<1>3. called' \in [Handles -> Edges]
  BY EventFields DEF Forward, TypeOK
<1> QED
  BY <1>1, <1>2, <1>3 DEF Forward, TypeOK

LEMMA DispatchInv ==
  ASSUME IInv, Dispatch
  PROVE  IInv'
<1> DEFINE ev == Head(events)
           entry == token_map[ev.token]
<1>0. /\ pc = "dispatch" /\ events # <<>> /\ events' = Tail(events)
      /\ UNCHANGED <<token_map, max_pri, priorities, errors, handleVars, kernelVars,
                     pc, block, level, ret, fetched>>
  BY DEF Dispatch
<1>1. /\ ev \in Event /\ ev.token \in Tokens /\ ev.src \in Handles /\ ev.src \in Known
      /\ events' \in Seq(Event)
      /\ \A i \in 1..Len(events') : events'[i].src \in Known
  <2>1. events \in Seq(Event) /\ events # <<>>
    BY <1>0 DEF IInv, TypeOK
  <2>2. ev = events[1] /\ 1 \in 1..Len(events) /\ ev \in Event
    BY <2>1
  <2>3. events' = Tail(events) /\ \A i \in 1..Len(events') : events'[i] = events[i + 1] /\ i + 1 \in 1..Len(events)
    BY <1>0, <2>1
  <2> QED
    BY <2>1, <2>2, <2>3, EventFields DEF IInv, SourcesOK
<1>2. KernelOK' /\ TokensOwned'
  BY <1>0 DEF IInv, KernelOK, TokensOwned, Live
<1>3. CASE entry = Vacant
  <2>1. NoForward /\ UNCHANGED <<queues, n_queued>>
    BY <1>3 DEF Dispatch
  <2>2. TypeOK'
    BY <1>0, <1>1, <2>1 DEF IInv, TypeOK, NoForward
  <2>3. SourcesOK' /\ QueuesSound'
    BY <1>0, <1>1, <2>1 DEF IInv, SourcesOK, Known, QueuesSound, Own
  <2>4. PhaseOK' /\ OneLevelPerPoll' /\ ResultHonest'
    BY <1>0, <2>1 DEF IInv, PhaseOK, Waiting, OneLevelPerPoll, ResultHonest, NoForward
  <2> QED
    BY <1>2, <2>2, <2>3, <2>4 DEF IInv
<1>4. CASE entry # Vacant /\ entry.pri = max_pri
  <2>1. Forward(ev, entry) /\ UNCHANGED <<queues, n_queued>>
    BY <1>4 DEF Dispatch
  <2>2. /\ done' = TRUE /\ ran' = ran \cup {[pri |-> max_pri, own |-> Own(ev)]}
        /\ ran' \in SUBSET [pri : Pri, own : BOOLEAN] /\ called' \in [Handles -> Edges]
    <3>1. entry \in Entry
      BY <1>1, <1>4 DEF IInv, TypeOK
    <3> QED
      BY <1>1, <1>4, <2>1, <3>1, ForwardType DEF IInv
  <2>3. TypeOK'
    BY <1>0, <1>1, <2>1, <2>2 DEF IInv, TypeOK
  <2>4. SourcesOK' /\ QueuesSound'
    BY <1>0, <1>1, <2>1 DEF IInv, SourcesOK, Known, QueuesSound, Own
  <2>A. /\ ran' # {} /\ \A r \in ran' : r.own => r.pri = max_pri
    <3>1. \A r \in ran : r.own => r.pri = max_pri
      BY <1>0 DEF IInv, PhaseOK
    <3>2. ran' = ran \cup {[pri |-> max_pri, own |-> Own(ev)]}
      BY <2>2
    <3>3. [pri |-> max_pri, own |-> Own(ev)].pri = max_pri
      OBVIOUS
    <3> QED
      BY <3>1, <3>2, <3>3
  <2>5. PhaseOK' /\ OneLevelPerPoll' /\ ResultHonest'
    BY <1>0, <2>1, <2>2, <2>A DEF IInv, PhaseOK, Waiting, OneLevelPerPoll, ResultHonest
  <2> QED
    BY <1>2, <2>3, <2>4, <2>5 DEF IInv
<1>5. CASE entry # Vacant /\ entry.pri # max_pri
  <2>0. /\ queues' = [queues EXCEPT ![entry.pri] = Append(@, ev)]
        /\ n_queued' = n_queued + 1 /\ NoForward
    BY <1>5 DEF Dispatch
  <2>1. entry.pri \in Queued /\ entry.pri < max_pri /\ entry.pri \in priorities
    BY <1>1, <1>5, MaxPriAssumption DEF IInv, TypeOK, QueuesSound, Entry, Pri, Queued
  <2>2. /\ queues' \in [Queued -> Seq(Event)]
        /\ \A q \in Queued : q # entry.pri => queues'[q] = queues[q]
        /\ queues[entry.pri] \in Seq(Event)
        /\ queues'[entry.pri] = Append(queues[entry.pri], ev)
    <3>1. queues[entry.pri] \in Seq(Event) /\ Append(queues[entry.pri], ev) \in Seq(Event)
      BY <1>1, <2>1, AppendFacts DEF IInv, TypeOK
    <3> QED
      BY <2>0, <2>1, <3>1 DEF IInv, TypeOK
  <2> DEFINE old == queues[entry.pri]
  <2>B. /\ Append(old, ev) # <<>> /\ Len(old) \in Nat /\ Len(Append(old, ev)) = Len(old) + 1
        /\ \A i \in 1..Len(Append(old, ev)) :
             Append(old, ev)[i] = IF i = Len(old) + 1 THEN ev ELSE old[i]
    <3>1. old \in Seq(Event) /\ ev \in Event
      BY <1>1, <2>2
    <3> HIDE DEF old, ev
    <3> QED
      BY <3>1, AppendFacts
  <2>3. queues'[entry.pri] # <<>> /\ n_queued \in Nat /\ n_queued' \in Nat /\ n_queued' > 0
    <3>1. queues'[entry.pri] # <<>>
      BY <2>2, <2>B
    <3> QED
      BY <2>0, <3>1 DEF IInv, TypeOK
  <2>A. ASSUME NEW q \in Queued, NEW i \in 1..Len(queues'[q])
        PROVE  \/ queues'[q][i] = ev /\ q = entry.pri
               \/ i \in 1..Len(queues[q]) /\ queues'[q][i] = queues[q][i]
    <3>1. CASE q = entry.pri
      <4>1. queues'[q] = Append(old, ev) /\ queues[q] = old
        BY <2>2, <3>1
      <4> HIDE DEF old, ev
      <4>2. i = Len(old) + 1 \/ i \in 1..Len(old)
        BY <2>B, <4>1
      <4> QED
        BY <2>A, <2>B, <3>1, <4>1, <4>2
    <3>2. CASE q # entry.pri
      BY <2>2, <3>2
    <3> QED
      BY <3>1, <3>2
  <2>4. TypeOK'
    BY <1>0, <1>1, <2>0, <2>2, <2>3 DEF IInv, TypeOK, NoForward
  <2>5. SourcesOK'
    <3>1. \A q \in Queued : \A i \in 1..Len(queues'[q]) : queues'[q][i].src \in Known
      BY <1>1, <2>A DEF IInv, SourcesOK
    <3> QED
      BY <1>0, <1>1, <3>1 DEF IInv, SourcesOK, Known
  <2>6. QueuesSound'
    <3>1. \A q \in Queued : queues'[q] # <<>> => q < max_pri /\ q \in priorities
      BY <2>1, <2>2 DEF IInv, QueuesSound
    <3>2. \A q \in Queued : \A i \in 1..Len(queues'[q]) :
            Own(queues'[q][i]) => token_map[queues'[q][i].token].pri = q
      BY <2>A DEF IInv, QueuesSound
    <3> QED
      BY <1>0, <3>1, <3>2 DEF IInv, QueuesSound, Own
  <2>7. PhaseOK'
    <3>1. Waiting(0)'
      BY <2>1, <2>3 DEF Waiting, Queued
    <3> QED
      BY <1>0, <2>0, <2>3, <3>1 DEF IInv, PhaseOK, NoForward
  <2>8. OneLevelPerPoll' /\ ResultHonest'
    BY <1>0, <2>0 DEF IInv, OneLevelPerPoll, ResultHonest, NoForward
  <2> QED
    BY <1>2, <2>4, <2>5, <2>6, <2>7, <2>8 DEF IInv
<1> QED
  BY <1>3, <1>4, <1>5

(* All events of the level that poll served have been handed out. *)
Served ==
  \A r \in ran : r.own => (\A o \in ran : o.own => o.pri = r.pri) /\ ~Waiting(r.pri)

(* What a successful return establishes, given what each part of poll ends with. *)
LEMMA ReturnOkInv ==
  ASSUME IInv, ReturnOk,
         n_queued > 0 <=> Waiting(0), n_queued > 0 => done,
         events = <<>>, Served,
         UNCHANGED <<ctrlVars, handleVars, kernelVars, historyVars>>
  PROVE  IInv'
<1> USE DEF ReturnOk, Return
<1>0. /\ ret' = [ok |-> TRUE, activity |-> done, pending |-> n_queued > 0]
      /\ ret'.activity = done /\ ret'.pending = (n_queued > 0)
      /\ pc' = "idle"
  OBVIOUS
<1>1. TypeOK'
  <2>1. 0 \in -1..(MAX_PRI - 1)
    BY MaxPriAssumption
  <2>2. done \in BOOLEAN /\ (n_queued > 0) \in BOOLEAN
    BY DEF IInv, TypeOK
  <2>3. ret' \in [ok : BOOLEAN, activity : BOOLEAN, pending : BOOLEAN]
    BY <1>0, <2>2
  <2> QED
    BY <2>1, <2>3 DEF IInv, TypeOK
<1>2. KernelOK' /\ SourcesOK' /\ TokensOwned' /\ QueuesSound'
  BY DEF IInv, KernelOK, SourcesOK, Known, TokensOwned, Live, QueuesSound, Own
<1>3. PhaseOK'
  BY <1>0 DEF PhaseOK, Waiting
<1>4. OneLevelPerPoll'
  BY DEF OneLevelPerPoll, Served, Waiting
<1>5. ResultHonest'
  <2>1. Waiting(0) <=> \E q \in Queued : queues'[q] # <<>>
    BY DEF Waiting, Queued
  <2>2. ret'.pending <=> n_queued > 0
    BY <1>0
  <2>3. ret'.activity <=> done
    BY <1>0
  <2> QED
    BY <2>1, <2>2, <2>3 DEF ResultHonest
<1> QED
  BY <1>1, <1>2, <1>3, <1>4, <1>5 DEF IInv

(* Nothing is queued at max_pri or above. *)
LEMMA TopEmpty == IInv => ~Waiting(max_pri)
BY DEF IInv, TypeOK, QueuesSound, Waiting, Queued, Pri

LEMMA DispatchEndInv ==
  ASSUME IInv, DispatchEnd
  PROVE  IInv'
<1>0. /\ pc = "dispatch" /\ events = <<>>
      /\ UNCHANGED <<token_map, queues, max_pri, priorities, events, errors,
                     handleVars, kernelVars, historyVars>>
  BY DEF DispatchEnd
<1>1. CASE ~done /\ n_queued > 0
  <2>1. ScanStart
    BY <1>1 DEF DispatchEnd
  <2>2. TypeOK'
    BY <1>0, <2>1, MaxPriAssumption DEF IInv, TypeOK, ScanStart, Pri
  <2>3. KernelOK' /\ SourcesOK' /\ TokensOwned' /\ QueuesSound'
    BY <1>0 DEF IInv, KernelOK, SourcesOK, Known, TokensOwned, Live, QueuesSound, Own
  <2>4. PhaseOK'
    <3>1. level' = max_pri - 1 /\ max_pri' = max_pri /\ level' + 1 = max_pri
      BY <1>0, <2>1 DEF IInv, TypeOK, ScanStart, Pri
    <3>2. ~Waiting(level + 1)'
      BY <1>0, <3>1, TopEmpty DEF Waiting
    <3> QED
      BY <1>0, <1>1, <2>1, <3>1, <3>2 DEF IInv, TypeOK, PhaseOK, ScanStart, Pri
  <2>5. OneLevelPerPoll' /\ ResultHonest'
    BY <1>0, <2>1 DEF IInv, OneLevelPerPoll, ResultHonest, ScanStart
  <2> QED
    BY <2>2, <2>3, <2>4, <2>5 DEF IInv
<1>2. CASE ~(~done /\ n_queued > 0)
  <2>1. ReturnOk /\ UNCHANGED n_queued
    BY <1>2 DEF DispatchEnd
  <2>2. Served
    BY <1>0, TopEmpty DEF IInv, PhaseOK, Served
  <2>3. n_queued > 0 <=> Waiting(0)
    BY <1>0 DEF IInv, PhaseOK
  <2> QED
    BY <1>0, <1>2, <2>1, <2>2, <2>3, ReturnOkInv
<1> QED
  BY <1>1, <1>2

LEMMA ScanEndInv ==
  ASSUME IInv, ScanEnd
  PROVE  IInv'
<1>0. /\ pc = "scan" /\ level = -1 /\ ReturnOk
      /\ UNCHANGED <<ctrlVars, handleVars, kernelVars, historyVars>>
  BY DEF ScanEnd, IInv, TypeOK
<1>1. level + 1 = 0
  BY <1>0
<1>2. n_queued > 0 <=> Waiting(0)
  BY <1>0, <1>1 DEF IInv, PhaseOK
<1>3. n_queued > 0 => done
  BY <1>0 DEF IInv, PhaseOK, TypeOK
<1>4. Served
  BY <1>0 DEF IInv, PhaseOK, Served
<1>5. events = <<>>
  BY <1>0 DEF IInv, PhaseOK
<1> QED
  BY <1>0, <1>2, <1>3, <1>4, <1>5, ReturnOkInv

LEMMA ScanInv ==
  ASSUME IInv, Scan
  PROVE  IInv'
<1>0. /\ pc = "scan" /\ level \in Queued /\ level < max_pri
      /\ UNCHANGED <<token_map, queues, max_pri, priorities, events, errors,
                     handleVars, kernelVars, block, done, ret, historyVars>>
  BY MaxPriAssumption DEF Scan, IInv, TypeOK, Queued, PhaseOK
<1>1. KernelOK' /\ SourcesOK' /\ TokensOwned' /\ QueuesSound'
  BY <1>0 DEF IInv, KernelOK, SourcesOK, Known, TokensOwned, Live, QueuesSound, Own
<1>2. (pc' = "scan" \/ pc' = "drain") => OneLevelPerPoll' /\ ResultHonest'
  BY <1>0 DEF IInv, OneLevelPerPoll, ResultHonest
<1>3. CASE ~(level \in priorities /\ queues[level] # <<>>)
  <2>1. queues[level] = <<>>
    BY <1>0, <1>3 DEF IInv, QueuesSound
  <2>2. level' = level - 1 /\ UNCHANGED <<n_queued, pc>>
    BY <1>3 DEF Scan
  <2>3. TypeOK'
    BY <1>0, <2>2, MaxPriAssumption DEF IInv, TypeOK, Queued
  <2>4. PhaseOK'
    <3>1. level' + 1 = level
      BY <1>0, <2>2 DEF Queued
    <3>2. Waiting(level + 1)' <=> Waiting(level + 1)
      BY <1>0, <2>1, <3>1 DEF Waiting, Queued
    <3>3. level' < max_pri' /\ \A p \in Pri : (p > level => p > level') /\ (Waiting(p)' <=> Waiting(p))
      BY <1>0, <2>2, <3>1 DEF Queued, IInv, TypeOK, Pri, Waiting
    <3> QED
      BY <1>0, <2>2, <3>2, <3>3 DEF IInv, PhaseOK
  <2> QED
    BY <1>0, <1>1, <1>2, <2>2, <2>3, <2>4 DEF IInv
<1>4. CASE level \in priorities /\ queues[level] # <<>> /\ ~done
  <2>1. pc' = "drain" /\ UNCHANGED <<n_queued, level>>
    BY <1>4 DEF Scan, MayDrain
  <2>2. TypeOK'
    BY <1>0, <2>1 DEF IInv, TypeOK
  <2>3. PhaseOK'
    <3>1. n_queued = 0 /\ ran = {} /\ events = <<>> /\ ~Waiting(level + 1)
      BY <1>0, <1>4 DEF IInv, PhaseOK
    <3>2. ~Waiting(level + 1)'
      BY <1>0, <2>1, <3>1 DEF Waiting
    <3> QED
      BY <1>0, <1>4, <2>1, <3>1, <3>2 DEF PhaseOK
  <2> QED
    BY <1>1, <1>2, <2>1, <2>2, <2>3 DEF IInv
<1>5. CASE level \in priorities /\ queues[level] # <<>> /\ done
  <2>1. n_queued' = n_queued + Len(queues[level]) /\ level' = level - 1 /\ UNCHANGED pc
    BY <1>5 DEF Scan, MayDrain
  <2>2. Len(queues[level]) \in Nat \ {0}
    BY <1>0, <1>5 DEF IInv, TypeOK
  <2>3. n_queued' \in Nat /\ n_queued' > 0
    BY <2>1, <2>2 DEF IInv, TypeOK
  <2>4. TypeOK'
    BY <1>0, <2>1, <2>3, MaxPriAssumption DEF IInv, TypeOK, Queued
  <2>5. PhaseOK'
    <3>1. level' + 1 = level
      BY <1>0, <2>1 DEF Queued
    <3>2. Waiting(level + 1)'
      BY <1>0, <1>5, <3>1 DEF Waiting, Queued
    <3>3. level' < max_pri' /\ \A p \in Pri : (p > level => p > level') /\ (Waiting(p)' <=> Waiting(p))
      BY <1>0, <2>1, <3>1 DEF Queued, IInv, TypeOK, Pri, Waiting
    <3> QED
      BY <1>0, <1>5, <2>1, <2>3, <3>2, <3>3 DEF IInv, PhaseOK
  <2> QED
    BY <1>0, <1>1, <1>2, <2>1, <2>4, <2>5 DEF IInv
<1> QED
  BY <1>3, <1>4, <1>5

LEMMA DrainInv ==
  ASSUME IInv, Drain
  PROVE  IInv'
<1> DEFINE ev == Head(queues[level])
<1>0. /\ pc = "drain" /\ level \in Queued /\ level \in Pri /\ queues[level] # <<>>
      /\ queues' = [queues EXCEPT ![level] = Tail(queues[level])]
      /\ UNCHANGED <<token_map, n_queued, max_pri, priorities, events, errors,
                     handleVars, kernelVars, pc, block, level, ret, fetched>>
  BY MaxPriAssumption DEF Drain, Drained, IInv, PhaseOK, Queued, Pri
<1>1. queues[level] \in Seq(Event)
  BY <1>0 DEF IInv, TypeOK
<1>2. /\ ev \in Event /\ Tail(queues[level]) \in Seq(Event)
      /\ \A i \in 1..Len(Tail(queues[level])) :
           Tail(queues[level])[i] = queues[level][i + 1] /\ i + 1 \in 1..Len(queues[level])
  BY <1>0, <1>1
<1>3. /\ queues' \in [Queued -> Seq(Event)]
      /\ queues'[level] = Tail(queues[level])
      /\ \A q \in Queued : q # level => queues'[q] = queues[q]
  BY <1>0, <1>2 DEF IInv, TypeOK
<1>4. ASSUME NEW q \in Queued, NEW i \in 1..Len(queues'[q])
      PROVE  \E j \in 1..Len(queues[q]) : queues'[q][i] = queues[q][j]
  BY <1>2, <1>3
<1>5. \A q \in Queued : queues'[q] # <<>> => queues[q] # <<>>
  BY <1>0, <1>3
<1>6. \/ /\ done' = TRUE /\ ran' # {} /\ called' \in [Handles -> Edges]
         /\ ran' \in SUBSET [pri : Pri, own : BOOLEAN]
         /\ (\A r \in ran : r.own => r.pri = level) => \A r \in ran' : r.own => r.pri = level
      \/ UNCHANGED <<done, ran, called>>
  <2> DEFINE entry == token_map[ev.token]
  <2>1. CASE entry # Vacant /\ Forward(ev, entry)
    <3>1. entry \in Entry
      BY <1>2, <2>1, EventFields DEF IInv, TypeOK
    <3>2. Own(ev) => entry.pri = level
      BY <1>0, <1>1, TailFacts DEF IInv, QueuesSound
    <3>3. /\ done' = TRUE /\ called' \in [Handles -> Edges]
          /\ ran' = ran \cup {[pri |-> entry.pri, own |-> Own(ev)]}
          /\ ran' \in SUBSET [pri : Pri, own : BOOLEAN]
      BY <1>2, <2>1, <3>1, ForwardType DEF IInv
    <3>4. (\A r \in ran : r.own => r.pri = level) => \A r \in ran' : r.own => r.pri = level
      BY <3>2, <3>3
    <3> QED
      BY <3>3, <3>4
  <2>2. CASE NoForward
    BY <2>2 DEF NoForward
  <2> QED
    BY <2>1, <2>2 DEF Drain
<1>7. TypeOK'
  BY <1>0, <1>3, <1>6 DEF IInv, TypeOK
<1>8. KernelOK' /\ TokensOwned'
  BY <1>0 DEF IInv, KernelOK, TokensOwned, Live
<1>9. SourcesOK'
  <2>1. \A q \in Queued : \A i \in 1..Len(queues'[q]) : queues'[q][i].src \in Known
    BY <1>4 DEF IInv, SourcesOK
  <2> QED
    BY <1>0, <2>1 DEF IInv, SourcesOK, Known
<1>10. QueuesSound'
  <2>1. \A q \in Queued : \A i \in 1..Len(queues'[q]) :
          Own(queues'[q][i]) => token_map[queues'[q][i].token].pri = q
    <3> TAKE q \in Queued
    <3> TAKE i \in 1..Len(queues'[q])
    <3>1. PICK j \in 1..Len(queues[q]) : queues'[q][i] = queues[q][j]
      BY <1>4
    <3> QED
      BY <3>1 DEF IInv, QueuesSound
  <2> QED
    BY <1>0, <1>5, <2>1 DEF IInv, QueuesSound, Own
<1>11. PhaseOK'
  <2>1. ~Waiting(level + 1)'
    BY <1>0, <1>5 DEF IInv, PhaseOK, Waiting
  <2> QED
    BY <1>0, <1>6, <2>1 DEF IInv, PhaseOK
<1>12. OneLevelPerPoll' /\ ResultHonest'
  BY <1>0, <1>6 DEF IInv, PhaseOK, OneLevelPerPoll, ResultHonest
<1> QED
  BY <1>7, <1>8, <1>9, <1>10, <1>11, <1>12 DEF IInv

LEMMA DrainEndInv ==
  ASSUME IInv, DrainEnd
  PROVE  IInv'
<1>0. /\ pc = "drain" /\ level \in Queued /\ queues[level] = <<>>
      /\ pc' = "scan" /\ level' = level - 1 /\ level' + 1 = level
      /\ UNCHANGED <<ctrlVars, handleVars, kernelVars, block, done, ret, historyVars>>
  BY DEF DrainEnd, IInv, PhaseOK, Queued
<1>1. TypeOK'
  BY <1>0, MaxPriAssumption DEF IInv, TypeOK, Queued
<1>2. KernelOK' /\ SourcesOK' /\ TokensOwned' /\ QueuesSound'
  BY <1>0 DEF IInv, KernelOK, SourcesOK, Known, TokensOwned, Live, QueuesSound, Own
<1>3. PhaseOK'
  <2>1. ~Waiting(level)
    BY <1>0 DEF IInv, PhaseOK, Waiting, Queued
  <2>2. ~Waiting(level + 1)'
    BY <1>0, <2>1 DEF Waiting
  <2>3. done' => \E p \in Pri :
          (\A r \in ran' : r.own => r.pri = p) /\ p > level' /\ ~Waiting(p)'
    <3>1. level \in Pri /\ level > level' /\ (\A r \in ran : r.own => r.pri = level)
      BY <1>0, MaxPriAssumption DEF IInv, PhaseOK, Queued, Pri
    <3>2. \A p \in Pri : Waiting(p)' <=> Waiting(p)
      BY <1>0 DEF Waiting
    <3> QED
      BY <1>0, <2>1, <3>1, <3>2
  <2>4. level' < max_pri' /\ n_queued' = 0 /\ events' = <<>> /\ (~done' => ran' = {})
    BY <1>0 DEF IInv, TypeOK, PhaseOK, Queued, Pri
  <2> QED
    BY <1>0, <2>2, <2>3, <2>4 DEF PhaseOK
<1>4. OneLevelPerPoll' /\ ResultHonest'
  BY <1>0 DEF IInv, OneLevelPerPoll, ResultHonest
<1> QED
  BY <1>1, <1>2, <1>3, <1>4 DEF IInv

-----------------------------------------------------------------------------
LEMMA NextInv ==
  ASSUME IInv, Next
  PROVE  IInv'
<1>1. ASSUME NEW h \in Handles, Edge(h) PROVE IInv'
  BY <1>1, EdgeInv
<1>2. CASE AppStep
  <2>1. ASSUME NEW s \in Sources, NEW p \in 0..(MAX_PRI + 1), NEW t \in Tokens,
               NEW registered \in BOOLEAN, Add(s, p, t, registered)
        PROVE  IInv'
    <3>1. p \in Nat
      BY MaxPriAssumption
    <3> QED
      BY <2>1, <3>1, AddInv
  <2>2. ASSUME NEW s \in Sources, NEW ok \in BOOLEAN, Drop(s, ok) PROVE IInv'
    BY <2>2, DropInv
  <2> QED
    BY <1>2, <2>1, <2>2, SetWakeFwdInv DEF AppStep
<1>3. ASSUME NEW mayBlock \in BOOLEAN, PollCall(mayBlock) PROVE IInv'
  BY <1>3, PollCallInv
<1>4. CASE PollStep
  BY <1>4, DispatchInv, DispatchEndInv, ScanInv, DrainInv, DrainEndInv, ScanEndInv DEF PollStep
<1> QED
  BY <1>1, <1>2, <1>3, <1>4, PollFetchInv, PollTimeoutInv, PollErrorInv DEF Next

LEMMA StutterInv ==
  ASSUME IInv, UNCHANGED vars
  PROVE  IInv'
<1>1. TypeOK'
  BY DEF IInv, TypeOK, vars
<1>2. KernelOK' /\ SourcesOK' /\ TokensOwned' /\ QueuesSound'
  BY DEF IInv, KernelOK, SourcesOK, Known, TokensOwned, Live, QueuesSound, Own, vars
<1>3. PhaseOK' /\ OneLevelPerPoll' /\ ResultHonest'
  BY DEF IInv, PhaseOK, Waiting, OneLevelPerPoll, ResultHonest, vars
<1> QED
  BY <1>1, <1>2, <1>3 DEF IInv

(* IInv holds in every reachable state, whatever the application, the
   operating system and the threads with a Waker do. *)
THEOREM Invariance == Spec => []IInv
<1>1. IInv /\ [Next]_vars => IInv'
  BY NextInv, StutterInv
<1> QED
  BY <1>1, InitInv, PTL DEF Spec

(* Priorities stay within MAX_PRI, and so do the levels poll scans; what mio
   reports always carries a token of the slab. *)
THEOREM TypeCorrect == Spec => []TypeOK
BY Invariance, PTL DEF IInv

(* `del` never meets a missing token and set_wake_fwd never a vacant key,
   although tokens are reused after a drop. *)
THEOREM TokensSafe == Spec => []TokensOwned
BY Invariance, PTL DEF IInv

(* No event is queued where the scan in poll does not look, and the index of
   `queues` is within bounds. *)
THEOREM QueuesSafe == Spec => []QueuesSound
BY Invariance, PTL DEF IInv

(* A call of poll runs the handlers of a single level, and leaves nothing
   queued at that level or above. *)
THEOREM OneLevel == Spec => []OneLevelPerPoll
BY Invariance, PTL DEF IInv

(* The flags poll returns tell the truth about the queues. *)
THEOREM ResultTrue == Spec => []ResultHonest
BY Invariance, PTL DEF IInv
-----------------------------------------------------------------------------
(***************************************************************************)
(* The readiness that reaches the handlers: HistoryInv, which is inductive *)
(* together with IInv.                                                     *)
(***************************************************************************)

(* Edges are numbered as they are raised; what mio reports of a handle is newer
   than all it reported before. *)
EdgesOK ==
  /\ \A h \in Handles :
       /\ called[h] <= fetched[h] /\ fetched[h] <= edges /\ kready[h] <= edges
       /\ kready[h] # 0 => fetched[h] < kready[h]
  /\ \A s \in Sources \ used : called[s] = fetched[s]

(* The buffer holds at most one event of a handle, the newest that is. *)
BufferOK ==
  /\ \A i \in 1..Len(events) :
       /\ events[i].ready = fetched[events[i].src]
       /\ called[events[i].src] < events[i].ready
  /\ \A i, j \in 1..Len(events) : events[i].src = events[j].src => i = j

(* Events of a handle are queued in the order of their edges, ahead of the one
   in the buffer. *)
QueueOrderOK ==
  /\ \A q \in Queued : \A i \in 1..Len(queues[q]) :
       /\ queues[q][i].ready <= fetched[queues[q][i].src]
       /\ Own(queues[q][i]) => called[queues[q][i].src] < queues[q][i].ready
       /\ \A k \in 1..Len(events) :
            events[k].src = queues[q][i].src => queues[q][i].ready < events[k].ready
  /\ \A q \in Queued : \A i, j \in 1..Len(queues[q]) :
       i < j /\ queues[q][i].src = queues[q][j].src => queues[q][i].ready < queues[q][j].ready

HistoryInv == EdgesOK /\ BufferOK /\ QueueOrderOK /\ NoLostReadiness

LEMMA InTail ==
  ASSUME NEW S, NEW seq \in Seq(S), seq # <<>>, NEW e, InSeq(e, seq), e # Head(seq)
  PROVE  InSeq(e, Tail(seq))
<1>1. PICK i \in 1..Len(seq) : seq[i] = e
  BY DEF InSeq
<1>2. /\ Len(seq) \in Nat /\ Len(Tail(seq)) = Len(seq) - 1 /\ Head(seq) = seq[1]
      /\ \A j \in 1..Len(Tail(seq)) : Tail(seq)[j] = seq[j + 1]
  OBVIOUS
<1>3. i - 1 \in 1..Len(Tail(seq)) /\ (i - 1) + 1 = i
  BY <1>1, <1>2
<1>4. Tail(seq)[i - 1] = e
  BY <1>1, <1>2, <1>3
<1> QED
  BY <1>3, <1>4 DEF InSeq

LEMMA InAppend ==
  ASSUME NEW S, NEW seq \in Seq(S), NEW last \in S, NEW e, InSeq(e, seq) \/ e = last
  PROVE  InSeq(e, Append(seq, last))
<1>1. /\ Len(seq) \in Nat /\ Len(Append(seq, last)) = Len(seq) + 1
      /\ \A i \in 1..Len(seq) : Append(seq, last)[i] = seq[i]
      /\ Append(seq, last)[Len(seq) + 1] = last
  OBVIOUS
<1>2. \A i \in 1..Len(seq) : i \in 1..Len(Append(seq, last))
  BY <1>1
<1>3. Len(seq) + 1 \in 1..Len(Append(seq, last))
  BY <1>1
<1> QED
  BY <1>1, <1>2, <1>3 DEF InSeq

LEMMA HistoryReplay == HistoryInv => NoReplay
BY DEF HistoryInv, BufferOK, QueueOrderOK, NoReplay

LEMMA HistoryInit == Init => HistoryInv
<1> SUFFICES ASSUME Init PROVE HistoryInv
  OBVIOUS
<1>1. EdgesOK
  BY HandlesFacts DEF Init, EdgesOK
<1>2. BufferOK /\ QueueOrderOK
  BY DEF Init, BufferOK, QueueOrderOK
<1>3. NoLostReadiness
  BY DEF Init, NoLostReadiness
<1> QED
  BY <1>1, <1>2, <1>3 DEF HistoryInv

(* The steps that neither move an event nor call a handler. *)
LEMMA HistorySame ==
  ASSUME HistoryInv,
         UNCHANGED <<events, queues, token, used, kready, edges, fetched, called>>
  PROVE  HistoryInv'
<1>1. EdgesOK' /\ BufferOK'
  BY DEF HistoryInv, EdgesOK, BufferOK
<1>2. QueueOrderOK'
  BY DEF HistoryInv, QueueOrderOK, Own
<1>3. NoLostReadiness'
  BY DEF HistoryInv, NoLostReadiness, Live, InSeq
<1> QED
  BY <1>1, <1>2, <1>3 DEF HistoryInv

LEMMA HistoryEdge ==
  ASSUME IInv, HistoryInv, NEW h \in Handles, Edge(h)
  PROVE  HistoryInv'
<1> USE DEF Edge
<1>1. EdgesOK'
  <2>1. \A g \in Handles : kready'[g] = IF g = h THEN edges + 1 ELSE kready[g]
    BY DEF IInv, TypeOK
  <2>2. \A g \in Handles : called[g] \in Nat /\ fetched[g] \in Nat /\ kready[g] \in Nat
    BY BoundsAssumption DEF IInv, TypeOK, Edges
  <2>3. edges \in Nat /\ edges' = edges + 1
    BY BoundsAssumption DEF IInv, TypeOK, Edges
  <2> QED
    BY <2>1, <2>2, <2>3 DEF HistoryInv, EdgesOK
<1>2. BufferOK' /\ QueueOrderOK'
  BY DEF HistoryInv, BufferOK, QueueOrderOK, Own
<1>3. NoLostReadiness'
  BY DEF HistoryInv, NoLostReadiness, Live, InSeq
<1> QED
  BY <1>1, <1>2, <1>3 DEF HistoryInv

LEMMA HistoryAdd ==
  ASSUME IInv, HistoryInv, NEW s \in Sources, NEW p, NEW t \in Tokens,
         NEW registered \in BOOLEAN, Add(s, p, t, registered)
  PROVE  HistoryInv'
<1> USE DEF Add, Register
<1>0. /\ s \in Handles /\ s \notin Known /\ used' = used \cup {s}
      /\ \A h \in Handles \ {s} : token'[h] = token[h]
      /\ UNCHANGED <<events, queues, kready, edges, fetched, called>>
  BY HandlesFacts DEF Known, IInv, TypeOK
<1>1. EdgesOK' /\ BufferOK'
  BY <1>0 DEF HistoryInv, EdgesOK, BufferOK
<1>2. QueueOrderOK'
  <2>1. \A q \in Queued : \A i \in 1..Len(queues[q]) : queues[q][i].src \in Handles \ {s}
    BY <1>0, QueuedEvents, EventFields DEF IInv, SourcesOK
  <2> QED
    BY <1>0, <2>1 DEF HistoryInv, QueueOrderOK, Own
<1>3. NoLostReadiness'
  <2>1. called[s] = fetched[s]
    BY DEF HistoryInv, EdgesOK
  <2> QED
    BY <1>0, <2>1 DEF HistoryInv, NoLostReadiness, Live, InSeq
<1> QED
  BY <1>1, <1>2, <1>3 DEF HistoryInv

LEMMA HistoryDrop ==
  ASSUME IInv, HistoryInv, NEW s \in Sources, NEW ok \in BOOLEAN, Drop(s, ok)
  PROVE  HistoryInv'
<1> USE DEF Drop, Deregister
<1>0. /\ token'[s] = NoToken
      /\ \A h \in Handles \ {s} : token'[h] = token[h]
      /\ \A h \in Handles : kready'[h] = kready[h] \/ kready'[h] = 0
      /\ UNCHANGED <<events, queues, used, edges, fetched, called>>
  BY HandlesFacts DEF IInv, TypeOK
<1>1. EdgesOK'
  <2>1. edges \in Nat
    BY BoundsAssumption DEF IInv, TypeOK, Edges
  <2> QED
    BY <1>0, <2>1 DEF HistoryInv, EdgesOK
<1>2. BufferOK'
  BY <1>0 DEF HistoryInv, BufferOK
<1>3. QueueOrderOK'
  <2>1. \A q \in Queued : \A i \in 1..Len(queues[q]) :
          queues[q][i].src \in Handles /\ queues[q][i].token # NoToken
    BY QueuedEvents, EventFields, Nulls DEF IInv
  <2> QED
    BY <1>0, <2>1 DEF HistoryInv, QueueOrderOK, Own
<1>4. NoLostReadiness'
  BY <1>0 DEF HistoryInv, NoLostReadiness, Live, InSeq
<1> QED
  BY <1>1, <1>2, <1>3, <1>4 DEF HistoryInv

LEMMA HistoryFetch ==
  ASSUME IInv, HistoryInv, PollFetch
  PROVE  HistoryInv'
<1>1. PICK n \in 1..EventsCap : \E order \in Injection(1..n, {h \in Handles : kready[h] # 0}) :
         /\ events' = [i \in 1..n |->
              [src |-> order[i], token |-> kreg[order[i]], ready |-> kready[order[i]]]]
         /\ kready' = [h \in Handles |-> IF h \in {order[i] : i \in 1..n} THEN 0 ELSE kready[h]]
         /\ fetched' = [h \in Handles |-> IF h \in {order[i] : i \in 1..n} THEN kready[h] ELSE fetched[h]]
  BY DEF PollFetch
<1>2. PICK order \in Injection(1..n, {h \in Handles : kready[h] # 0}) :
         /\ events' = [i \in 1..n |->
              [src |-> order[i], token |-> kreg[order[i]], ready |-> kready[order[i]]]]
         /\ kready' = [h \in Handles |-> IF h \in {order[i] : i \in 1..n} THEN 0 ELSE kready[h]]
         /\ fetched' = [h \in Handles |-> IF h \in {order[i] : i \in 1..n} THEN kready[h] ELSE fetched[h]]
  BY <1>1
<1> DEFINE got == {order[i] : i \in 1..n}
<1>3. /\ \A i \in 1..n : order[i] \in Handles /\ kready[order[i]] # 0
      /\ \A i, j \in 1..n : order[i] = order[j] => i = j
      /\ \A h \in got : h \in Handles /\ kready[h] # 0 /\ \E i \in 1..n : order[i] = h
  BY DEF Injection, IsInjective
<1>4. /\ n \in Nat /\ Len(events') = n
      /\ \A i \in 1..n : /\ events'[i].src = order[i] /\ events'[i].ready = kready[order[i]]
                         /\ events'[i].token = kreg[order[i]]
                         /\ order[i] \in got
  BY <1>2, BoundsAssumption
<1>5. /\ \A h \in Handles : kready'[h] = IF h \in got THEN 0 ELSE kready[h]
      /\ \A h \in Handles : fetched'[h] = IF h \in got THEN kready[h] ELSE fetched[h]
      /\ UNCHANGED <<queues, token, used, edges, called>> /\ events = <<>>
  BY <1>2 DEF PollFetch, IInv, PhaseOK
<1>6. \A h \in Handles : called[h] \in Nat /\ fetched[h] \in Nat /\ kready[h] \in Nat /\ edges \in Nat
  BY BoundsAssumption DEF IInv, TypeOK, Edges
<1>7. \A h \in Handles : h \in got => fetched[h] < kready[h]
  BY <1>3 DEF HistoryInv, EdgesOK
<1> HIDE DEF got
<1>8. EdgesOK'
  <2>1. \A h \in Handles :
          /\ called'[h] <= fetched'[h] /\ fetched'[h] <= edges' /\ kready'[h] <= edges'
          /\ kready'[h] # 0 => fetched'[h] < kready'[h]
    BY <1>5, <1>6, <1>7 DEF HistoryInv, EdgesOK
  <2>2. \A s \in Sources \ used : s \in Handles /\ s \notin got
    BY <1>3, HandlesFacts DEF IInv, KernelOK, SourcesOK
  <2> QED
    BY <1>5, <2>1, <2>2 DEF HistoryInv, EdgesOK
<1>9. BufferOK'
  <2>1. ASSUME NEW i \in 1..n
        PROVE  /\ events'[i].ready = fetched'[events'[i].src]
               /\ called'[events'[i].src] < events'[i].ready
    <3> DEFINE h == order[i]
    <3>1. events'[i].src = h /\ events'[i].ready = kready[h] /\ h \in got /\ h \in Handles
      BY <1>3, <1>4
    <3> HIDE DEF h
    <3>2. fetched'[h] = kready[h] /\ called'[h] = called[h]
      BY <1>5, <3>1
    <3>3. called[h] <= fetched[h] /\ fetched[h] < kready[h]
      BY <1>7, <3>1 DEF HistoryInv, EdgesOK
    <3>4. called[h] < kready[h]
      BY <1>6, <3>1, <3>3
    <3> QED
      BY <3>1, <3>2, <3>4
  <2> QED
    BY <1>3, <1>4, <2>1 DEF BufferOK
<1>10. QueueOrderOK'
  <2>1. ASSUME NEW q \in Queued, NEW i \in 1..Len(queues[q])
        PROVE  /\ queues[q][i].ready <= fetched'[queues[q][i].src]
               /\ \A k \in 1..n : events'[k].src = queues[q][i].src => queues[q][i].ready < events'[k].ready
    <3> DEFINE e == queues[q][i]
    <3>1. e.src \in Handles /\ e.ready \in Nat
      BY QueuedEvents, EventFields, BoundsAssumption DEF IInv, Edges
    <3>2. e.ready <= fetched[e.src]
      BY DEF HistoryInv, QueueOrderOK
    <3> HIDE DEF e
    <3>3. e.ready <= fetched'[e.src]
      BY <1>5, <1>6, <1>7, <3>1, <3>2
    <3>4. ASSUME NEW k \in 1..n, events'[k].src = e.src PROVE e.ready < events'[k].ready
      <4>1. e.src \in got /\ events'[k].ready = kready[e.src]
        BY <1>4, <3>4
      <4> QED
        BY <1>6, <1>7, <3>1, <3>2, <4>1
    <3> QED
      BY <3>3, <3>4 DEF e
  <2> QED
    BY <1>4, <1>5, <2>1 DEF HistoryInv, QueueOrderOK, Own
<1>11. NoLostReadiness'
  <2> SUFFICES ASSUME NEW h \in Handles, Live(h), called[h] # fetched'[h]
               PROVE  LET e == [src |-> h, token |-> token[h], ready |-> fetched'[h]] IN
                      InSeq(e, events') \/ \E q \in Queued : InSeq(e, queues[q])
    BY <1>5 DEF NoLostReadiness, Live, InSeq
  <2> DEFINE e == [src |-> h, token |-> token[h], ready |-> fetched'[h]]
  <2>1. CASE h \in got
    <3>1. PICK i \in 1..n : order[i] = h
      BY <1>3, <2>1
    <3>2. kreg[h] = token[h]
      BY HandlesFacts DEF IInv, TokensOwned, Live, Handles
    <3>3. events'[i] = e
      BY <1>2, <1>5, <2>1, <3>1, <3>2
    <3> QED
      BY <1>4, <3>3 DEF InSeq
  <2>2. CASE h \notin got
    <3>1. fetched'[h] = fetched[h]
      BY <1>5, <2>2
    <3>2. ~InSeq(e, events)
      BY <1>5 DEF InSeq
    <3> QED
      BY <3>1, <3>2 DEF HistoryInv, NoLostReadiness
  <2> QED
    BY <2>1, <2>2
<1> QED
  BY <1>8, <1>9, <1>10, <1>11 DEF HistoryInv

(* An event that belongs to its handle has a handler. *)
LEMMA OwnEntry ==
  ASSUME IInv, NEW ev \in Event, Own(ev)
  PROVE  token_map[ev.token] # Vacant /\ Live(ev.src)
BY EventFields, Nulls DEF IInv, TokensOwned, Own, Live, Handles

LEMMA HistoryDispatch ==
  ASSUME IInv, HistoryInv, Dispatch
  PROVE  HistoryInv'
<1> DEFINE ev == Head(events)
           entry == token_map[ev.token]
<1>0. /\ events \in Seq(Event) /\ events # <<>> /\ events' = Tail(events)
      /\ UNCHANGED <<token, used, kready, edges, fetched, max_pri>>
  BY DEF Dispatch, IInv, TypeOK
<1>1. /\ ev = events[1] /\ 1 \in 1..Len(events) /\ ev \in Event
      /\ \A i \in 1..Len(events') :
           events'[i] = events[i + 1] /\ i + 1 \in 1..Len(events) /\ i + 1 # 1
  BY <1>0
<1>2. /\ ev.src \in Handles /\ ev.token \in Tokens /\ ev.src \in Known
      /\ ev.ready = fetched[ev.src] /\ called[ev.src] < ev.ready
      /\ \A i \in 1..Len(events') : events'[i].src # ev.src
  BY <1>1, EventFields DEF IInv, SourcesOK, HistoryInv, BufferOK
<1>3. \A h \in Handles : called[h] \in Nat /\ fetched[h] \in Nat
  BY BoundsAssumption DEF IInv, TypeOK, Edges
<1>4. ASSUME NEW h \in Handles, Live(h), called[h] # fetched[h],
             [src |-> h, token |-> token[h], ready |-> fetched[h]] # ev
      PROVE  LET e == [src |-> h, token |-> token[h], ready |-> fetched[h]] IN
             InSeq(e, events') \/ \E q \in Queued : InSeq(e, queues[q])
  BY <1>0, <1>4, InTail DEF HistoryInv, NoLostReadiness
<1> HIDE DEF ev
<1>5. CASE ~Own(ev) /\ UNCHANGED <<queues, called>>
  <2>1. EdgesOK' /\ BufferOK'
    BY <1>0, <1>1, <1>5 DEF HistoryInv, EdgesOK, BufferOK
  <2>2. QueueOrderOK'
    <3>1. \A q \in Queued : \A i \in 1..Len(queues[q]) : \A k \in 1..Len(events') :
            events'[k].src = queues[q][i].src => queues[q][i].ready < events'[k].ready
      BY <1>1 DEF HistoryInv, QueueOrderOK
    <3> QED
      BY <1>0, <1>5, <3>1 DEF HistoryInv, QueueOrderOK, Own
  <2>3. NoLostReadiness'
    <3>1. \A h \in Handles : [src |-> h, token |-> token[h], ready |-> fetched[h]] # ev
      BY <1>5 DEF Own
    <3> QED
      BY <1>0, <1>4, <1>5, <3>1 DEF NoLostReadiness, Live, InSeq
  <2> QED
    BY <2>1, <2>2, <2>3 DEF HistoryInv
<1>6. CASE Own(ev) /\ entry.pri = max_pri /\ UNCHANGED queues
           /\ called' = [called EXCEPT ![ev.src] = ev.ready]
  <2>0. \A h \in Handles : called'[h] = IF h = ev.src THEN ev.ready ELSE called[h]
    BY <1>2, <1>6 DEF IInv, TypeOK
  <2>1. EdgesOK'
    <3>1. \A s \in Sources \ used : s \in Handles /\ s # ev.src
      BY <1>2, HandlesFacts DEF Known
    <3> QED
      BY <1>0, <1>2, <1>3, <2>0, <3>1 DEF HistoryInv, EdgesOK
  <2>2. BufferOK'
    <3>1. \A i \in 1..Len(events') : events'[i].src \in Handles
      BY <1>0, <1>1, EventFields
    <3> QED
      BY <1>0, <1>1, <1>2, <2>0, <3>1 DEF HistoryInv, BufferOK
  <2>3. QueueOrderOK'
    <3>1. ASSUME NEW q \in Queued, NEW i \in 1..Len(queues[q]), Own(queues[q][i])
          PROVE  queues[q][i].src # ev.src
      <4>1. queues[q] # <<>>
        BY <3>1
      <4>2. q < max_pri /\ token_map[queues[q][i].token].pri = q /\ q # max_pri
        BY <3>1, <4>1 DEF IInv, QueuesSound, TypeOK, Queued, Pri
      <4> QED
        BY <1>6, <3>1, <4>2 DEF Own
    <3>2. \A q \in Queued : \A i \in 1..Len(queues[q]) : queues[q][i].src \in Handles
      BY QueuedEvents, EventFields DEF IInv
    <3> QED
      BY <1>0, <1>1, <1>6, <2>0, <3>1, <3>2 DEF HistoryInv, QueueOrderOK, Own
  <2>4. NoLostReadiness'
    <3>1. \A h \in Handles : h # ev.src => [src |-> h, token |-> token[h], ready |-> fetched[h]] # ev
      OBVIOUS
    <3> QED
      BY <1>0, <1>2, <1>4, <1>6, <2>0, <3>1 DEF NoLostReadiness, Live, InSeq
  <2> QED
    BY <2>1, <2>2, <2>3, <2>4 DEF HistoryInv
<1>7. CASE entry.pri \in Queued /\ queues' = [queues EXCEPT ![entry.pri] = Append(@, ev)]
           /\ UNCHANGED called
  <2> DEFINE old == queues[entry.pri]
  <2>0. /\ old \in Seq(Event) /\ queues'[entry.pri] = Append(old, ev)
        /\ \A q \in Queued : q # entry.pri => queues'[q] = queues[q]
    BY <1>7 DEF IInv, TypeOK
  <2>1. /\ Len(old) \in Nat /\ Len(Append(old, ev)) = Len(old) + 1
        /\ \A i \in 1..Len(Append(old, ev)) :
             Append(old, ev)[i] = IF i = Len(old) + 1 THEN ev ELSE old[i]
    <3> HIDE DEF old
    <3> QED
      BY <1>1, <2>0, AppendFacts
  <2>2. ASSUME NEW q \in Queued, NEW i \in 1..Len(queues'[q])
        PROVE  \/ queues'[q][i] = ev /\ q = entry.pri /\ i = Len(queues[q]) + 1
               \/ i \in 1..Len(queues[q]) /\ queues'[q][i] = queues[q][i]
    <3>1. CASE q = entry.pri
      <4>1. queues'[q] = Append(old, ev) /\ queues[q] = old
        BY <2>0, <3>1
      <4> HIDE DEF old
      <4>2. i = Len(old) + 1 \/ i \in 1..Len(old)
        BY <2>1, <4>1
      <4> QED
        BY <2>1, <2>2, <3>1, <4>1, <4>2
    <3>2. CASE q # entry.pri
      BY <2>0, <3>2
    <3> QED
      BY <3>1, <3>2
  <2>3. EdgesOK' /\ BufferOK'
    BY <1>0, <1>1, <1>7 DEF HistoryInv, EdgesOK, BufferOK
  <2>4. QueueOrderOK'
    <3>1. ASSUME NEW q \in Queued, NEW i \in 1..Len(queues'[q])
          PROVE  /\ queues'[q][i].ready <= fetched[queues'[q][i].src]
                 /\ Own(queues'[q][i]) => called[queues'[q][i].src] < queues'[q][i].ready
                 /\ \A k \in 1..Len(events') : events'[k].src = queues'[q][i].src =>
                      queues'[q][i].ready < events'[k].ready
      <4>1. CASE queues'[q][i] = ev
        BY <1>2, <1>3, <4>1
      <4>2. CASE i \in 1..Len(queues[q]) /\ queues'[q][i] = queues[q][i]
        BY <1>1, <4>2 DEF HistoryInv, QueueOrderOK
      <4> QED
        BY <2>2, <4>1, <4>2
    <3>2. ASSUME NEW q \in Queued, NEW i \in 1..Len(queues'[q]), NEW j \in 1..Len(queues'[q]),
                 i < j, queues'[q][i].src = queues'[q][j].src
          PROVE  queues'[q][i].ready < queues'[q][j].ready
      <4>0. Len(queues[q]) \in Nat
        BY DEF IInv, TypeOK
      <4>1. CASE j \in 1..Len(queues[q]) /\ queues'[q][j] = queues[q][j]
        <5>1. i \in 1..Len(queues[q]) /\ queues'[q][i] = queues[q][i]
          BY <2>2, <3>2, <4>0, <4>1
        <5> QED
          BY <3>2, <4>1, <5>1 DEF HistoryInv, QueueOrderOK
      <4>2. CASE queues'[q][j] = ev /\ j = Len(queues[q]) + 1
        <5>1. i \in 1..Len(queues[q]) /\ queues'[q][i] = queues[q][i]
          BY <2>2, <3>2, <4>0, <4>2
        <5> QED
          BY <1>1, <3>2, <4>2, <5>1 DEF HistoryInv, QueueOrderOK
      <4> QED
        BY <2>2, <4>1, <4>2
    <3> QED
      BY <1>0, <1>7, <3>1, <3>2 DEF QueueOrderOK, Own
  <2>5. NoLostReadiness'
    <3> SUFFICES ASSUME NEW h \in Handles, Live(h), called[h] # fetched[h]
                 PROVE  LET e == [src |-> h, token |-> token[h], ready |-> fetched[h]] IN
                        InSeq(e, events') \/ \E q \in Queued : InSeq(e, queues'[q])
      BY <1>0, <1>7 DEF NoLostReadiness, Live, InSeq
    <3> DEFINE e == [src |-> h, token |-> token[h], ready |-> fetched[h]]
    <3>1. CASE e = ev
      <4>1. InSeq(ev, queues'[entry.pri])
        BY <1>1, <2>0, InAppend
      <4> QED
        BY <1>7, <3>1, <4>1
    <3>2. CASE e # ev
      <4>1. InSeq(e, events') \/ \E q \in Queued : InSeq(e, queues[q])
        BY <1>4, <3>2
      <4> HIDE DEF e
      <4>2. ASSUME NEW q \in Queued, InSeq(e, queues[q]) PROVE InSeq(e, queues'[q])
        <5>1. CASE q = entry.pri
          <6>1. InSeq(e, old)
            BY <4>2, <5>1
          <6> HIDE DEF old
          <6>2. InSeq(e, Append(old, ev))
            BY <1>1, <2>0, <6>1, InAppend
          <6> QED
            BY <2>0, <5>1, <6>2
        <5>2. CASE q # entry.pri
          BY <2>0, <4>2, <5>2
        <5> QED
          BY <5>1, <5>2
      <4> QED
        BY <4>1, <4>2 DEF e
    <3> QED
      BY <3>1, <3>2
  <2> QED
    BY <2>3, <2>4, <2>5 DEF HistoryInv
<1>8. Own(ev) => entry # Vacant
  BY <1>1, OwnEntry
<1>9. entry # Vacant /\ entry.pri # max_pri => entry.pri \in Queued
  BY <1>2, MaxPriAssumption DEF IInv, TypeOK, QueuesSound, Entry, Pri, Queued
<1> QED
  BY <1>5, <1>6, <1>7, <1>8, <1>9 DEF Dispatch, Forward, NoForward, Own, ev

LEMMA HistoryDrain ==
  ASSUME IInv, HistoryInv, Drain
  PROVE  HistoryInv'
<1> DEFINE ev == Head(queues[level])
<1>0. /\ level \in Queued /\ queues[level] \in Seq(Event) /\ queues[level] # <<>>
      /\ queues' = [queues EXCEPT ![level] = Tail(queues[level])] /\ events = <<>>
      /\ UNCHANGED <<events, token, used, kready, edges, fetched>>
  BY DEF Drain, Drained, IInv, TypeOK, PhaseOK
<1>1. /\ ev = queues[level][1] /\ 1 \in 1..Len(queues[level]) /\ ev \in Event
      /\ \A i \in 1..Len(Tail(queues[level])) :
           Tail(queues[level])[i] = queues[level][i + 1] /\ i + 1 \in 1..Len(queues[level])
  BY <1>0
<1> DEFINE off(q) == IF q = level THEN 1 ELSE 0
<1>2. /\ queues'[level] = Tail(queues[level])
      /\ \A q \in Queued : q # level => queues'[q] = queues[q]
  BY <1>0 DEF IInv, TypeOK
<1>3. ASSUME NEW q \in Queued, NEW i \in 1..Len(queues'[q])
      PROVE  i + off(q) \in 1..Len(queues[q]) /\ queues'[q][i] = queues[q][i + off(q)]
  <2>1. CASE q = level
    BY <1>1, <1>2, <2>1
  <2>2. CASE q # level
    <3>1. queues'[q] = queues[q] /\ i + 0 = i
      BY <1>2, <2>2
    <3> QED
      BY <2>2, <3>1
  <2> QED
    BY <2>1, <2>2
<1>4. /\ ev.src \in Handles /\ ev.token \in Tokens /\ ev.src \in Known
      /\ ev.ready <= fetched[ev.src] /\ (Own(ev) => called[ev.src] < ev.ready)
  BY <1>0, <1>1, EventFields DEF IInv, SourcesOK, HistoryInv, QueueOrderOK
<1>5. \A h \in Handles : called[h] \in Nat /\ fetched[h] \in Nat
  BY BoundsAssumption DEF IInv, TypeOK, Edges
<1>6. ASSUME NEW h \in Handles, Live(h), called[h] # fetched[h],
             [src |-> h, token |-> token[h], ready |-> fetched[h]] # ev
      PROVE  LET e == [src |-> h, token |-> token[h], ready |-> fetched[h]] IN
             InSeq(e, events') \/ \E q \in Queued : InSeq(e, queues'[q])
  <2> DEFINE e == [src |-> h, token |-> token[h], ready |-> fetched[h]]
  <2>1. PICK q \in Queued : InSeq(e, queues[q])
    BY <1>0, <1>6 DEF HistoryInv, NoLostReadiness, InSeq
  <2> HIDE DEF e
  <2>2. InSeq(e, queues'[q])
    BY <1>0, <1>2, <1>6, <2>1, InTail DEF e
  <2> QED
    BY <2>2 DEF e
<1> HIDE DEF ev
<1>7. ASSUME NEW q \in Queued, NEW i \in 1..Len(queues'[q]), NEW j \in 1..Len(queues'[q]),
             i < j, queues'[q][i].src = queues'[q][j].src
      PROVE  queues'[q][i].ready < queues'[q][j].ready
  <2>1. i + off(q) < j + off(q)
    BY <1>7
  <2> HIDE DEF off
  <2> QED
    BY <1>3, <1>7, <2>1 DEF HistoryInv, QueueOrderOK
<1>8. \A q \in Queued : \A i \in 1..Len(queues'[q]) :
        /\ queues'[q][i].ready <= fetched[queues'[q][i].src]
        /\ Own(queues'[q][i]) => called[queues'[q][i].src] < queues'[q][i].ready
        /\ queues'[q][i].src \in Handles
  <2> HIDE DEF off
  <2> QED
    BY <1>3, QueuedEvents, EventFields DEF IInv, HistoryInv, QueueOrderOK
<1>9. BufferOK' /\ \A k : k \notin 1..Len(events')
  BY <1>0 DEF BufferOK
<1>10. CASE ~Own(ev) /\ UNCHANGED called
  <2>1. EdgesOK'
    BY <1>0, <1>10 DEF HistoryInv, EdgesOK
  <2>2. QueueOrderOK'
    BY <1>0, <1>7, <1>8, <1>9, <1>10 DEF QueueOrderOK, Own
  <2>3. NoLostReadiness'
    <3>1. \A h \in Handles : [src |-> h, token |-> token[h], ready |-> fetched[h]] # ev
      BY <1>10 DEF Own
    <3> QED
      BY <1>0, <1>6, <1>10, <3>1 DEF NoLostReadiness, Live, InSeq
  <2> QED
    BY <1>9, <2>1, <2>2, <2>3 DEF HistoryInv
<1>11. CASE Own(ev) /\ called' = [called EXCEPT ![ev.src] = ev.ready]
  <2>0. \A h \in Handles : called'[h] = IF h = ev.src THEN ev.ready ELSE called[h]
    BY <1>4, <1>11 DEF IInv, TypeOK
  <2>1. EdgesOK'
    <3>1. \A s \in Sources \ used : s \in Handles /\ s # ev.src
      BY <1>4, HandlesFacts DEF Known
    <3> QED
      BY <1>0, <1>4, <1>5, <2>0, <3>1 DEF HistoryInv, EdgesOK
  <2>2. QueueOrderOK'
    <3>1. ASSUME NEW q \in Queued, NEW i \in 1..Len(queues'[q]), Own(queues'[q][i])
          PROVE  called'[queues'[q][i].src] < queues'[q][i].ready
      <4>1. CASE queues'[q][i].src = ev.src
        <5>1. queues'[q][i].token = ev.token
          BY <1>11, <3>1, <4>1 DEF Own
        <5>2. token_map[ev.token].pri = level
          BY <1>0, <1>1, <1>11 DEF IInv, QueuesSound
        <5>3. token_map[ev.token].pri = q
          <6> DEFINE j == i + off(q)
                     f == queues[q][j]
          <6>1. j \in 1..Len(queues[q]) /\ queues'[q][i] = f
            BY <1>3
          <6> HIDE DEF off, j
          <6>2. Own(f) => token_map[f.token].pri = q
            BY <6>1 DEF IInv, QueuesSound
          <6> HIDE DEF f
          <6>3. Own(f) /\ f.token = ev.token
            BY <3>1, <5>1, <6>1 DEF Own
          <6> QED
            BY <6>2, <6>3
        <5>4. q = level /\ queues'[q][i] = queues[level][i + 1] /\ i + 1 \in 1..Len(queues[level])
          BY <1>1, <1>2, <5>2, <5>3
        <5>5. 1 < i + 1
          OBVIOUS
        <5>6. queues[level][1].ready < queues[level][i + 1].ready
          BY <1>0, <1>1, <4>1, <5>4, <5>5 DEF HistoryInv, QueueOrderOK
        <5> QED
          BY <1>1, <1>4, <2>0, <4>1, <5>4, <5>6
      <4>2. CASE queues'[q][i].src # ev.src
        BY <1>8, <2>0, <3>1, <4>2
      <4> QED
        BY <4>1, <4>2
    <3> QED
      BY <1>0, <1>7, <1>8, <1>9, <3>1 DEF QueueOrderOK, Own
  <2>3. NoLostReadiness'
    <3>1. ASSUME NEW h \in Handles, Live(h), called'[h] # fetched[h]
          PROVE  called[h] # fetched[h] /\ [src |-> h, token |-> token[h], ready |-> fetched[h]] # ev
      <4>1. CASE h = ev.src
        <5>1. ev.ready # fetched[h] /\ called[h] < ev.ready /\ ev.ready <= fetched[h]
          BY <1>4, <1>11, <2>0, <3>1, <4>1
        <5>2. ev.ready \in Nat
          BY <1>1, EventFields, BoundsAssumption DEF Edges
        <5>3. called[h] # fetched[h]
          BY <1>5, <5>1, <5>2
        <5> QED
          BY <5>1, <5>3
      <4>2. CASE h # ev.src
        BY <2>0, <3>1, <4>2
      <4> QED
        BY <4>1, <4>2
    <3> QED
      BY <1>0, <1>6, <3>1 DEF NoLostReadiness, Live, InSeq
  <2> QED
    BY <1>9, <2>1, <2>2, <2>3 DEF HistoryInv
<1>12. Own(ev) => token_map[ev.token] # Vacant
  BY <1>1, OwnEntry
<1> QED
  BY <1>10, <1>11, <1>12 DEF Drain, Forward, NoForward, Own, ev

LEMMA HistoryNext ==
  ASSUME IInv, HistoryInv, [Next]_vars
  PROVE  HistoryInv'
<1>1. CASE \E h \in Handles : Edge(h)
  BY <1>1, HistoryEdge
<1>2. CASE \E s \in Sources, p \in 0..(MAX_PRI + 1), t \in Tokens, registered \in BOOLEAN :
             Add(s, p, t, registered)
  BY <1>2, HistoryAdd
<1>3. CASE \E s \in Sources, ok \in BOOLEAN : Drop(s, ok)
  BY <1>3, HistoryDrop
<1>4. CASE UNCHANGED <<events, queues, token, used, kready, edges, fetched, called>>
  BY <1>4, HistorySame
<1> QED
  BY <1>1, <1>2, <1>3, <1>4, HistoryFetch, HistoryDispatch, HistoryDrain
  DEF Next, vars, AppStep, SetWakeFwd, PollCall, PollTimeout, PollError, PollStep,
      DispatchEnd, Scan, DrainEnd, ScanEnd

(* HistoryInv holds in every reachable state. *)
THEOREM HistoryInvariance == Spec => []HistoryInv
BY HistoryInit, HistoryNext, Invariance, PTL DEF Spec

(* No readiness that mio reported for a live source is lost between the buffer,
   the queues and the handler, whatever is added, dropped or queued meanwhile. *)
THEOREM ReadinessKept == Spec => []NoLostReadiness
<1>1. HistoryInv => NoLostReadiness
  BY DEF HistoryInv
<1> QED
  BY <1>1, HistoryInvariance, PTL

(* No handler is told of an edge twice, or of an older one after a newer. *)
THEOREM NeverReplayed == Spec => []NoReplay
BY HistoryReplay, HistoryInvariance, PTL

-----------------------------------------------------------------------------
(***************************************************************************)
(* The number of queued events: CountInv, which is inductive together with *)
(* IInv.  While poll scans the levels, n_queued counts those it has left   *)
(* behind.                                                                 *)
(***************************************************************************)

CountInv ==
  /\ IsFiniteSet(Places(0))
  /\ NQueuedExact
  /\ pc = "scan" => n_queued = Cardinality(Places(level + 1))

LEMMA PlacesOf ==
  ASSUME NEW lo
  PROVE  \A x : x \in Places(lo) <=>
           \E q \in Queued : q >= lo /\ \E i \in 1..Len(queues[q]) : x = <<q, i>>
BY DEF Places

LEMMA PlacesEmpty ==
  ASSUME TypeOK, NEW lo, ~Waiting(lo)
  PROVE  Places(lo) = {}
<1>1. \A q \in Queued : q >= lo => Len(queues[q]) = 0
  BY DEF Waiting
<1> QED
  BY <1>1, PlacesOf

LEMMA CountInit == Init => CountInv
<1> SUFFICES ASSUME Init PROVE CountInv
  OBVIOUS
<1>1. \A q \in Queued : Len(queues[q]) = 0
  BY DEF Init
<1>2. Places(0) = {}
  BY <1>1, PlacesOf
<1> QED
  BY <1>2, FS_EmptySet DEF Init, CountInv, NQueuedExact

LEMMA CountDispatch ==
  ASSUME IInv, CountInv, Dispatch
  PROVE  CountInv'
<1> DEFINE ev == Head(events)
           pri == token_map[ev.token].pri
<1>1. CASE UNCHANGED <<queues, n_queued>>
  BY <1>1 DEF Dispatch, CountInv, NQueuedExact, Places
<1>2. CASE /\ token_map[ev.token] # Vacant /\ pri # max_pri
           /\ queues' = [queues EXCEPT ![pri] = Append(@, ev)]
           /\ n_queued' = n_queued + 1
  <2>0. events \in Seq(Event) /\ ev \in Event
    <3>1. events \in Seq(Event) /\ events # <<>>
      BY DEF Dispatch, IInv, TypeOK
    <3> QED
      BY <3>1
  <2>1. pri \in Queued
    BY <1>2, <2>0, EventFields, MaxPriAssumption DEF IInv, TypeOK, QueuesSound, Entry, Pri, Queued
  <2>2. /\ queues[pri] \in Seq(Event) /\ queues'[pri] = Append(queues[pri], ev)
        /\ \A q \in Queued : q # pri => queues'[q] = queues[q]
    BY <1>2, <2>1 DEF IInv, TypeOK
  <2> HIDE DEF pri
  <2> DEFINE n == Len(queues[pri])
  <2>3. n \in Nat /\ Len(queues'[pri]) = n + 1 /\ 1..(n + 1) = 1..n \cup {n + 1} /\ n + 1 \notin 1..n
    BY <2>0, <2>2
  <2>4. pri >= 0 /\ \A q \in Queued : q >= 0
    BY <2>1 DEF Queued
  <2>5. Places(0)' = Places(0) \cup {<<pri, n + 1>>} /\ <<pri, n + 1>> \notin Places(0)
    <3>1. \A x : x \in Places(0)' <=>
            \E q \in Queued : q >= 0 /\ \E i \in 1..Len(queues'[q]) : x = <<q, i>>
      BY DEF Places
    <3> HIDE DEF n
    <3>2. <<pri, n + 1>> \notin Places(0)
      BY <2>3, PlacesOf DEF n
    <3>3. ASSUME NEW x \in Places(0)' PROVE x \in Places(0) \cup {<<pri, n + 1>>}
      <4>1. PICK q \in Queued : \E i \in 1..Len(queues'[q]) : x = <<q, i>>
        BY <3>1, <3>3
      <4>2. PICK i \in 1..Len(queues'[q]) : x = <<q, i>>
        BY <4>1
      <4>3. (q = pri /\ i = n + 1) \/ i \in 1..Len(queues[q])
        BY <2>2, <2>3 DEF n
      <4> QED
        BY <2>4, <4>2, <4>3, PlacesOf
    <3>4. ASSUME NEW x \in Places(0) PROVE x \in Places(0)'
      <4>1. PICK q \in Queued : \E i \in 1..Len(queues[q]) : x = <<q, i>>
        BY <3>4, PlacesOf
      <4>2. PICK i \in 1..Len(queues[q]) : x = <<q, i>>
        BY <4>1
      <4>3. i \in 1..Len(queues'[q])
        BY <2>2, <2>3 DEF n
      <4> QED
        BY <2>4, <3>1, <4>2, <4>3
    <3>5. <<pri, n + 1>> \in Places(0)'
      BY <2>1, <2>3, <2>4, <3>1
    <3> QED
      BY <3>2, <3>3, <3>4, <3>5
  <2> HIDE DEF n
  <2>6. IsFiniteSet(Places(0)) /\ n_queued = Cardinality(Places(0))
    BY DEF CountInv, NQueuedExact, Dispatch
  <2>7. IsFiniteSet(Places(0)') /\ Cardinality(Places(0)') = n_queued + 1
    BY <2>5, <2>6, FS_AddElement
  <2> QED
    BY <1>2, <2>7 DEF CountInv, NQueuedExact, Dispatch
<1> QED
  BY <1>1, <1>2 DEF Dispatch

LEMMA CountScan ==
  ASSUME IInv, CountInv, Scan
  PROVE  CountInv'
<1>0. /\ pc = "scan" /\ level \in Queued /\ UNCHANGED queues
      /\ n_queued \in Nat /\ Len(queues[level]) \in Nat
      /\ n_queued = Cardinality(Places(level + 1)) /\ IsFiniteSet(Places(0))
  BY MaxPriAssumption DEF Scan, IInv, TypeOK, Queued, CountInv
<1>1. Places(0)' = Places(0) /\ IsFiniteSet(Places(0)')
  BY <1>0 DEF Places
<1>2. Places(level) = Places(level + 1) \cup ({level} \X (1..Len(queues[level])))
  <2>1. \A q \in Queued : q >= level <=> q >= level + 1 \/ q = level
    BY <1>0 DEF Queued
  <2> QED
    BY <1>0, <2>1 DEF Places
<1>3. Places(level + 1) \cap ({level} \X (1..Len(queues[level]))) = {}
  <2>1. ~(level >= level + 1)
    BY <1>0 DEF Queued
  <2> QED
    BY <2>1, PlacesOf
<1>4. Cardinality(Places(level)) = n_queued + Len(queues[level])
  <2>1. IsFiniteSet(Places(level + 1))
    <3>1. Places(level + 1) \subseteq Places(0)
      BY PlacesOf DEF Queued
    <3> QED
      BY <1>0, <3>1, FS_Subset
  <2>2. IsFiniteSet({level}) /\ Cardinality({level}) = 1
    BY FS_Singleton
  <2>3. IsFiniteSet(1..Len(queues[level])) /\ Cardinality(1..Len(queues[level])) = Len(queues[level])
    <3> DEFINE n == Len(queues[level])
    <3>1. n \in Nat /\ n \in Int /\ n - 1 + 1 = n /\ (1 > n => n = 0)
      BY <1>0
    <3> HIDE DEF n
    <3>2. IsFiniteSet(1..n) /\ Cardinality(1..n) = IF 1 > n THEN 0 ELSE n - 1 + 1
      BY <3>1, FS_Interval
    <3>3. IsFiniteSet(1..n) /\ Cardinality(1..n) = n
      BY <3>1, <3>2
    <3> QED
      BY <3>3 DEF n
  <2>4. /\ IsFiniteSet({level} \X (1..Len(queues[level])))
        /\ Cardinality({level} \X (1..Len(queues[level]))) = 1 * Len(queues[level])
    <3> DEFINE A == {level}
               B == 1..Len(queues[level])
    <3>1. IsFiniteSet(A) /\ IsFiniteSet(B) /\ Cardinality(A) = 1 /\ Cardinality(B) = Len(queues[level])
      BY <2>2, <2>3
    <3> HIDE DEF A, B
    <3>2. IsFiniteSet(A \X B) /\ Cardinality(A \X B) = Cardinality(A) * Cardinality(B)
      BY <3>1, FS_Product
    <3>3. IsFiniteSet(A \X B) /\ Cardinality(A \X B) = 1 * Len(queues[level])
      BY <3>1, <3>2
    <3> QED
      BY <3>3 DEF A, B
  <2>5. Cardinality({}) = 0
    BY FS_EmptySet
  <2>6. Cardinality(Places(level)) =
          Cardinality(Places(level + 1)) + Cardinality({level} \X (1..Len(queues[level]))) - 0
    BY <1>2, <1>3, <2>1, <2>4, <2>5, FS_Union
  <2> QED
    BY <1>0, <2>4, <2>6
<1>5. CASE pc' = "drain"
  BY <1>1, <1>5 DEF CountInv, NQueuedExact
<1>6. CASE pc' = "scan" /\ level' = level - 1 /\ n_queued' = n_queued + Len(queues[level])
  <2>1. level' + 1 = level
    BY <1>0, <1>6 DEF Queued
  <2>2. Places(level + 1)' = Places(level)
    BY <1>0, <2>1 DEF Places
  <2> QED
    BY <1>1, <1>4, <1>6, <2>2 DEF CountInv, NQueuedExact
<1>7. queues[level] = <<>> \/ level \in priorities
  BY <1>0 DEF IInv, QueuesSound
<1>8. queues[level] = <<>> => n_queued = n_queued + Len(queues[level])
  BY <1>0
<1> QED
  BY <1>0, <1>5, <1>6, <1>7, <1>8 DEF Scan

LEMMA CountDrain ==
  ASSUME IInv, CountInv, Drain
  PROVE  CountInv'
<1>0. /\ pc' = "drain" /\ level \in Queued
      /\ queues' = [queues EXCEPT ![level] = Tail(queues[level])]
      /\ queues[level] \in Seq(Event) /\ queues[level] # <<>>
  BY DEF Drain, Drained, IInv, TypeOK, PhaseOK
<1>1. \A q \in Queued : \A i \in 1..Len(queues'[q]) : i \in 1..Len(queues[q])
  <2>1. \A i \in 1..Len(Tail(queues[level])) : i \in 1..Len(queues[level])
    BY <1>0
  <2> QED
    BY <1>0, <2>1 DEF IInv, TypeOK
<1>2. Places(0)' \subseteq Places(0)
  BY <1>1 DEF Places
<1>3. IsFiniteSet(Places(0)')
  BY <1>2, FS_Subset DEF CountInv
<1> QED
  BY <1>0, <1>3 DEF CountInv, NQueuedExact

LEMMA CountNext ==
  ASSUME IInv, CountInv, [Next]_vars
  PROVE  CountInv'
<1>1. CASE /\ pc \in {"idle", "wait", "dispatch"} /\ pc' \in {"idle", "wait", "dispatch"}
           /\ UNCHANGED <<queues, n_queued>>
  BY <1>1 DEF CountInv, NQueuedExact, Places
<1>2. CASE UNCHANGED <<queues, n_queued, pc, level>>
  BY <1>2 DEF CountInv, NQueuedExact, Places
<1>3. CASE DispatchEnd
  <2>1. CASE ScanStart /\ UNCHANGED <<queues, max_pri>>
    <3>1. max_pri \in Pri /\ level' + 1 = max_pri
      BY <2>1 DEF ScanStart, IInv, TypeOK, Pri
    <3>2. Places(max_pri) = {}
      BY TopEmpty, PlacesEmpty DEF IInv
    <3>3. Places(level + 1)' = {} /\ Places(0)' = Places(0)
      BY <2>1, <3>1, <3>2 DEF Places
    <3> QED
      BY <2>1, <3>3, FS_EmptySet DEF ScanStart, CountInv, NQueuedExact
  <2> QED
    BY <1>1, <1>3, <2>1 DEF DispatchEnd, ReturnOk, Return
<1>4. CASE DrainEnd
  <2>1. pc = "drain" /\ level \in Queued /\ n_queued = 0 /\ ~Waiting(level)
    BY <1>4 DEF DrainEnd, IInv, PhaseOK, Waiting, Queued
  <2>2. level' + 1 = level
    BY <1>4, <2>1 DEF DrainEnd, Queued
  <2>3. Places(level) = {}
    BY <2>1, PlacesEmpty DEF IInv
  <2>4. Places(level + 1)' = {} /\ Places(0)' = Places(0)
    BY <1>4, <2>2, <2>3 DEF Places, DrainEnd
  <2> QED
    BY <1>4, <2>1, <2>4, FS_EmptySet DEF DrainEnd, CountInv, NQueuedExact
<1>5. CASE ScanEnd
  <2>1. level + 1 = 0 /\ pc = "scan" /\ pc' = "idle" /\ UNCHANGED <<queues, n_queued>>
    BY <1>5 DEF ScanEnd, ReturnOk, Return, IInv, TypeOK
  <2>2. Places(0)' = Places(0) /\ Places(level + 1) = Places(0)
    BY <2>1 DEF Places
  <2> QED
    BY <2>1, <2>2 DEF CountInv, NQueuedExact
<1>6. CASE Dispatch \/ Scan \/ Drain
  BY <1>6, CountDispatch, CountScan, CountDrain
<1>7. CASE \/ \E h \in Handles : Edge(h)
           \/ AppStep \/ UNCHANGED vars
  BY <1>2, <1>7 DEF Edge, AppStep, Add, Drop, SetWakeFwd, vars
<1>8. CASE PollFetch \/ PollTimeout \/ PollError \/ \E mayBlock \in BOOLEAN : PollCall(mayBlock)
  BY <1>1, <1>8 DEF PollFetch, PollTimeout, PollError, PollCall, Return
<1> QED
  BY <1>3, <1>4, <1>5, <1>6, <1>7, <1>8 DEF Next, PollStep

(* n_queued is the number of queued events whenever poll reads it, although it
   is counted anew on the way: it cannot drift. *)
THEOREM CountExact == Spec => []NQueuedExact
<1>1. CountInv => NQueuedExact
  BY DEF CountInv
<1> QED
  BY <1>1, CountInit, CountNext, Invariance, PTL DEF Spec

-----------------------------------------------------------------------------
(* The two promises of the documentation that the code does not keep in every
   case (runs stale_token and orphan_token), and what it takes to keep them. *)

(* A call of add that returns an error is the only way to an orphan. *)
RegistrationWorks == \A s \in used' \ used : token'[s] # NoToken

LEMMA OrphanNext ==
  ASSUME IInv, NoOrphanToken, [Next]_vars, [RegistrationWorks]_vars
  PROVE  NoOrphanToken'
<1>1. CASE UNCHANGED <<token_map, token>>
  BY <1>1 DEF NoOrphanToken
<1>2. ASSUME NEW s \in Sources, NEW p \in 0..(MAX_PRI + 1), NEW t \in Tokens,
             NEW registered \in BOOLEAN, Add(s, p, t, registered)
      PROVE  NoOrphanToken'
  <2>1. /\ s \in Handles /\ s \notin used /\ used' = used \cup {s} /\ token[s] = NoToken
        /\ \A u \in Tokens \ {t} : token_map'[u] = token_map[u]
    BY <1>2, HandlesFacts DEF Add, IInv, TypeOK, SourcesOK
  <2>2. token'[s] # NoToken
    BY <2>1 DEF RegistrationWorks, vars
  <2>3. token' = [token EXCEPT ![s] = t]
    BY <1>2, <2>1, <2>2 DEF Add, Register
  <2>4. token'[s] = t /\ \A u \in Sources \ {s} : token'[u] = token[u]
    BY <2>1, <2>3, HandlesFacts DEF IInv, TypeOK
  <2> QED
    BY <2>1, <2>4, Nulls DEF NoOrphanToken
<1>3. ASSUME NEW s \in Sources, NEW ok \in BOOLEAN, Drop(s, ok)
      PROVE  NoOrphanToken'
  <2>1. /\ s \in Handles /\ token[s] \in Tokens /\ token_map'[token[s]] = Vacant
        /\ \A u \in Tokens \ {token[s]} : token_map'[u] = token_map[u]
        /\ \A u \in Sources \ {s} : token'[u] = token[u]
    BY <1>3, HandlesFacts DEF Drop, IInv, TypeOK
  <2> QED
    BY <2>1 DEF NoOrphanToken
<1>4. CASE SetWakeFwd
  BY <1>4 DEF SetWakeFwd, NoOrphanToken, IInv, TypeOK
<1> QED
  BY <1>1, <1>2, <1>3, <1>4
  DEF Next, AppStep, Edge, PollCall, PollFetch, PollTimeout, PollError, PollStep, Dispatch, DispatchEnd,
      Scan, Drain, DrainEnd, ScanEnd, vars

(* As long as mio accepts every registration, drop handlers free every token:
   nothing else than the failure of register() in Control::add orphans one. *)
THEOREM TokensCleanedUp == Spec /\ [][RegistrationWorks]_vars => []NoOrphanToken
<1>1. Init => NoOrphanToken
  BY TokensAssumption DEF Init, NoOrphanToken
<1> QED
  BY <1>1, OrphanNext, Invariance, PTL DEF Spec

(* slab gives away no key under which an event is still queued. *)
KeysRest ==
  \A t \in Tokens : token_map[t] = Vacant /\ token_map'[t] # Vacant =>
    \A q \in Queued : \A i \in 1..Len(queues[q]) : queues[q][i].token # t

(* Then an event is in the queue of whatever handler its token leads to. *)
QueuedRight ==
  \A q \in Queued : \A i \in 1..Len(queues[q]) :
    LET entry == token_map[queues[q][i].token] IN entry # Vacant => entry.pri = q

LEMMA RightNext ==
  ASSUME IInv, QueuedRight, [Next]_vars, [KeysRest]_vars
  PROVE  QueuedRight'
<1>0. \A q \in Queued : \A i \in 1..Len(queues[q]) : queues[q][i].token \in Tokens
  BY QueuedEvents, EventFields DEF IInv
<1>1. CASE UNCHANGED <<token_map, queues>>
  BY <1>1 DEF QueuedRight
<1>2. CASE AppStep
  <2>1. UNCHANGED queues
    BY <1>2 DEF AppStep, Add, Drop, SetWakeFwd
  <2>2. ASSUME NEW u \in Tokens, token_map[u] # Vacant, token_map'[u] # Vacant
        PROVE  token_map'[u].pri = token_map[u].pri
    BY <1>2, <2>2, TokensAssumption DEF AppStep, Add, Drop, SetWakeFwd, IInv, TypeOK, Entry
  <2>3. ASSUME NEW u \in Tokens, token_map[u] = Vacant, token_map'[u] # Vacant
        PROVE  \A q \in Queued : \A i \in 1..Len(queues[q]) : queues[q][i].token # u
    BY <2>3 DEF KeysRest, vars
  <2> QED
    BY <1>0, <2>1, <2>2, <2>3 DEF QueuedRight
<1>3. CASE Dispatch
  <2> DEFINE ev == Head(events)
             entry == token_map[ev.token]
  <2>1. CASE UNCHANGED <<queues, token_map>>
    BY <1>1, <2>1
  <2>2. CASE /\ entry # Vacant /\ entry.pri # max_pri /\ UNCHANGED token_map
             /\ queues' = [queues EXCEPT ![entry.pri] = Append(@, ev)]
    <3>1. ev \in Event
      <4>1. events # <<>> /\ events \in Seq(Event)
        BY <1>3 DEF Dispatch, IInv, TypeOK
      <4> QED
        BY <4>1
    <3>2. entry.pri \in Queued
      <4>1. ev.token \in Tokens /\ entry \in Entry
        BY <2>2, <3>1, EventFields DEF IInv, TypeOK
      <4>2. entry.pri \in Pri /\ max_pri \in Pri /\ entry.pri <= max_pri
        BY <2>2, <4>1 DEF IInv, TypeOK, QueuesSound, Entry
      <4> QED
        BY <2>2, <4>2, MaxPriAssumption DEF Pri, Queued
    <3>3. queues \in [Queued -> Seq(Event)]
      BY DEF IInv, TypeOK
    <3> DEFINE old == queues[entry.pri]
               new == Append(old, ev)
    <3>4. old \in Seq(Event) /\ queues'[entry.pri] = new
          /\ \A q \in Queued \ {entry.pri} : queues'[q] = queues[q]
      BY <2>2, <3>2, <3>3
    <3>5. \A i \in 1..Len(new) : new[i] = ev \/ (i \in 1..Len(old) /\ new[i] = old[i])
      <4> HIDE DEF ev, old
      <4> QED
        BY <3>1, <3>4, AppendFacts
    <3>6. ASSUME NEW q \in Queued, NEW i \in 1..Len(queues'[q]), token_map'[queues'[q][i].token] # Vacant
          PROVE  token_map'[queues'[q][i].token].pri = q
      <4>1. CASE q = entry.pri
        <5>1. queues'[q][i] = ev \/ (i \in 1..Len(queues[q]) /\ queues'[q][i] = queues[q][i])
          BY <3>4, <3>5, <3>6, <4>1
        <5> QED
          BY <2>2, <3>6, <4>1, <5>1 DEF QueuedRight
      <4>2. CASE q # entry.pri
        BY <2>2, <3>4, <3>6, <4>2 DEF QueuedRight
      <4> QED
        BY <4>1, <4>2
    <3> QED
      BY <3>6 DEF QueuedRight
  <2> QED
    BY <1>3, <2>1, <2>2 DEF Dispatch
<1>4. CASE Drain
  <2>1. /\ level \in Queued /\ queues[level] \in Seq(Event) /\ queues[level] # <<>>
        /\ queues'[level] = Tail(queues[level]) /\ UNCHANGED token_map
        /\ \A q \in Queued \ {level} : queues'[q] = queues[q]
    BY <1>4 DEF Drain, Drained, IInv, TypeOK, PhaseOK
  <2>2. \A i \in 1..Len(queues'[level]) :
          queues'[level][i] = queues[level][i + 1] /\ i + 1 \in 1..Len(queues[level])
    BY <2>1, TailFacts
  <2>3. ASSUME NEW q \in Queued, NEW i \in 1..Len(queues'[q]), token_map'[queues'[q][i].token] # Vacant
        PROVE  token_map'[queues'[q][i].token].pri = q
    <3>1. CASE q = level
      <4>1. i + 1 \in 1..Len(queues[q]) /\ queues'[q][i] = queues[q][i + 1]
        BY <2>2, <2>3, <3>1
      <4> QED
        BY <2>1, <2>3, <4>1 DEF QueuedRight
    <3>2. CASE q # level
      BY <2>1, <2>3, <3>2 DEF QueuedRight
    <3> QED
      BY <3>1, <3>2
  <2> QED
    BY <2>3 DEF QueuedRight
<1> QED
  BY <1>1, <1>2, <1>3, <1>4
  DEF Next, Edge, PollCall, PollFetch, PollTimeout, PollError, PollStep, DispatchEnd,
      Scan, DrainEnd, ScanEnd, vars

(* As long as no key is given away while an event is queued under it, a handler
   of a lower priority waits: the reuse of a key by slab is the only thing that
   lets poll run a handler out of turn. *)
THEOREM PriorityKept == Spec /\ [][KeysRest]_vars => []LowerPriorityWaits
<1>1. Init => QueuedRight
  BY DEF Init, QueuedRight
<1>2. IInv /\ QueuedRight => LowerPriorityWaits
  <2> SUFFICES ASSUME IInv, QueuedRight, pc = "drain", queues[level] # <<>>,
                      token_map[Head(queues[level]).token] # Vacant,
                      NEW q \in Queued, NEW i \in 1..Len(queues[q]), Own(queues[q][i])
               PROVE  token_map[queues[q][i].token].pri <= token_map[Head(queues[level]).token].pri
    BY DEF LowerPriorityWaits
  <2>1. level \in Queued /\ queues[level] \in Seq(Event) /\ queues[q] \in Seq(Event) /\ ~Waiting(level + 1)
    BY DEF IInv, TypeOK, PhaseOK
  <2>2. token_map[Head(queues[level]).token].pri = level
    BY <2>1, TailFacts DEF QueuedRight
  <2>3. token_map[queues[q][i].token].pri = q
    BY DEF IInv, QueuesSound
  <2>4. queues[q] # <<>>
    BY <2>1
  <2>5. q <= level
    BY <2>1, <2>4 DEF Waiting, Queued
  <2> QED
    BY <2>2, <2>3, <2>5
<1> QED
  BY <1>1, <1>2, RightNext, Invariance, PTL DEF Spec

(* The handlers one call of poll runs, for stale events too *)
LevelOK ==
  /\ \A r \in ran : \A o \in ran : r.pri = o.pri
  /\ pc = "dispatch" => \A r \in ran : r.pri = max_pri
  /\ pc = "drain" => \A r \in ran : r.pri = level

LEMMA LevelNext ==
  ASSUME IInv, QueuedRight, LevelOK, [Next]_vars
  PROVE  LevelOK'
<1>1. CASE UNCHANGED <<ran, pc, max_pri, level>> \/ (UNCHANGED ran /\ pc' \in {"idle", "scan"})
  BY <1>1 DEF LevelOK
<1>2. CASE ran' = {}
  BY <1>2 DEF LevelOK
<1>3. CASE PollFetch \/ PollTimeout
  BY <1>2, <1>3 DEF PollFetch, PollTimeout, IInv, PhaseOK
<1>4. CASE Dispatch
  <2> DEFINE ev == Head(events)
             entry == token_map[ev.token]
  <2>1. UNCHANGED <<pc, max_pri, level>> /\ pc = "dispatch"
    BY <1>4 DEF Dispatch, pollVars
  <2>2. CASE NoForward
    BY <1>1, <2>1, <2>2 DEF NoForward
  <2>3. CASE entry.pri = max_pri /\ Forward(ev, entry)
    <3>1. ran' = ran \cup {[pri |-> max_pri, own |-> Own(ev)]}
      BY <2>3 DEF Forward
    <3>2. \A r \in ran' : r.pri = max_pri
      BY <2>1, <3>1 DEF LevelOK
    <3> QED
      BY <2>1, <3>2 DEF LevelOK
  <2> QED
    BY <1>4, <2>2, <2>3 DEF Dispatch
<1>5. CASE Scan
  <2>1. CASE pc' = "drain"
    BY <1>2, <1>5, <2>1 DEF Scan, MayDrain, IInv, PhaseOK
  <2>2. CASE pc' # "drain"
    BY <1>1, <1>5, <2>2 DEF Scan
  <2> QED
    BY <2>1, <2>2
<1>6. CASE Drain
  <2> DEFINE ev == Head(queues[level])
             entry == token_map[ev.token]
  <2>1. CASE entry # Vacant /\ Forward(ev, entry)
    <3>1. level \in Queued /\ queues[level] \in Seq(Event) /\ queues[level] # <<>>
      BY <1>6 DEF Drain, IInv, TypeOK, PhaseOK
    <3>2. entry.pri = level
      BY <2>1, <3>1, TailFacts DEF QueuedRight
    <3> QED
      BY <1>6, <2>1, <3>2 DEF Drain, Forward, LevelOK
  <2>2. CASE NoForward
    BY <1>1, <1>6, <2>2 DEF Drain, NoForward
  <2> QED
    BY <1>6, <2>1, <2>2 DEF Drain
<1> QED
  BY <1>1, <1>2, <1>3, <1>4, <1>5, <1>6
  DEF Next, AppStep, Add, Drop, SetWakeFwd, Edge, PollCall, PollError, PollStep, DispatchEnd,
      ScanStart, DrainEnd, ScanEnd, ReturnOk, Return, vars

(* Under the same condition a call of poll runs handlers of one priority only,
   with no exception for events that a dropped source left behind. *)
THEOREM OneLevelForAll ==
  Spec /\ [][KeysRest]_vars => [](\A r \in ran : \A o \in ran : r.pri = o.pri)
<1>1. Init => QueuedRight /\ LevelOK
  BY DEF Init, QueuedRight, LevelOK
<1>2. LevelOK => \A r \in ran : \A o \in ran : r.pri = o.pri
  BY DEF LevelOK
<1>3. IInv /\ QueuedRight /\ LevelOK /\ [Next]_vars => LevelOK'
  BY LevelNext
<1> QED
  BY <1>1, <1>2, <1>3, RightNext, Invariance, PTL DEF Spec
=============================================================================
