# Verification of stakker_mio

`stakker_mio` joins the `mio` polling library to the `Stakker` actor runtime.
This directory holds TLA+ models of its components, TLC configurations that
check them on small instances, and TLAPS proofs for all instances. Paths such
as `miopoll.rs:277` refer to `src/src/`, unless they start with `examples/`.

## 1. Inventory

| Component | State | Operations | Interacts with |
|---|---|---|---|
| `MioPoll` / `Control` (`miopoll.rs`) | slab of entries (priority, handler), ten queues, `n_queued`, `max_pri`, bitmap `priorities`, mio `Events`, `errors` | `new`, `add`, `poll`, `set_wake_fwd`, `waker` | called by actors and by the main loop; calls handlers (`Fwd`), which defer calls into Stakker |
| `MioSource` (`miopoll.rs`) | token, source, reference to `Control` | created by `add`; its drop deregisters the source and frees the token | `Control::del` |
| `retry` (`miopoll.rs`) | none | repeats a call on EINTR | every mio call of `Control` |
| Waker (`miopoll.rs`) | token 0, wake handler | poll-waker closure, `waker()`, default handler `poll_wake` | other threads |
| `Ready` (`miopoll.rs`) | a `u16` of flags | `new`, predicates, `Debug` | argument of every handler |
| Main loop (docs of `poll`, `examples/echo_server.rs`, `test/mod.rs`) | `idle_pending`, `io_pending`, `activity` | run, poll, run, ... | `MioPoll::poll`, `Stakker::run`, `next_wait_max` |
| `UdpQueue`, `UdpServerQueue` | output queue, socket | `init`, `deinit`, `push`, `flush`, `read`, `read_to_vec` | a `MioSource<UdpSocket>`; an actor that flushes and reads on events |
| `TcpStreamBuf` | `out`, `out_eof`, `inp`, `rd`, `wr`, `inp_eof`, flags, stream | `init`, `deinit`, `set_nodelay`, `pause_writes`, `flush`, `inp_makespace`, `read`, `exchange`, `Read`, `Write` | a `MioSource<TcpStream>`; an actor; another `TcpStreamBuf` |
| `TlsServerEngine` (`tls_rustls.rs`) | rustls connection, EOF flags | `process` | two `TcpStreamBuf` and rustls |
| `FdSource` (`fdsource.rs`) | a file descriptor | delegates to mio | `MioPoll::add` |
| `echo_server` | listener, one `Echoer` per connection | accept, ready, delayed echo | all of the above |

What is hard here:

* **Concurrency with the operating system and with threads.** The crate is
  single-threaded by itself (`Rc<RefCell<Control>>`), but readiness comes at
  any time, edge-triggered, and other threads call the waker at any time.
* **Ordering and staleness.** Events wait in the kernel, in mio's buffer and in
  the queues, named only by a slab key that may change owner meanwhile; the
  highest priority may rise while events are queued.
* **Edge-triggering as a protocol.** Every `flush` and `read` must go on until
  WouldBlock, or no further event comes: a liveness obligation that no unit
  test shows.
* **Partial failure.** A registration, a deregistration, a `send`, a
  `set_nodelay` may fail after part of the state was changed.
* **Reuse.** A buffer or queue outlives its stream or socket (`init` again).

What makes each component correct:

* `MioPoll`: a live source owns its token, its handler and its registration; no
  readiness is lost, repeated or overtaken; one priority level per call, the
  highest; the result tells the truth about what is queued.
* Main loop: never asleep while something is pending; wakes, readiness and idle
  handlers are all got to; idle handlers run after I/O.
* UDP queues: FIFO with each packet to its own address; nothing stuck in the
  queue or the socket; reads hand over what came in.
* `TcpStreamBuf`: byte streams intact both ways, EOF last, honest, and sent;
  nothing stuck; settings applied to each stream.
* `TlsServerEngine`: `process` returns (it does not always); bytes and both EOFs pass through, in
  order, and are reported truthfully.
* `echo_server`: all that came in goes back before an actor stops; a child's end
  reaches the listener, which goes down for the documented reasons or a failure of
  its socket only.

`PROJECT.json` lists the hazards at their lines with the properties that watch
over them.

## 2. Modules

| Module | What it models | Built on |
|---|---|---|
| `MioPoll` | `miopoll.rs`, the flags of `Ready` apart | - |
| `EventLoop` | main loop, waking threads, with an external Stakker | extends `MioPoll` |
| `UdpSocket` | what the UDP queues share: fields, external socket, actor, properties | - |
| `UdpQueue`, `UdpServerQueue` | `udpqueue.rs`, `udpserverqueue.rs` | extend `UdpSocket` |
| `LossyFifo` | abstract specification of the output side of a UDP queue | instantiated by both queues |
| `TcpStreamBuf` | `tcpstrbuf.rs`, external stream, actor; `exchange` is in `TlsServerEngine` | - |
| `TlsServerEngine` | `tls_rustls.rs` and `exchange`, external rustls, peer and application | extends `TcpStreamBuf`, which is `ext` |
| `Ready` | `Ready` of `miopoll.rs`, as operators | - |
| `Echoer` | the Echoer actor of `examples/echo_server.rs`, external Stakker | extends `TcpStreamBuf` and `Ready` |
| `EchoServer` | its Listener, over one Echoer in full and others of which only the end matters | extends `Echoer` |
| `MioPollProofs`, `EventLoopProofs` | theorems | extend `MioPoll`, `EventLoop` |
| `UdpSocketProofs` | lemmas on what the two UDP queues share | extends `UdpSocket` |
| `UdpQueueProofs`, `UdpServerQueueProofs` | theorems | extend the queue and `UdpSocketProofs` |
| `TcpStreamBufProofs` | theorems; lemmas on buffers, sequences and induction | extends `TcpStreamBuf` |
| `TlsServerEngineProofs` | theorems | extends `TlsServerEngine` and `TcpStreamBufProofs` |
| `EchoServerProofs` | theorems on `Echoer` and `EchoServer` | extends `EchoServer` and `TcpStreamBufProofs` |
| `MC*` | instances for TLC | extend the module of their name |

Operators that begin with a comment "Mutant" are plausible slips in the
definition that follows them. They are not used by the specifications; each is
put in the place of that definition to see that a property notices.

### MioPoll

The variables carry the names of the fields of `Control` and `MioSource`;
`priorities` is the bitmap as a set. The kernel's part is external: `kreg` (the
token a source is registered under), `kready` (its unreported edge) and `Edge`.
An edge has a number, so that readiness can be told old from new; the flags of
`Ready` are not modelled. A source whose edge was not reported yet merges it
with the next, as epoll does.

`ran` is a history of the handlers that one call of `poll` has called: the
priority of each (that of the entry called, not of the queue its event was in)
and whether the event was its own or that of a dropped source with the same key.

A call of `poll` is cut at the points where it calls a handler: `PollCall`
(waiting), `PollFetch`/`PollTimeout`/`PollError` (the return of mio, line 277),
`Dispatch` (one event of lines 279-294), `DispatchEnd` (297-299), `Scan` (one
level), `Drain` (one queued event, 303-308), `DrainEnd`, `ScanEnd` (315-316).
Edges and wakes may fall between any two. `add` and drops happen outside `poll`
only: handlers made with `fwd_to!` queue calls that run in `stakker.run()`, and
while `poll` runs the `RefCell` is borrowed.

`Add` includes the failure of `register`, which comes after the slab insert.
`Drop` includes the failure of `deregister`, after which the registration may
or may not survive. Each source is added at most once, since its drop closes it.

### EventLoop

`stage` says whether the thread is in `stakker.run()` or in `miopoll.poll()`.
Stakker is modelled by what the loop needs of it: a queue of deferred calls
that `run` empties (of which only `poll_wake` matters), an idle queue of which
one handler runs if `run`'s argument allows, timers that may be due
(`next_wait_max`), and work handed over by threads. In `run`, actors may do
everything `MioPoll` offers (`RunApp`). All of `MioPoll`'s steps inside `poll`
are reused as they stand (`InPoll`), so the loop refines `MioPoll` (proved).

### UdpSocket, UdpQueue, UdpServerQueue, LossyFifo

The socket follows the weakest contract mio documents: after an operation
returned WouldBlock, one event comes when it would succeed again; otherwise
none need come. A new socket reports WRITABLE once. Packets are model records
with an identity, an address and a size relative to the buffer. `flush` is cut
at each `send`, so that the operating system may empty its buffer in between;
`read` at each `recv`. The actor is the one in the docs of `UdpQueue`: it
flushes after `push` and on WRITABLE, reads until `None` on READABLE, may call
both without need, and stops on an error.

On Windows a packet that does not fit the buffer is error 10040. The code
recognises it while its kind is `ErrorKind::Other`; that is what the models do.
If std gives it another kind, `read` takes its error path (`readError`), which
is possible at every read.

`LossyFifo` is the promise of the output side: packets leave in the order they
were put, each once; the one at the head may be lost. `queue` is mapped to the
packet in flush's hands followed by `out`. Losing at the head is what the code
does on WouldBlock (see the findings).

### TcpStreamBuf

Bytes are numbered, so that a lost, repeated, misplaced or invented byte (0,
the filling of new space) shows. The input buffer is the record `ib` with the
real layout: contents, `rd`, `wr`; `MakeSpace` translates `inp_makespace` with
the capacity the allocator gives in excess as a parameter. `flush` is cut
between its calls of the stream; `read` is one call. The actor is that of
`examples/echo_server.rs` made more general: it reads until WouldBlock, maybe
late (from an idle handler), with any `max`; takes any number of bytes; writes,
sets EOF, pauses and changes the stream at any time; flushes after any change.
`RetryFlush` decides whether it goes on or stops after an error of `flush`.

### TlsServerEngine

`ext` is the TcpStreamBuf of the module it extends, with its socket and all its
steps of `flush` and `read`; `int` is a record. A unit in `ext` is one TLS
record (without TLS one byte); what is in it is kept in `recs` and `peer_recs`,
so that `PlainIntact` can follow the plain bytes from
one end to the other. Each action of `ProcessStep` is one round of the loop of
`process`, with the negated conditions of the rounds before it in its guard;
`tpc = "reader"` is the inner loop. `processPass` is the branch without TLS.
While `tpc` is not `"idle"` no handler of the actor runs.

rustls (0.20, the version in `Cargo.toml`) is external and modelled by what the
loop can tell of it:

* hello makes it want to write a flight, finished ends the handshake and
  releases the plaintext held; before that its writer accepts up to `Limit`;
* `wants_read` is false while plaintext waits and after a close_notify;
* the reader returns `Ok(0)` for an empty slice, and after close_notify once
  all is read; else WouldBlock if it is empty;
* a TLS stream error is possible whenever records are read.

A hang of the code is a round that changes nothing. There are three, which
`Spinning` lists; `ProcessEnds` says that `process` returns or fails but for
these and that none of them is ever left, `ProcessReturns` that it returns
anyhow (violated: `tls_hang` and two configurations below). The actor calls `process` after every change on either side, and `flush` and
`read` when they are due.

### Ready, Echoer, EchoServer

`Ready` has the table of the eight values, `new` (the sum of the eight tests, in
a `u16`, as the code writes it) and the predicates. Arithmetic on powers of two
replaces the bitwise `&`.

`Echoer` has the handlers of the actor, cut between the calls of its
TcpStreamBuf; `epc` says where a handler is and `back` where its flush returns
to. `mark` says which byte is '!' and which '%'. Of Stakker it assumes that
`stop!` and `fail!` note why the actor ends, the last one counting, that the
actor ends when the handler returns, and that timers of one delay fire in the
order they were set (the echo relies on it). An error of `flush` does not end
the handler, so the steps of TcpStreamBuf are used with `RetryFlush = TRUE`.

`EchoServer` composes it with the listener: the accept loop of
`Listener::connect`, the notices of children that ended, and the inactivity
timer as `age`, counted in ticks from the last call of `activity`. The first
child is the actor of `Echoer`, whose `end` is the notice the listener gets; the
others end in any way at any time. Handlers of the listener and of the Echoer
exclude each other (`Turn`), since there is one thread, and everything stops
when the listener is down, which ends the main loop. It assumes of Stakker that
the timer's call is made some time after it is due unless `timer_max!` put it off
before that; whether `timer_max!` also takes back the call of a timer that has
expired and is queued, is left open (`late`).

## 3. Runs

| Run | Instance | What it shows |
|---|---|---|
| `miopoll` | 3 levels, 3 tokens, 2 sources and the waker in the middle level, buffer of 2, 3 edges; symmetric sources | `TokensOwned`, `QueuesSound`, `NQueuedExact`, `OneLevelPerPoll`, `ResultHonest`, `NoLostReadiness`, `NoReplay` |
| `event_loop` | 3 levels, 1 source, 2 threads, 3 edges | `NoSleepWhilePending`, `IdleOnlyWhenNoIO`, `NoLostWake`, and the liveness property `AllHandled`: wakes, readiness and idle handlers |
| `udp_queue` | 3 packets each way, sizes below, at and above the buffer, kernel buffers of 1 and 2 | `FifoSpec` (refinement), `NothingStranded`, `ReadFaithful`, `OutDrains` |
| `udp_server_queue` | the same with 2 peers, UNIX and Windows | `FifoSpec`, `NothingStranded`, `ReadFaithful` |
| `tcp_output` | 3 bytes, kernel buffer of 2, 2 streams | `OutIntact`, `NoStrandedOutput`, `NodelayApplied`, `EofLast`, `OutDrains` |
| `tcp_input` | 4 bytes, kernel buffer of 3, `max` 1 and 2, spare capacity 0 and 1 | `InIntact`, `NoStrandedInput`, `EofHonest`, `InDrains` |
| `tls` | with TLS (handshake, close_notify) and without, 2 plain bytes out of which rustls keeps 1 before the handshake is over, 2 in, 4 units from the peer, no spare capacity, buffers of the operating system of 3 and 1 | `PlainIntact`, `CloseLast`, `TlsEofHonest`, `ProcessEnds`, `EofPassed` |
| `echo_server` | 2 connections, timeout of 1 tick; for the first, 2 bytes of which the second is plain, '!' or '%' | `EchoIntact`, `NothingStranded`, `StopsComplete`, `AbortKept`, `EchoEnds`, `CauseHonest`, `ServerEnds` |

Why the bounds are enough for the cases that matter: with three levels there
are two queues and a fast path, the fewest that let `max_pri` rise over a queue
in use and leave a level behind one that is drained; three tokens and two
sources let a key be reused and a failed `add` leak one; three edges let one
source have an edge in the kernel, one in the buffer and one in a queue; an
Events buffer of 2 for 3 handles leaves something in the kernel. A kernel
buffer smaller than the packets or bytes written makes WouldBlock and partial
writes happen. Four bytes with reads of 1 and 2 make the input buffer be reset,
compacted, extended and refilled with bytes unread. In `tls`, `ext`
collects several records before `process` runs, so that data comes alone, in
batches and in one batch with close_notify; bytes are written before, during
and after the handshake, and more than rustls keeps; the second byte in fills
`int.inp` exactly. So each place of `Spinning` is reached. In `echo_server` the second connection is what comes
between the first and the timer, and what aborts while the first lives; two
bytes with a kernel buffer of one make the echo block with output, a timer and
input at once. Every action of every
module fires in a passing run.

`tls` sets EOF only after the handshake (`MCTlsEarlyEof` shows the other case).
It does meet the three hangs: `ProcessEnds` and `EofPassed` excuse exactly those
states, and `TlsEofHonest` leaves out the one of them in which the private field
`inp_eof` is wrong, which no call returns any more.

`miopoll` checks deadlock. The others may stop: the loop is left, the actor
ends or fails, or the bounded input is used up.

Four runs show a disagreement between the code and its docs:

| Run | Property | What happens |
|---|---|---|
| `orphan_token` | `NoOrphanToken` | `register` fails after the slab insert: token and handler are never freed (`miopoll.rs:271-272`) |
| `stale_token` | `LowerPriorityWaits` | a queued event of a dropped source runs the handler of the key's next owner, of a lower priority, before higher events (`miopoll.rs:304`); the run looks only at behaviours without failures |
| `udp_loss` | `NothingLost` | a packet that meets WouldBlock is dropped (`udpqueue.rs:134-138`, `udpserverqueue.rs:133-137`) |
| `tls_hang` | `ProcessReturns` | data and close_notify in one batch: `Ok(0)` does not end the inner loop (`tls_rustls.rs:128`) |

More configurations are kept that TLC finds violated. They are not among the
runs of `PROJECT.json`; `tlc -config X.cfg` on the MC module shows each:

| Configuration | Property | What happens |
|---|---|---|
| `MCTlsFull` | `ProcessReturns` | plaintext fills `int.inp` exactly; the empty slice gives `Ok(0)`, taken for a clean EOF, for ever (`tls_rustls.rs:126-130`) |
| `MCTlsAbort` | `UncleanEofReported` | with TLS a TCP EOF without close_notify is never reported (`tls_rustls.rs:106`; line 11 announces "Unclean EOF") |
| `MCTlsEarlyEof` | `CloseLast` | an EOF asked for during the handshake overtakes the data held by rustls (`tls_rustls.rs:101`) |
| `MCTlsLimit` | `ProcessReturns` | rustls' writer accepts nothing more during the handshake, and `process` spins (`tls_rustls.rs:91-99`) |
| `MCTcpNodelay` | `NodelayApplied` | a failed `set_nodelay` is not tried again (`tcpstrbuf.rs:191-195`), for an actor that goes on after the error |
| `MCTcpStaleEof` | `EofHonest` | `init` does not reset `inp_eof` (`tcpstrbuf.rs:147-151`) |
| `MCTcpReadZero` | `EofHonest` | `read(0)` reports the end of the stream (`tcpstrbuf.rs:285-288`) |
| `MCEchoAbort` | `AbortPassed` | `stop!` replaces the AbortError in the same handler call (`examples/echo_server.rs:227`); behaviours without I/O errors |

`tcp_input` checks `EofHonest` for one stream and `max > 0`, where it holds, and
`tcp_output` checks `NodelayApplied` for an actor that stops on an error.

### Fairness

* `FairLoopSpec`: weak fairness of the loop's own thread (`LoopProgress`). It is
  ordinary sequential code that goes on while it can. Waiting in `poll` is left
  out when the wait may block and nothing is ready: max_delay may be a minute,
  and the properties must not need it. Threads, edges, actors and the exit of
  the loop are under no obligation.
* UDP and TCP: a call of `flush` or `read` runs to its end (weak fairness); the
  handler calls that are due, for a queued event or after a push, sit in
  Stakker's FIFO queue and are run in turn although other calls keep coming
  (strong fairness, since other calls disable them for a while); the operating
  system sends what it buffered (weak fairness of `MoveOut`). For TCP the last
  is an assumption on the peer too: it reads, so that its window opens again.
  Nothing else is assumed of the peer or the network; it need not send, and UDP
  packets may be lost on the way.
* TLS: a call of `process` goes on (weak fairness of `ProcessStep`), and is made
  after a change, like the calls of `flush` and `read` (strong fairness); the
  peer reads (weak fairness of `MoveOut`).
* Echo server: a handler runs to its end (weak fairness); events, notices and
  timers get their turn in Stakker's queue (strong fairness); the client of the
  Echoer reads (weak fairness of `MoveOut`), on which `EchoEnds` relies. Beyond
  that clients and children need not do anything, and time need not pass:
  `ServerEnds` says what follows once it has.

## 4. Proofs

All theorems hold for every value of the constants that the named assumptions
of the modules allow: `MAX_PRI` is between 1 and 15 (a bit of the `u16` bitmap;
10 in the code), token 0 exists, the bounds are natural numbers, the arguments
of calls are of their types. A theorem that needs more says so in an `ASSUME` of
its own. Every inductive invariant was checked by TLC on the instances of the
runs before it was proved; the proof that a step preserves it has one step for
each action.

**`MioPollProofs`.** `Invariance` is `Spec => []IInv`. The properties are not
inductive by themselves; `IInv` adds to `TypeOK`, `TokensOwned`, `QueuesSound`,
`OneLevelPerPoll` and `ResultHonest`

* `KernelOK`: an edge is pending only for a source that is registered, so that a
  fetched event carries a real token;
* `SourcesOK`: a source not yet used has no token, no registration and no event
  anywhere, so that a new owner of a key owns none of the stale events under it;
* `PhaseOK`: what each part of `poll` knows about its locals: which queues are
  already empty above `level`, that `n_queued` is zero exactly if the queues it
  counts are empty, that `done` agrees with `ran`, and at which level the
  handlers in `ran` are that were called for events of their own.

`QueuesSound` needs the first two (an event is queued at its handler's priority
only if it is that handler's own), `OneLevelPerPoll` and `ResultHonest` need the
last. From `Invariance` follow `TypeCorrect`, `TokensSafe`, `QueuesSafe`,
`OneLevel` and `ResultTrue`.

`HistoryInvariance` follows the readiness of a source from the kernel to its
handler. To `NoLostReadiness` it adds `EdgesOK` (an edge still in the kernel is
newer than all that was reported), `BufferOK` (a source has one event in the
buffer at most, the newest, and it is newer than what is queued) and
`QueueOrderOK` (in a queue, events of a source are in the order of their edges,
all newer than what its handler was told). These say in which order the places
are emptied, which is what `NoReplay` rests on: `ReadinessKept`,
`NeverReplayed`. `CountExact` proves `NQueuedExact`, that `n_queued` is the
number of places in the queues (a cardinality), with `CountInv`: during the scan
`n_queued` counts the levels the scan has left behind.

Two theorems are about the promises that the runs `orphan_token` and
`stale_token` find broken, and show that each has a single cause.
`TokensCleanedUp` proves `NoOrphanToken` for the behaviours in which every
registration succeeds (`RegistrationWorks`, a condition on steps), and
`PriorityKept` proves `LowerPriorityWaits` for those in which slab gives away no
key under which an event is still queued (`KeysRest`): with it every queued
event, also a stale one, is in the queue of whatever handler its token leads to
(`QueuedRight`). Under the same condition `OneLevelForAll` takes the exception
for stale events out of `OneLevelPerPoll`: all handlers of one call of `poll` are
of one priority.

**`EventLoopProofs`.** The loop implements `MioPoll` (`LoopRefinesMioPoll`), so
that all its invariants carry over, and with `ResultHonest` the inductive
invariant that the loop's `io_pending` and `run_idle` are true to the queues:
`NeverSleepsWhilePending` and `IdleHandlersLast`. `WakeNeverLost` proves
`NoLostWake`, for any number of threads: while a thread has work that was not
taken over, its wake is in the operating system, in mio's buffer, in a queue or
deferred, and if the loop sleeps it is in the operating system, where it ends the
sleep. `NoLostWake` says where the event is, which a step that moves it must know;
`WakeInv` says it with the history of `MioPoll` instead: the edge is pending, or
was reported and the handler not told (`called # fetched`), or the handler's call
is queued. `NoLostReadiness` turns the second case into a place, and
`NeverSleepsWhilePending` excludes that the loop sleeps while it is in a queue.

**`UdpSocketProofs`, `UdpQueueProofs`, `UdpServerQueueProofs`.** `SockInv` is
`TypeOK` with `HandsOK` (a packet is in flush's hands only while it runs),
`OutputOK` and `InputOK`: for each direction a call is in progress or due, an
event is on its way, or the last call blocked and the state it blocked on still
lasts. The stranding properties look only at the states where something waits,
and the step into such a state needs the rest. `ReadIsFaithful` needs for
`UdpServerQueue` that packets are numbered as they come in (`InputInv`), since
its property compares the received packets as a set and by their order.
`ImplementsFifo` is the refinement of `LossyFifo`, step by step.

**`TcpStreamBufProofs`.** `BytesInvariance` proves `TypeOK`, `OutIntact` and
`InIntact` together, with lemmas that say what `MakeSpace` and `CopyTo` keep: the
offsets in the buffer and the unread bytes, in each of the branches of
`inp_makespace` and for any capacity. On it rest

* `EofComesLast` (an action property);
* `OutputNeverStranded`, with `EofOK`: `sent_out_eof` is true to the stream, so
  that a wanted EOF is not taken for sent;
* `InputNeverStranded`, with `InputOK`: a read is due, an event is on its way, or
  the last read blocked and nothing came since;
* `NodelayAppliedUnlessRetried`, for an actor that stops on an error of flush
  (`~RetryFlush`), and `FirstEofHonest`, for reads of at least one byte
  (`0 \notin Maxes`) and the first stream of a buffer. `MCTcpNodelay`,
  `MCTcpReadZero` and `MCTcpStaleEof` show that neither holds without these.

The module also has the induction that data needs: what `FlattenSeq` gives when a
piece or a group of pieces is added or taken away. The library's induction
theorems take an operator, which the provers cannot instantiate; `SetInduction`
states induction for a set of numbers, which they can, and is proved from the
well-foundedness of `<` on `Nat`.

**`TlsServerEngineProofs`.** `TlsInvariance` is `TlsSpec => []TlsInv`. The property
`PlainIntact` says where every byte is; to keep it, a step that moves units must
know what they carry, so `TlsInv` has

* `UnitsOK`: the units of each direction have consecutive numbers, those in
  `wire` and `out` as many as `recs`, those in `inp` and in the socket the last
  ones of `peer_recs`;
* `ConnOK`: without TLS the `ServerConnection` is empty; rustls holds no plaintext
  once the handshake is over, and never more than `Limit`; a hello comes first or
  not at all;
* `PlainOutOK` and `PlainInOK`, the two halves of `PlainIntact` in a form in which
  a move from one place to the next is a regrouping of the same bytes.

What a batch of records does to the connection (`ReceiveAllOnward`) is an
induction over the batch: plaintext held goes out as a record when the handshake
is over, received bytes are appended in order, and a connection that is up sends
nothing in return. The last fact is what `CloseIsLast` needs: `CloseOK` says that
of all records only the last is a close_notify, if `sent_out_eof` is set, and none
otherwise, and a handshake record sent after it would break that. It is proved
for applications that set `out_eof` only after the handshake (`~EarlyEof`);
`MCTlsEarlyEof` shows that the property fails for others. `PlainKept` needs no
such assumption.

`CleanEofHonest` proves `TlsEofHonest`. `PeerCloseOK` says that the peer's
close_notify is its last record and that nothing waits in front of rustls once it
has it; `TlsEofOK` that a clean EOF was then reported only with all plaintext
given away, and without TLS only with the EOF of the stream and nothing unread.
Every step keeps this but one: a reader that finds `int.inp` full takes the
`Ok(0)` for its empty slice for the EOF. From there the inner loop never comes
back (`FullStays`), so a state in which the reader has room (`RoomLeft`) was
reached through such states only, and `TlsEofOK` is proved for them; like the EOF
of `TcpStreamBuf` it needs reads of at least one byte. `SpinsForEver` is the same
for all three places of `Spinning`, the safety half of `ProcessEnds`.

`TlsNeverStranded` proves `NothingLeftBehind`: when no call of `process` is running
or due, nothing is left between the application and `ext` in either direction,
with TLS or without, except the plaintext that rustls holds until the handshake is
over, and what `ext` and the socket hold has a call or an event on its way. It
rests on `DrainOK` (what `process` leaves when it returns) and `ExtOK`, the
stranding invariants of `TcpStreamBuf` carried over to the steps of `process`. No
run checks it: it follows from what the loops of `process` do before they end, and
TLC agrees with it on the instances of `tls` and of the `MCTls*` configurations.

**`EchoServerProofs`.** `ServerRunsEchoer` (`ServerSpec => EchoSpec`) lets everything
proved of an `Echoer` hold in the server. `EchoInvariance` proves, for reads of at least one
byte as the code makes them, that a handler that is not reading has an event to
come for each thing that waits: `EchoInputOK`, `EchoOutputOK`, and what they need
(`HandlersOK`: flush runs inside a handler, on a stream that may be written to;
`EofKept`, `EofHonest`). With `ListenOK` for the backlog it gives
`NeverStranded`. `EchoedIntact` rests on the lemmas about `FlattenSeq`, which
joins the pieces that wait to be echoed. `CauseIsHonest` needs
`CauseInv`: `age` and `quiet` agree, and an AbortError that a child ended with is
with the listener as a notice until it acts on it.

`StopsWhenComplete` proves the action property `StopsComplete`: without a '!'
received, an actor that stops has seen the peer's EOF and sent back every byte
before it. By `EchoIntact` the bytes sent, in `out`, in timers and in hand are the
bytes received, so what is left to show is that the last three are empty and
that all the peer sent was received. `StopInv` says so step by step: what the
peer sent was received or is in the socket (`PeerOK`); bytes are in hand only
from a read to the end of its handler's work on them (`InHandOK`); after the EOF
nothing is read and no data goes behind it (`EofOnce`); and without a '!' the
output ends only behind the last timer (`StopOK`). `AbortIsKept`
proves `AbortKept` from the same invariant and `AbortOK`: a '%' is read before the
EOF, so `out_eof` is not set by then; it stays unset, since no timer fires before
the actor ends, and only a complete output makes the actor stop. `SilentAfterShutdown` says of
every actor, also one that got a '!', that once the write half of its stream is
shut down nothing is left in `out` and nothing is put there.

Only model-checked:

* liveness, which is outside this prover: `AllHandled`, `OutDrains`, `InDrains`,
  `EchoEnds`, `ServerEnds`, `ProcessEnds` (but for `SpinsForEver`), `EofPassed`.

Every invariant and action property of a passing run is stated by a theorem, some
of them under a hypothesis that the theorem names and that a configuration shows
to be needed; `TypeOK` of the UDP modules is part of `SockInv`.

## 5. Not modelled

* `FdSource`, `lib.rs`, the doc-link script: no state of their own.
* Handlers that run synchronously inside `poll`: they panic on the `RefCell` if
  they use `MioPoll`; the ones the crate documents defer.
* Time, but for the ticks of `EchoServer`: the length of a wait, timers, and what repeated EINTR does to them.
* Memory: growth of the queues under load, of `errors`, and allocation failure.

## 6. State

Every component with state of its own is modelled. The safety invariants and
action properties of `MioPoll`, the loop, the UDP queues, `TcpStreamBuf`,
`TlsServerEngine` and the echo server are proved, and so are both refinements of
`LossyFifo`, that of `MioPoll` by the loop and that of `Echoer` by the server.
Liveness is left to TLC.
