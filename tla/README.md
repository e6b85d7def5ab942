# A TLA+ verification of wirestead

wirestead is an asynchronous communication library on Boost.Asio: TCP, UDP, Unix
domain socket (UDS) and serial channels behind one interface. This directory holds TLA+
models of its concurrent core, the TLC configurations that check them on small
instances, and TLAPS proofs of their main safety properties for every value of the
constants. `PROJECT.json` maps each definition to the source lines it models, and lists
the hazards with the properties that would catch them.

## The system

A *wrapper* (the user's object) owns a *transport*. The transport runs its handlers on
an Asio strand; any user thread may call its write functions. Writes are *accepted*
under a mutex: bytes are reserved against a limit, a ledger entry is made, and a
handler is posted to the strand, which later queues the payload and gathers queued
payloads into one socket write. A server transport owns one *session*, with a strand of
its own, for each connection it accepted. The wrapper passes what the transport reports
to the user's callbacks, through a *gate* that `stop()` closes.

| Part | State | What makes it hard | Modules |
|---|---|---|---|
| Write queue (`bp_utils`, `bp_state_machine`) | byte counters, backpressure flag | the limit is spread over three counters; releases saturate | `WriteQueue` |
| Server sessions (TCP, UDS) | life-cycle flags, counters, two queues, the batch in flight, idle timer | admissions between a handler's steps; stop against loss against completion | `TcpServerSession`, `UdsServerSession` |
| Send ledger | entries in a ring with detached older ones, totals, epochs, groups | late completions after a reset; holes in the ring | `SendLedger`, `SendLedgerRing`, `RequestMap` |
| Client transports (TCP, UDS, serial) | connection and run numbers, queues, timers | old completions after a reconnect; timers racing success; stop and restart | `ClientChannel`, `TcpClient`, `UdsClient`, `Serial` |
| UDP transport | one socket, virtual sessions of a server | expiry of a session whose datagrams are queued; per-session bytes | `ClientChannel`, `UdpChannel` |
| Server transports (TCP, UDS) | session map, retiring sessions, totals, accept loop | sessions close on their own strands while any thread stops the server | `ServerChannel`, `TcpServer`, `UdsServer` |
| Wrappers and callback gate | gate generation and leases, batches with timers, the start future, waiting sends | stop from a callback; what is left over from a run; a send that waits while its connection goes | `CallbackGate`, `Wrapper`, `ClientWrapper`, `ServerWrapper` and one module for each of the seven |

## Modules

**`WriteQueue`** has the arithmetic of `transport/base`: `try_reserve_write_bytes`,
`try_reserve_limit_bytes`, the saturating releases, `decide_enqueue`, the two edges of
`BackpressureStateMachine::report`, and the loop condition of `take_gather_batch`. The
sessions and the client transports use it.

**`TcpServerSession`** is one accepted connection. Its actors are

- *Callers*: `Write` (write_copy, write_move, write_shared: they differ in how the payload
  is held) and `TryWrite`. An accepted write is one step, since it is one critical section
  of `submission_mtx_`; a refused one changes nothing and is not a step.
- *Owner*: `Start`, `request_stop`, `async_stop`, `cancel`, `cancel_write_wait`.
- *Kernel*: the completions of handshake, read and write, and the timer's expiry. A failed
  write has transferred any number of whole requests of its batch.
- *Strand*: one posted handler at a time, in posting order. A handler that touches shared
  counters is split at the points where another thread's admission or stop can fall:
  `RunPlain` (decide_enqueue reads), `Commit` (the reservation moves), `Report`,
  `ClearBackpressure`, `RearmBackpressure`, `DoWrite`, `Gather`, `BeginBatch`, `Handoff`.
  `pc` is the position in the running handler; `pc = "gather"` is the critical section
  in which do_write holds `submission_mtx_`.

`fate` is the session's view of the ledger, `wire` records the requests of every batch
begun. `reserved`, for the proofs, and `stopped`, which says that the owner's stop came before
the close, are history variables: they change no other variable.
The names of state variables are those of the source without the trailing underscore.

**`UdsServerSession`** takes the state and the write path from `TcpServerSession`, whose
code it repeats, and defines the handlers that differ: no handshake and no `cancel()`, a
finished write is not activity for the idle timer, and `do_close` takes `writing_` back.

**`SendLedger`** is `SendAccountingLedger`'s accounting over an abstract store, one step per
operation, because each holds the ledger's mutex. **`RequestMap`** is that store: a map from
request ids to entries. **`SendLedgerRing`** is the store as written: a power-of-two ring
with `head_`, `base_` and `count_`, and a side map of detached older entries. It implements
`RequestMap` under the mapping that looks each id up with `find`.

**`ClientChannel`** has what the transports with one socket share: the record `c` is the
Impl, and a function of the Impl is an operator from the record before to the record after.
Posted handlers run in order. The completion of a socket or timer operation runs whenever it
is delivered, and cancelling does not retract one that is already queued. In particular a read
or a write that a close cancelled may complete at any time during the connections that follow,
which is what `connection_seq_` is for. `Deliverable` holds a new attempt back in one case only,
given under "Bounds of the clients". **`TcpClient`**,
**`UdsClient`** and **`Serial`** have one action per public operation and one per handler:
resolve, connect, handshake, retry, connect timeout, idle timeout, read, write, loss, start,
stop and its cleanup. **`UdpChannel`** adds the virtual sessions a UDP server keeps by
address, with their write waits, per-session bytes and expiry. A write whose initiation throws
is one that completes with an error at once.

**`ServerChannel`** has what the stream servers share: the record `v` is a server's Impl
with the sessions it accepted, each reduced to its life, the callbacks it makes on its own
strand and one count for its statistics (the rest of a session is `TcpServerSession`).
A callback begins in one step, with its look at `stopping_`, and returns in another, holding
its strand; the accept handler is split between its check and the publication of the
session. **`TcpServer`** and **`UdsServer`** add what only one of them has: the bind with
its retries, the current session and state, restart rules, fan-out.

**`CallbackGate`** is the gate: leases, generations, close. **`Wrapper`** has three threads on
the Impl record `w`: the owner (start and stop), a sender (blocking sends, settings) and the io
thread, which runs the transport's handlers and the user's callbacks in them; a callback may
send or stop. A handler is the sequence of the steps it has left, one per hold of `mutex_` or
use of the gate. **`ClientWrapper`** and **`ServerWrapper`** add link states, batches with
their timers, framed messages and the start future, and the modules of the seven wrappers
(`TcpClientWrapper`, `UdsClientWrapper`, `SerialWrapper`, `UdpWrapper`, `TcpServerWrapper`,
`UdsServerWrapper`, `UdpServerWrapper`) put these together the way each source file does.
The wrapper sees of its transport whether it runs, its connection's number, whether that is
up and under pressure, and how far a stop has got. `missed` in the record of a send is history:
its connection was lost or a stop was called since the send selected its target.

The modules named `...Proofs` hold the theorems: `TcpServerSessionProofs` and
`TcpServerSessionQueueProofs` those of both sessions (life and limit; order and bytes),
`SendLedgerProofs` and `SendLedgerRingProofs` those of the ledger and its store,
`ServerChannelProofs` those of both servers, `ClientChannelProofs` those of the TCP client and
`ClientWrapperProofs` those of the client wrappers. **`Sums`** defines the sum of a sequence and
`SumProofs` has its lemmas. The `MC` modules put the variants of a part
on one instance (a behaviour is of one of them) and hold what only TLC uses. Operators named
`Fault...` are mutated forms of the definition they precede: each is a plausible bug, and
each property has one that violates it. No specification uses them.

## Runs

| Run | Configuration | Shows |
|---|---|---|
| session_writes | MCTcpServerSession.cfg: TCP and UDS session, 3 writes of 1-2 bytes | the byte limit and that accepted writes are never rejected; exact counters; backpressure has a driver and is reported; losses are classified truly; order within a family; nothing begun after a close; outcomes are final |
| session_live | ...Live.cfg, 2 writes | every accepted write settles; backpressure ends or the session closes |
| session_idle | ...Idle.cfg, 1 write, idle timer and cancel | a session in use has a deadline, which an overtaken expiry does not take with it; the owner is told of a close it did not ask for exactly once, and every failure and cancel() leads to that; a queued stop cleans up |
| session_order | ...Order.cfg, 3 writes | *violated*: acceptance order across families |
| ledger | MCSendLedger.cfg | snapshots are exact in requests and bytes; confirmed bytes lie between the written ones and those plus the aborted ones |
| ledger_ring | SendLedgerRing.cfg | the ring's capacity is bounded by what is live; it implements RequestMap, and each operation does what its name says |
| clients | MCClients.cfg: TCP, UDS, serial and UDP | with old writes completing on a new connection: bytes are written on the connection and in the run that accepted them, one write at a time; reservations and per-session bytes are exact; a queue always has a driver and so has the state Connecting; a stop ends everything; nothing of an expired UDP session is sent |
| client_terminal | MCClientsTerminal.cfg: the last attempt | *violated*: Error is final until stop |
| wrappers | MCWrappers.cfg: the seven wrappers | callbacks run only under a lease of the current run, never after a stop that waited and never beside a change of settings; the start future is settled; a batch has a deadline of its own session; a send is accepted only if its connection was not lost and no stop() was called since it selected its target |
| wrappers_live | MCWrappersLive.cfg | a callback returns, whatever it calls; stop() returns and releases a waiting sender |
| wrapper_listening | MCWrappersListening.cfg | *violated*: a stopped server does not say it is listening |
| servers | MCServers.cfg: TCP and UDS | totals count each session once; stop() does not return before the sessions are quiet and never waits for nothing; the accept loop stays armed; notifications belong to the run |

**Bounds of the sessions.** Threshold 2 and limit 5 with writes of 1 or 2 bytes let three
writes cross the high mark, be held back, meet the limit with mixed reservations, and be
flushed to a level that re-arms the flag. Gather caps of 2 buffers and 2 bytes give batches of
two (which may fail half way) and let the byte cap end a batch early; with three writes the
buffer cap never has a third request to leave behind, which has the same effect. Two writes
are enough for the liveness run: one under pressure, one to relieve it. One write is enough
beside the idle timer, whose hazard is between expiry and activity. `cancel()` and the idle
timer are switched off in the runs about writes. A queued stop or cancel is not queued again.

**Bounds of the ledger.** Three requests, one group besides none, one reset, batches of up
to two, and one cause each for discard and end (the other causes take the same code with
another category). The ring starts with 2 slots where the code has 16, so that wrapping,
detaching and growing all happen within five requests.

**Bounds of the clients.** Two writes of the size of the threshold: the first raises the
pressure, the second is held back or refused, and both fill the limit. Two runs and two
connections are what fencing needs, an old one and a new one. One retry, and none in
`client_terminal`. At most three operations are outstanding when another completion is taken
(`MaxOps`); socket, timer and a late completion of the previous connection fit. A UDP channel
either has a configured remote, and then plain address writes, or has none, and then sessions.

One order of completions is assumed (`Prompt`, `Deliverable`). The handlers do not tell the
completion of a cancelled connect or handshake from that of the next attempt, nor the failure of
an operation begun on a socket that was already closed, since it carries the number of the next
connection. Asio queues these at once, before the next attempt is begun, and the next attempt
needs the network or a timer first; so they are taken to run before its retry timer or its
connect ends. Without this assumption such a failure, run after the reconnect, would release bytes
of the new connection. Reads and writes cancelled by a close are under no such assumption. The
UDS client's retry interval is taken to be longer than a queued handler waits (`Results`): its
retry timer, which is checked against the run only, has not expired when a close cancels it.

**Bounds of the servers.** Two sessions, at once, one after the other or in two runs; the
client limit is met when both are there. One restart, one retry of the bind, one count per
session between resets.

**Bounds of the wrappers.** Two runs and two connections, batches of two. A server has one
client session at a time. A wrapper on an injected channel has per-message handlers. `limits`
stands for every setting that a running wrapper refuses.

Runs of clients, servers and wrappers do not check for deadlock: with the bounds used up, and
in a stopped object, nothing more need happen. The sessions' and the ledger's do.

**Fairness.** Of the sessions: the strand keeps running handlers (the io_context's thread
does). The kernel eventually completes or fails a write it was given: a peer that never reads
and never disconnects would hold a write for ever, and the code relies on the idle timer or the
owner for that case, so the liveness results are about peers that read or fail. Operations on a
closed socket fail, which Asio guarantees. Nothing is assumed of callers, the owner, reads on an
open socket or the timer. Of the wrappers (`LiveSpec`): a running handler goes on, a callback
that is inside no call of the library's returns, what was posted to a strand runs, and the
threads inside `stop()` and a send are scheduled. Strong fairness of the callback's return is
needed because it may call the library again and again, and is not inside a call in between; no
callback does so for ever. Nothing is assumed of peers, timers or callers.

## Where the code and its documents differ

- **session_order.** `docs/communication_contract_v0.10.md:159` promises acceptance order
  across all send families. A try-write accepted before backpressure rises is appended to
  `tx_` by its handler even if plain writes accepted earlier have meanwhile been put in
  `pending_`, so it is written ahead of them (`tcp_server_session.cc:331`). The audit document
  argues that the try path is rejected under backpressure; that holds at admission, not for a
  try-write already accepted. Order within a family holds.
- **client_terminal.** The connect timer of the TCP client is checked against the run, not
  against the attempt it timed. If it expires as the last attempt fails, the client has
  reported Error; the late expiry moves it back to Connecting, where no operation is
  outstanding (`tcp_client.cc:1048`). `docs/communication_contract_v0.10.md:354-355`
  says, as a proposed rule, that only `stop()` and `start()` lead back.
- **wrapper_listening.** A server wrapper's state handler sets `is_listening_` outside `mutex_`
  after it took its lease. `stop()` can clear the flag before that store and then only waits
  for the handler, so it returns with `listening()` true and the next `start()` does nothing
  (`wrapper/tcp_server/tcp_server.cc:752`, and the same in the UDS and UDP servers). The
  lifecycle test expects `listening()` to be false after `stop()`.

## Proofs

All constants are arbitrary within `SessionAssumption`, `LedgerAssumption`, `RingAssumption`,
`ServerAssumption`, `ClientAssumption` and `WrapperAssumption`: natural bounds, distinct markers,
sizes that are natural numbers, a batch size and a number of connections of at least one.

*Sessions.* The invariants build on each other.

- **`Invariance`**: `Spec => []IInv` with `IInv` = TypeOK, Reservations, HandlersOK,
  HardLimit and AcceptedNotRejected. The limit alone is not inductive: committing a
  reservation adds to one counter and subtracts from `inflight_bytes` with saturation, so the
  sum would grow if `inflight_bytes` were smaller than the request. It is in fact the sum of
  the reservations whose handlers are on the strand. `Reservations` says so without a sum:
  each handler carries the total reserved up to it, and these marks climb from
  `reserved - inflight_bytes` at the head to `reserved` at the tail.
- **`TypeCorrect`**, **`HardLimitHolds`**, **`NeverRejected`** follow from it. The last one
  says that route_enqueued_buffer's defensive branch is unreachable.
- **`NoHandoff`**: no batch is begun once closing is set. It rests on `GatherUsable`: the
  flags checked by do_write cannot change while it holds the mutex.
- **`OutcomesAreFinal`**: a recorded outcome and the first cause of a wait never change. It
  rests on `FreshUnused`: an admission never reuses an entry.
- **`CloseIsToldOnce`**, **`PressureIsReported`**. `EInv` adds to the above what a closed session
  has lost (`Ended`), that the callbacks are there until the close and that a stop is on the
  strand, or was, only if the owner asked for it (`StopKnown`: do_close without the callback is
  reached by a stop alone), what the position in the running handler says
  of the flags (`Control`), and that the last report differs from the flag only inside the
  handler that will make the next one (`Reported`).
- **`FamiliesInOrder`**, **`LossPhasesAreTrue`**. `OInv` adds the order of all that is on its way
  to the wire: `Order` relates wire, batch, `tx_`, `pending_` and the strand pairwise, in the way
  the two queues allow (a try-write may pass plain writes, never one of its own family);
  `Known` bounds the ids; `Taken` says that the ledger's entry of a request is begun exactly when
  the request is on the wire, which is what makes "aborted during write" and "discarded before
  write" true of it.
- **`CountersAreExact`**, **`PressureIsDriven`**. `AInv` states each counter as the sum of the
  bytes of the queue or of the handlers it stands for. The driver needs a threshold above zero,
  which the theorem has as its hypothesis: with zero, the report of an empty queue would raise
  the flag. A valid configuration (`is_valid()`) has at least `MIN_BACKPRESSURE_THRESHOLD`.
- Each also for the UDS session (`Uds...`). `UdsSteps` says that its steps are steps of the TCP
  session or one of seven of its own, and only these are looked at again.

*Ledger.* **`LedgerInvariance`**, **`SnapshotExact`**, **`SnapshotBytesExact`**,
**`SnapshotConfirmed`**: a snapshot is exact in requests and in bytes, and its confirmed bytes lie
between the written ones and those plus the aborted ones, for any groups, epochs, batches and
causes. `LInv` says that the store holds exactly the outstanding requests under their own tags,
that no request belongs to a later epoch, and that a group with requests of this epoch was
cleared for it. **`RingImplementsMap`**, **`RingOperationsExact`**, **`RingBounded`**: the ring
with its side map refines `RequestMap` operation by operation, at any first capacity, and its
capacity stays within four times the most requests ever live. `View` is what `find` shows of a
store; growing, detaching and compacting are shown to move entries without changing it, which is
where the modular index arithmetic is done (`Slots`: slots in use have different indices).

*Servers.* **`TcpServerInvariance`** and **`UdsServerInvariance`**, for any number of clients,
sessions and runs, and from them TotalsExact, StopQuiesces, CleanupAdvances, AcceptLoopLives and
NotificationsFenced of both (`...Totals`, `...Quiesces`, `...CleanupAdvances`, `...Accepts`,
`...Notifies`). The invariant `Good` is a predicate on the record, so that it can be stated
between the calls of a handler, and each function of the Impl has a lemma on what it does to it.
None of the five properties is inductive alone. `Retires` is the heart: a session being retired
has its stop on its strand or the answer on the server's, one of them, once, so the count of
`remaining` sessions reaches zero exactly when the last one is quiet. `Armed` says what keeps
accepting alive across the check, the publication and the retry timer.

*TCP client.* **`TcpLives`**, **`TcpStopEnds`**: whatever is outstanding when `stop()` is called
(a resolve, connect, handshake, read or write, timers, posted writes), the cleanup is posted, and
done when `pending_io_` has fallen to zero, and it leaves nothing open, queued or waiting. `Life`
says that the cleanup is the last handler on the strand and a start the first, and that handlers
and operations are of the current run, because a start waits for the stop before it. A handler is
a composition of `Moves`, which a stop request restricts to winding down.

*Client wrappers.* **`TcpClientFenced`**, **`UdsClientFenced`**, **`SerialFenced`**,
**`UdpFenced`** (CallbacksFenced) and **`...NothingMissed`**, for any batch size and any number
of runs and connections. `ClientWrapperProofs` proves both once for `ClientNext`,
the union of the four next-state relations; each wrapper's module then shows that its steps are
among these. CallbacksFenced is not inductive. `IInv` adds which steps a handler has left
before it holds a lease (`Handlers`: no user callback is among those it can reach without one),
how the flags of the life cycle go together (`Closes`: the gate is closed from the beginning of a
stop to the next start, and a stop that waited leaves no lease), and that a lease of the io
thread is one of the current run, because start() opens a generation only when none is left.
NothingMissed needs more. `SInv` adds that a waiting send which missed something can be told by
what it captured: its connection's number or its run's generation is behind the current one, or
the gate is closed (`Missing`); that a connection is up only while the transport runs (`Carries`);
and that a closed gate shows in what the send looks at, a stop in progress or `started_` taken
back (`Halting`). The final admission of blocking_send compares exactly these.

Most leaves are first-order and go to Zenon, which the larger modules make their default; those
that need arithmetic or sequences cite SMT. Sums are kept out of the provers' way: the proofs of
sessions, servers and the TCP client take what they use of sums and cardinalities as one
hypothesis (`Adds`, `Arithmetic`, `Numbers`), and the end of the module proves it from `SumProofs`.
`SumProofs` has the one induction of the project, made with a least counterexample because the
induction theorems of the library cannot be instantiated here.

Checked by TLC only:

- IdleHasDeadline of the sessions;
- liveness, which is outside the prover (a session's AcceptedSettles, BlockedSendReleased,
  LossTold and StopCompletes, a wrapper's CallbackReturns and StopReleases);
- of the clients, everything but the TCP client's StopEnds: ReservationsExact and
  SessionBytesExact (sums over queues and sets that a handler changes in several places),
  WrittenOnOwnConnection, QueueHasDriver, ConnectingHasDriver, ExpiryFences, and StopEnds of the other
  transports, whose handlers would each need the lemmas the TCP client's have;
- of the wrappers, FuturesSettled, BatchHasTimer and all of the server wrappers, for which the
  client wrappers' invariant does not hold as it is, since a UDP server's start can fail and
  leave the wrapper not started.

## Not modelled

- *Sessions*: statistics counters, the receive path's payload and budget, installing callbacks
  (they count as installed before the start), exceptions from allocation or from posting a
  handler, and the content of the TLS handshake.
- *Transports*: statistics, recorded errors, logging, the io thread and its join, the
  BestEffort strategy (which drops queued payloads), a UDP channel's filter by endpoint, socket
  and port options, path checks and permissions. A handler of a client transport is atomic
  with respect to `stop()`, with which it shares `submission_mtx_` at the points that matter.
  `start()` is called as the contract allows.
- *Servers*: the two critical sections of `stop()` are one step; failed sends are not counted;
  changes of the client limit.
- *Wrappers*: replacing handlers while the transport is live; waits for capacity poll every
  50 ms, so the condition variable is left out; a second io thread; `start()` after a failed run
  without a `stop()`; the byte budget of received messages, an overrun of which may happen to
  any bytes received.
- *Sequential parts*: framers, memory pool, logging, configuration, builders, interfaces, value
  types and input validation have no concurrent behaviour of their own, or one lock for
  each operation. The strands' order, sockets and timers are Asio's, modelled from their use.

## Possible next steps

Proofs of QueueHasDriver and ConnectingHasDriver of the TCP client from its invariant, and of
StopEnds of the UDS client and the serial port; an invariant of the server wrappers that allows
for a failed start; the receive budget with its scopes and charges; the framers as functions
against a reference split.
