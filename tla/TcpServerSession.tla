-------------------------- MODULE TcpServerSession --------------------------
(***************************************************************************)
(* One accepted TCP connection: wirestead/transport/tcp_server/            *)
(* tcp_server_session.cc.                                                  *)
(*                                                                         *)
(* Three kinds of actors share a session.  Caller threads admit writes     *)
(* under submission_mtx_ and post a handler to the strand.  The owning     *)
(* server (or any thread) requests a stop.  The strand runs the posted     *)
(* handlers one at a time in posting order, and a handler that touches the *)
(* counters is several steps here, so that admissions fall between them.   *)
(* The socket and the timer complete operations by queueing a handler.     *)
(*                                                                         *)
(* A request is numbered in acceptance order.  Its payload is its size.    *)
(* Statistics counters, logging and the buffer pool are left out: the three*)
(* overloads of each write differ in how they hold the payload only.  A    *)
(* refused write changes nothing else, so refusals are not steps.          *)
(***************************************************************************)
EXTENDS WriteQueue, Sums

CONSTANTS
    BackpressureThreshold,          \* constructor argument
    DEFAULT_BACKPRESSURE_THRESHOLD, \* base/constants.hpp
    MAX_BUFFER_SIZE,                \* base/constants.hpp
    kMaxGatherBuffers, kMaxGatherBytes, \* bp_utils.hpp
    IdleTimeout,                    \* idle_timeout_ms > 0
    WithCancel,                     \* bound: cancel() and cancel_write_wait() are used
    MaxRequests,                    \* bound: accepted writes
    MaxSize                         \* bound: bytes of one write

ASSUME SessionAssumption ==
    /\ BackpressureThreshold \in Nat
    /\ DEFAULT_BACKPRESSURE_THRESHOLD \in Nat
    /\ MAX_BUFFER_SIZE \in Nat
    /\ kMaxGatherBuffers \in Nat /\ kMaxGatherBytes \in Nat
    /\ IdleTimeout \in BOOLEAN /\ WithCancel \in BOOLEAN
    /\ MaxRequests \in Nat /\ MaxSize \in Nat

bp_high == BackpressureThreshold
bp_limit ==
    LET wanted == IF bp_high * 4 > DEFAULT_BACKPRESSURE_THRESHOLD
                  THEN bp_high * 4 ELSE DEFAULT_BACKPRESSURE_THRESHOLD
    IN  IF wanted < MAX_BUFFER_SIZE THEN wanted ELSE MAX_BUFFER_SIZE
bp_low == IF bp_high > 1 THEN bp_high \div 2 ELSE 1

VARIABLES
    alive, closing, cleanup_done,   \* life-cycle flags
    wait_ended_by,                  \* what ended a blocked send's wait
    open,                           \* the socket is open
    queue_bytes, pending_bytes, inflight_bytes, backpressure_active,
    tx, pending,                    \* queued and held-back requests
    batch, bytes_to_write, writing, \* the gather write
    strand,                         \* posted handlers, oldest first
    pc,                             \* where the running handler is
    decision,                       \* what decide_enqueue answered
    completing,                     \* the running handler completes a write
    io,                             \* socket operations not yet completed
    idle,                           \* the idle timer
    callbacks,                      \* on_bp_ and on_close_ are installed
    told,                           \* backpressure as on_bp_ last reported it
    close_calls,                    \* times on_close_ was invoked
    stopped,                        \* history: the owner's stop came before the close
    accepted,                       \* number of accepted requests
    fate,                           \* ledger entry or outcome of each request
    wire,                           \* requests of the batches begun, in order
    reserved                        \* history: plain bytes ever reserved

life == <<alive, closing, cleanup_done, wait_ended_by, open>>
counters == <<queue_bytes, pending_bytes, inflight_bytes, backpressure_active>>
queues == <<tx, pending>>
write == <<batch, bytes_to_write, writing>>
control == <<pc, decision, completing>>
observers == <<callbacks, told, close_calls, stopped>>
vars == <<life, counters, queues, write, strand, control, io, idle, observers,
          accepted, fate, wire, reserved>>

Requests == 1 .. MaxRequests
NoCause == "none"

\* The causes SendAccountingLedger::terminate tells apart, per phase.
Terminated == {"stop discarded", "stop aborted", "loss discarded",
               "loss aborted", "pressure discarded"}
Fates == {"unused", "waiting", "active", "written"} \cup Terminated

Item(id, n, kind) == [id |-> id, n |-> n, kind |-> kind]
Items == [id : Requests, n : Nat, kind : {"plain", "try"}]

\* A handler on the strand.  n is the size of a write, or how many requests of
\* the batch a completed write covered.  mark is the history variable reserved
\* as it was when the handler was queued.
Handler(op, id, n, mark) == [op |-> op, id |-> id, n |-> n, mark |-> mark]
HandlerOps == {"start", "handshake", "handshake failed", "read", "read failed",
               "plain", "try", "wrote", "write failed", "idle", "stop", "cancel"}
Handlers == [op : HandlerOps, id : Requests \cup {0}, n : Nat, mark : Nat]

Post(h) == strand' = Append(strand, h)
PostEvent(op) == Post(Handler(op, 0, 0, reserved))

\* Ends every live entry: one being written is aborted, one still queued (or
\* accepted with its handler still to run) is discarded.
LedgerEnd(f, cause) ==
    [r \in Requests |->
        CASE f[r] = "waiting" /\ cause = "stop" -> "stop discarded"
          [] f[r] = "active"  /\ cause = "stop" -> "stop aborted"
          [] f[r] = "waiting" /\ cause = "loss" -> "loss discarded"
          [] f[r] = "active"  /\ cause = "loss" -> "loss aborted"
          [] OTHER -> f[r]]

\* The requests of a sequence of items.
Ids(items) == {items[i].id : i \in DOMAIN items}

FaultBeginNothing(f, items) == f

\* begin_batch activates the batch only if every request is still live.
LedgerBegin(f, items) ==
    IF \A r \in Ids(items) : f[r] \in {"waiting", "active"}
    THEN [r \in Requests |-> IF r \in Ids(items) THEN "active" ELSE f[r]]
    ELSE f

\* complete_batch: the first k requests are covered by the written prefix.
LedgerComplete(f, items, k) ==
    [r \in Requests |->
        IF r \notin Ids(items) \/ f[r] \notin {"waiting", "active"} THEN f[r]
        ELSE IF \E i \in DOMAIN items : i <= k /\ items[i].id = r
             THEN "written" ELSE "loss aborted"]

FaultLastCause(cause) == cause

FirstCause(cause) == IF wait_ended_by = NoCause THEN cause ELSE wait_ended_by

Init ==
    /\ alive = FALSE /\ closing = FALSE /\ cleanup_done = FALSE
    /\ wait_ended_by = NoCause /\ open = TRUE
    /\ queue_bytes = 0 /\ pending_bytes = 0 /\ inflight_bytes = 0
    /\ backpressure_active = FALSE
    /\ tx = <<>> /\ pending = <<>>
    /\ batch = <<>> /\ bytes_to_write = 0 /\ writing = FALSE
    /\ strand = <<>>
    /\ pc = "idle" /\ decision = "none" /\ completing = FALSE
    /\ io = {} /\ idle = "off"
    /\ callbacks = TRUE /\ told = FALSE /\ close_calls = 0 /\ stopped = FALSE
    /\ accepted = 0 /\ fate = [r \in Requests |-> "unused"] /\ wire = <<>>
    /\ reserved = 0

-----------------------------------------------------------------------------
(* Caller threads and the owner.  do_write holds submission_mtx_ while it    *)
(* gathers, so nothing that takes the lock happens meanwhile.                *)
FaultUnlockedGather == TRUE

SubmissionFree == pc # "gather"

\* start_with_notification: alive at once, the rest on the strand.  The server
\* starts a session once, when it accepts it.
Start ==
    /\ ~alive /\ ~cleanup_done
    /\ alive' = TRUE
    /\ PostEvent("start")
    /\ UNCHANGED <<closing, cleanup_done, wait_ended_by, open, counters, queues,
                   write, control, io, idle, observers, accepted, fate, wire,
                   reserved>>

\* The accepting half of every write: reserve, record, post, under one lock.
Admit(n) ==
    /\ SubmissionFree
    /\ alive /\ ~closing
    /\ accepted < MaxRequests
    /\ n <= MAX_BUFFER_SIZE
    /\ accepted' = accepted + 1
    /\ fate' = [fate EXCEPT ![accepted + 1] = "waiting"]
    /\ UNCHANGED <<life, pending_bytes, backpressure_active, queues, write,
                   control, io, idle, observers, wire>>

\* write_copy, write_move, write_shared
Write(n) ==
    /\ Admit(n)
    /\ try_reserve_limit_bytes(queue_bytes, pending_bytes, inflight_bytes, n, bp_limit)
    /\ inflight_bytes' = inflight_bytes + n
    /\ reserved' = reserved + n
    /\ Post(Handler("plain", accepted + 1, n, reserved + n))
    /\ UNCHANGED queue_bytes

\* try_write_copy, try_write_move, try_write_shared.  The unlocked precheck
\* repeats conditions of the reservation, which decides.
TryWrite(n) ==
    /\ Admit(n)
    /\ try_reserve_write_bytes(queue_bytes, pending_bytes, inflight_bytes,
                               backpressure_active, n, bp_high, bp_limit)
    /\ queue_bytes' = queue_bytes + n
    /\ Post(Handler("try", accepted + 1, n, reserved))
    /\ UNCHANGED <<inflight_bytes, reserved>>

\* The owner's stop, first half: nothing is admitted or handed over any more.
request_stop ==
    /\ SubmissionFree
    /\ fate' = LedgerEnd(fate, "stop")
    /\ closing' = TRUE
    /\ wait_ended_by' = FirstCause("CancelledWhileWaiting")
    /\ stopped' = (stopped \/ ~cleanup_done)
    /\ UNCHANGED <<alive, cleanup_done, open, counters, queues, write, strand,
                   control, io, idle, callbacks, told, close_calls, accepted, wire,
                   reserved>>

cancel_write_wait ==
    /\ WithCancel
    /\ SubmissionFree
    /\ wait_ended_by' = FirstCause("CancelledWhileWaiting")
    /\ UNCHANGED <<alive, closing, cleanup_done, open, counters, queues, write,
                   strand, control, io, idle, observers, accepted, fate, wire,
                   reserved>>

\* A second stop or cancel while one is queued adds nothing, and is left out.
NotQueued(op) == \A i \in DOMAIN strand : strand[i].op # op

async_stop ==
    /\ SubmissionFree
    /\ NotQueued("stop")
    /\ fate' = LedgerEnd(fate, "stop")
    /\ closing' = TRUE
    /\ wait_ended_by' = FirstCause("NotReady")
    /\ PostEvent("stop")
    /\ stopped' = (stopped \/ ~cleanup_done)
    /\ UNCHANGED <<alive, cleanup_done, open, counters, queues, write, control,
                   io, idle, callbacks, told, close_calls, accepted, wire, reserved>>

cancel ==
    /\ WithCancel
    /\ open /\ NotQueued("cancel")
    /\ PostEvent("cancel")
    /\ UNCHANGED <<life, counters, queues, write, control, io, idle, observers,
                   accepted, fate, wire, reserved>>

-----------------------------------------------------------------------------
(* The socket and the timer.  A closed socket fails what is outstanding; an  *)
(* expiry that is already queued is beyond the timer's cancel().             *)
Complete(op, handler) ==
    /\ op \in io
    /\ io' = io \ {op}
    /\ Post(handler)
    /\ UNCHANGED <<life, counters, queues, write, control, idle, observers,
                   accepted, fate, wire, reserved>>

CompleteHandshake == open /\ Complete("handshake", Handler("handshake", 0, 0, reserved))
FailHandshake == Complete("handshake", Handler("handshake failed", 0, 0, reserved))
CompleteRead == open /\ Complete("read", Handler("read", 0, 0, reserved))
FailRead == Complete("read", Handler("read failed", 0, 0, reserved))
CompleteWrite == open /\ Complete("write", Handler("wrote", 0, Len(batch), reserved))
FailWrite ==
    \E k \in 0 .. Len(batch) : Complete("write", Handler("write failed", 0, k, reserved))

ExpireIdle ==
    /\ idle = "armed"
    /\ idle' = "due"
    /\ PostEvent("idle")
    /\ UNCHANGED <<life, counters, queues, write, control, io, observers,
                   accepted, fate, wire, reserved>>

-----------------------------------------------------------------------------
(* The strand.  A handler starts when none is running; a plain write stays   *)
(* at the head of the queue until its reservation is committed.              *)
Running(op) ==
    /\ pc = "idle"
    /\ strand # <<>>
    /\ Head(strand).op = op

Done == strand' = Tail(strand) /\ UNCHANGED control

Usable == alive /\ ~closing

\* Cancel and re-arm.  A wait that already expired stays queued.
reset_idle_timer == idle' = IF IdleTimeout THEN "armed" ELSE idle

\* The callbacks are cleared before on_close_ is taken.
FaultForgetsToTell(f, cb) ==
    IF cleanup_done
    THEN /\ fate' = f
         /\ callbacks' = cb
         /\ UNCHANGED <<life, queue_bytes, pending_bytes, backpressure_active,
                        queues, idle, told, close_calls>>
    ELSE /\ cleanup_done' = TRUE
         /\ alive' = FALSE /\ closing' = TRUE
         /\ fate' = LedgerEnd(f, "loss")
         /\ wait_ended_by' = FirstCause("NotReady")
         /\ open' = FALSE
         /\ tx' = <<>> /\ queue_bytes' = 0
         /\ pending' = <<>> /\ pending_bytes' = 0
         /\ backpressure_active' = FALSE
         /\ told' = IF cb /\ backpressure_active THEN FALSE ELSE told
         /\ callbacks' = FALSE
         /\ idle' = "off"
         /\ UNCHANGED close_calls

\* do_close, with the ledger f as the handler has left it so far and cb telling
\* whether the callbacks are still installed.  It runs once.
do_close(f, cb) ==
    IF cleanup_done
    THEN /\ fate' = f
         /\ callbacks' = cb
         /\ UNCHANGED <<life, queue_bytes, pending_bytes, backpressure_active,
                        queues, idle, told, close_calls>>
    ELSE /\ cleanup_done' = TRUE
         /\ alive' = FALSE /\ closing' = TRUE
         /\ fate' = LedgerEnd(f, "loss")
         /\ wait_ended_by' = FirstCause("NotReady")
         /\ open' = FALSE
         /\ tx' = <<>> /\ queue_bytes' = 0
         /\ pending' = <<>> /\ pending_bytes' = 0
         /\ backpressure_active' = FALSE
         /\ told' = IF cb /\ backpressure_active THEN FALSE ELSE told
         /\ callbacks' = FALSE
         /\ idle' = "off"
         /\ close_calls' = IF cb THEN close_calls + 1 ELSE close_calls

\* What do_close leaves alone.
CloseFrame == UNCHANGED <<inflight_bytes, stopped, accepted, wire, reserved>>

Skip ==
    UNCHANGED <<life, counters, queues, idle, observers, accepted, fate, wire, reserved>>

\* The handler start_with_notification posts: arm the timer, start the
\* handshake (a plain socket completes it at once), notify the owner.
RunStart ==
    /\ Running("start")
    /\ Done
    /\ IF Usable THEN reset_idle_timer /\ io' = io \cup {"handshake"}
                 ELSE UNCHANGED <<idle, io>>
    /\ UNCHANGED <<life, counters, queues, write, observers, accepted, fate,
                   wire, reserved>>

RunHandshake ==
    /\ Running("handshake")
    /\ Done
    /\ IF Usable THEN reset_idle_timer /\ io' = io \cup {"read"}
                 ELSE UNCHANGED <<idle, io>>
    /\ UNCHANGED <<life, counters, queues, write, observers, accepted, fate,
                   wire, reserved>>

RunHandshakeFailed ==
    /\ Running("handshake failed")
    /\ Done
    /\ IF Usable THEN do_close(fate, callbacks) /\ CloseFrame ELSE Skip
    /\ UNCHANGED <<write, io>>

\* Bytes received: activity, on_bytes, the next read.
RunRead ==
    /\ Running("read")
    /\ Done
    /\ IF Usable THEN reset_idle_timer /\ io' = io \cup {"read"}
                 ELSE UNCHANGED <<idle, io>>
    /\ UNCHANGED <<life, counters, queues, write, observers, accepted, fate,
                   wire, reserved>>

\* A read error is taken for the end of the handler.
FaultIgnoresReadError ==
    /\ Running("read failed")
    /\ Done
    /\ Skip
    /\ UNCHANGED <<write, io>>

RunReadFailed ==
    /\ Running("read failed")
    /\ Done
    /\ IF Usable THEN do_close(fate, callbacks) /\ CloseFrame ELSE Skip
    /\ UNCHANGED <<write, io>>

\* An expiry that was overtaken takes the new deadline with it.
FaultStaleDisarms ==
    /\ Running("idle")
    /\ Done
    /\ IF idle # "armed" /\ Usable THEN do_close(fate, callbacks) /\ CloseFrame
       ELSE idle' = "off" /\ UNCHANGED <<life, counters, queues, observers, accepted,
                                         fate, wire, reserved>>
    /\ UNCHANGED <<write, io>>

\* expiry() > now() tells an expiry that later activity has overtaken.
RunIdle ==
    /\ Running("idle")
    /\ Done
    /\ IF idle # "armed" /\ Usable THEN do_close(fate, callbacks) /\ CloseFrame ELSE Skip
    /\ UNCHANGED <<write, io>>

\* The handler returns early because closing_ is set.
FaultStopSkipsCleanup ==
    /\ Running("stop")
    /\ Done
    /\ IF Usable THEN do_close(fate, FALSE) /\ CloseFrame ELSE Skip
    /\ UNCHANGED <<write, io>>

\* async_stop's handler drops the callbacks before it closes.
RunStop ==
    /\ Running("stop")
    /\ Done
    /\ do_close(fate, FALSE)
    /\ CloseFrame
    /\ UNCHANGED <<write, io>>

RunCancel ==
    /\ Running("cancel")
    /\ Done
    /\ open' = FALSE
    /\ idle' = "off"
    /\ UNCHANGED <<alive, closing, cleanup_done, wait_ended_by, counters, queues,
                   write, io, observers, accepted, fate, wire, reserved>>

-----------------------------------------------------------------------------
(* The write path on the strand.                                             *)

\* A plain write's handler after a close only gives its reservation back.
RunPlainClosed ==
    /\ Running("plain")
    /\ ~Usable
    /\ inflight_bytes' = release_reserved_limit_bytes(inflight_bytes, Head(strand).n)
    /\ Done
    /\ UNCHANGED <<life, queue_bytes, pending_bytes, backpressure_active, queues,
                   write, io, idle, observers, accepted, fate, wire, reserved>>

\* route_enqueued_buffer, first step: decide_enqueue reads the counters.
RunPlain ==
    /\ Running("plain")
    /\ Usable
    /\ decision' = decide_enqueue(queue_bytes, pending_bytes, backpressure_active,
                                  Head(strand).n, bp_limit)
    /\ pc' = "commit"
    /\ UNCHANGED <<life, counters, queues, write, strand, completing, io, idle,
                   observers, accepted, fate, wire, reserved>>

\* The falling edge forgets the held-back requests, or puts them first.
FaultNoFlush(queued, next) ==
    IF Usable /\ FallingEdge(backpressure_active, queued, bp_low)
    THEN /\ pc' = "flushed"
         /\ UNCHANGED <<queue_bytes, pending_bytes, backpressure_active, queues, told>>
    ELSE /\ pc' = next
         /\ IF Usable /\ RisingEdge(backpressure_active, queued, bp_high)
            THEN /\ backpressure_active' = TRUE
                 /\ told' = IF callbacks THEN TRUE ELSE told
            ELSE UNCHANGED <<backpressure_active, told>>
         /\ UNCHANGED <<queue_bytes, pending_bytes, queues>>
FaultFlushInFront(queued, next) ==
    IF Usable /\ FallingEdge(backpressure_active, queued, bp_low)
    THEN /\ tx' = pending \o tx
         /\ pending' = <<>>
         /\ pending_bytes' = 0
         /\ queue_bytes' = queue_bytes + pending_bytes
         /\ pc' = "flushed"
         /\ UNCHANGED <<backpressure_active, told>>
    ELSE FaultNoFlush(queued, next)

\* report_backpressure(queued): the rising edge, or the flush that begins the
\* falling edge under the reservation mutex.  next is where the handler goes on
\* when no falling edge was found.
report_backpressure(queued, next) ==
    IF ~Usable THEN /\ pc' = next
                    /\ UNCHANGED <<queue_bytes, pending_bytes, backpressure_active,
                                   queues, told>>
    ELSE IF RisingEdge(backpressure_active, queued, bp_high)
    THEN /\ backpressure_active' = TRUE
         /\ told' = IF callbacks THEN TRUE ELSE told
         /\ pc' = next
         /\ UNCHANGED <<queue_bytes, pending_bytes, queues>>
    ELSE IF FallingEdge(backpressure_active, queued, bp_low)
    THEN /\ tx' = tx \o pending
         /\ pending' = <<>>
         /\ pending_bytes' = 0
         /\ queue_bytes' = queue_bytes + pending_bytes
         /\ pc' = "flushed"
         /\ UNCHANGED <<backpressure_active, told>>
    ELSE /\ pc' = next
         /\ UNCHANGED <<queue_bytes, pending_bytes, backpressure_active, queues, told>>

\* route_enqueued_buffer, second step: commit_reserved_limit_bytes moves the
\* reservation h out of inflight_bytes and into the counter of its queue.
EnqueueImmediate(h) ==
    /\ queue_bytes' = queue_bytes + h.n
    /\ tx' = Append(tx, Item(h.id, h.n, "plain"))
    /\ pc' = "report"
    /\ UNCHANGED <<pending_bytes, backpressure_active, pending, told, fate>>

EnqueuePending(h) ==
    /\ pending_bytes' = pending_bytes + h.n
    /\ pending' = Append(pending, Item(h.id, h.n, "plain"))
    /\ pc' = "idle"
    /\ UNCHANGED <<queue_bytes, backpressure_active, tx, told, fate>>

\* The reservation is meant to make this branch unreachable.
DropRejected(h) ==
    /\ fate' = [fate EXCEPT ![h.id] =
                    IF @ \in {"waiting", "active"} THEN "pressure discarded" ELSE @]
    /\ report_backpressure(queue_bytes + h.n, "idle")

Commit ==
    /\ pc = "commit"
    /\ strand' = Tail(strand)
    /\ inflight_bytes' = release_reserved_limit_bytes(inflight_bytes, Head(strand).n)
    /\ CASE decision = "Immediate" -> EnqueueImmediate(Head(strand))
         [] decision = "Pending"   -> EnqueuePending(Head(strand))
         [] decision = "Rejected"  -> DropRejected(Head(strand))
    /\ decision' = "none"
    /\ UNCHANGED <<life, write, completing, io, idle, callbacks, close_calls, stopped,
                   accepted, wire, reserved>>

\* A try-write already owns its bytes of queue_bytes and goes straight to tx_.
RunTry ==
    /\ Running("try")
    /\ strand' = Tail(strand)
    /\ IF Usable
       THEN /\ tx' = Append(tx, Item(Head(strand).id, Head(strand).n, "try"))
            /\ pc' = "report"
            /\ UNCHANGED queue_bytes
       ELSE /\ queue_bytes' = release_reserved_write_bytes(queue_bytes, Head(strand).n)
            /\ UNCHANGED <<tx, pc>>
    /\ UNCHANGED <<life, pending_bytes, inflight_bytes, backpressure_active,
                   pending, write, decision, completing, io, idle, observers,
                   accepted, fate, wire, reserved>>

Report ==
    /\ pc = "report"
    /\ report_backpressure(queue_bytes, "after")
    /\ UNCHANGED <<life, inflight_bytes, write, strand, decision, completing, io,
                   idle, callbacks, close_calls, stopped, accepted, fate, wire, reserved>>

\* The falling edge after the flush: clear the flag and tell the user ...
ClearBackpressure ==
    /\ pc = "flushed"
    /\ backpressure_active' = FALSE
    /\ told' = IF callbacks THEN FALSE ELSE told
    /\ pc' = "cleared"
    /\ UNCHANGED <<life, queue_bytes, pending_bytes, inflight_bytes, queues, write,
                   strand, decision, completing, io, idle, callbacks, close_calls, stopped,
                   accepted, fate, wire, reserved>>

FaultSilentRearm ==
    /\ pc = "cleared"
    /\ backpressure_active' = (queue_bytes >= bp_high)
    /\ pc' = "after"
    /\ UNCHANGED <<life, queue_bytes, pending_bytes, inflight_bytes, queues, write,
                   strand, decision, completing, io, idle, observers, accepted,
                   fate, wire, reserved>>

\* ... and arm it again if what was flushed reaches the threshold.
RearmBackpressure ==
    /\ pc = "cleared"
    /\ IF queue_bytes >= bp_high
       THEN /\ backpressure_active' = TRUE
            /\ told' = IF callbacks THEN TRUE ELSE told
       ELSE UNCHANGED <<backpressure_active, told>>
    /\ pc' = "after"
    /\ UNCHANGED <<life, queue_bytes, pending_bytes, inflight_bytes, queues, write,
                   strand, decision, completing, io, idle, callbacks, close_calls, stopped,
                   accepted, fate, wire, reserved>>

\* The end of an enqueue handler or of a write's completion: do_write, unless a
\* write is in flight.  The completion keeps writing_ set until here.
DoWrite ==
    /\ pc = "after"
    /\ IF ~Usable \/ tx = <<>> \/ (writing /\ ~completing)
       THEN /\ pc' = "idle"
            /\ writing' = (writing /\ ~completing)
            /\ UNCHANGED <<batch, bytes_to_write>>
       ELSE /\ pc' = "gather"
            /\ writing' = TRUE
            /\ batch' = <<>> /\ bytes_to_write' = 0
    /\ IF completing /\ Usable THEN reset_idle_timer ELSE UNCHANGED idle
    /\ completing' = FALSE
    /\ UNCHANGED <<life, counters, queues, strand, decision, io, observers,
                   accepted, fate, wire, reserved>>

\* One turn of take_gather_batch's loop.
Gather ==
    /\ pc = "gather"
    /\ GatherMore(tx, batch, bytes_to_write, kMaxGatherBuffers, kMaxGatherBytes)
    /\ batch' = Append(batch, Head(tx))
    /\ tx' = Tail(tx)
    /\ bytes_to_write' = bytes_to_write + Head(tx).n
    /\ UNCHANGED <<life, counters, pending, writing, strand, control, io, idle,
                   observers, accepted, fate, wire, reserved>>

Offered(items) == [i \in DOMAIN items |-> [id |-> items[i].id, kind |-> items[i].kind]]

\* The end of do_write's critical section.  The answer of begin_batch is not
\* looked at.
BeginBatch ==
    /\ pc = "gather"
    /\ ~GatherMore(tx, batch, bytes_to_write, kMaxGatherBuffers, kMaxGatherBytes)
    /\ fate' = LedgerBegin(fate, batch)
    /\ wire' = wire \o Offered(batch)
    /\ pc' = "initiate"
    /\ UNCHANGED <<life, counters, queues, write, strand, decision, completing, io,
                   idle, observers, accepted, reserved>>

\* async_write, outside the lock: a stop may have come in between.
Handoff ==
    /\ pc = "initiate"
    /\ io' = io \cup {"write"}
    /\ pc' = "idle"
    /\ UNCHANGED <<life, counters, queues, write, strand, decision, completing,
                   idle, observers, accepted, fate, wire, reserved>>

\* async_write throws while it starts the operation.
HandoffThrows ==
    /\ pc = "initiate"
    /\ do_close(LedgerEnd(fate, "loss"), callbacks)
    /\ pc' = "idle"
    /\ CloseFrame
    /\ UNCHANGED <<write, strand, decision, completing, io>>

\* The completion handler.  After a close it only drops the batch.
RunWroteClosed ==
    /\ Running("wrote") \/ Running("write failed")
    /\ ~Usable
    /\ batch' = <<>> /\ bytes_to_write' = 0
    /\ Done
    /\ Skip
    /\ UNCHANGED <<writing, io>>

\* The completion does not look at backpressure.
FaultNoReport ==
    /\ Running("wrote")
    /\ Usable
    /\ fate' = LedgerComplete(fate, batch, Head(strand).n)
    /\ batch' = <<>> /\ bytes_to_write' = 0
    /\ queue_bytes' = release_reserved_write_bytes(queue_bytes, bytes_to_write)
    /\ completing' = TRUE
    /\ pc' = "after"
    /\ strand' = Tail(strand)
    /\ UNCHANGED <<life, pending_bytes, inflight_bytes, backpressure_active, queues,
                   writing, decision, io, idle, observers, accepted, wire, reserved>>

RunWrote ==
    /\ Running("wrote")
    /\ Usable
    /\ fate' = LedgerComplete(fate, batch, Head(strand).n)
    /\ batch' = <<>> /\ bytes_to_write' = 0
    /\ queue_bytes' = release_reserved_write_bytes(queue_bytes, bytes_to_write)
    /\ completing' = TRUE
    /\ pc' = "report"
    /\ strand' = Tail(strand)
    /\ UNCHANGED <<life, pending_bytes, inflight_bytes, backpressure_active, queues,
                   writing, decision, io, idle, observers, accepted,
                   wire, reserved>>

RunWriteFailed ==
    /\ Running("write failed")
    /\ Usable
    /\ batch' = <<>> /\ bytes_to_write' = 0
    /\ Done
    /\ do_close(LedgerEnd(LedgerComplete(fate, batch, Head(strand).n), "loss"), callbacks)
    /\ CloseFrame
    /\ UNCHANGED <<writing, io>>

-----------------------------------------------------------------------------
Callers == \E n \in 1 .. MaxSize : Write(n) \/ TryWrite(n)
Owner == Start \/ request_stop \/ cancel_write_wait \/ async_stop \/ cancel
Kernel ==
    \/ CompleteHandshake \/ FailHandshake
    \/ CompleteRead \/ FailRead
    \/ CompleteWrite \/ FailWrite
    \/ ExpireIdle
Strand ==
    \/ RunStart \/ RunHandshake \/ RunHandshakeFailed
    \/ RunRead \/ RunReadFailed
    \/ RunIdle \/ RunStop \/ RunCancel
    \/ RunPlainClosed \/ RunPlain \/ Commit \/ RunTry
    \/ Report \/ ClearBackpressure \/ RearmBackpressure
    \/ DoWrite \/ Gather \/ BeginBatch \/ Handoff \/ HandoffThrows
    \/ RunWroteClosed \/ RunWrote \/ RunWriteFailed

Next == Callers \/ Owner \/ Kernel \/ Strand

Spec == Init /\ [][Next]_vars

\* The io_context's thread keeps running handlers; the kernel finishes or fails
\* the write it was given, and asio fails what is outstanding on a closed socket.
FairSpec ==
    /\ Spec
    /\ WF_vars(Strand)
    /\ WF_vars(CompleteWrite \/ FailWrite)
    /\ WF_vars(~open /\ FailHandshake)
    /\ WF_vars(~open /\ FailRead)

-----------------------------------------------------------------------------
(* Properties.                                                               *)

PCs == {"idle", "commit", "report", "flushed", "cleared", "after", "gather",
        "initiate"}

LifeType ==
    /\ alive \in BOOLEAN /\ closing \in BOOLEAN /\ cleanup_done \in BOOLEAN
    /\ wait_ended_by \in {NoCause, "CancelledWhileWaiting", "NotReady"}
    /\ open \in BOOLEAN
CountersType ==
    /\ queue_bytes \in Nat /\ pending_bytes \in Nat /\ inflight_bytes \in Nat
    /\ backpressure_active \in BOOLEAN
QueuesType == tx \in Seq(Items) /\ pending \in Seq(Items)
WriteType == batch \in Seq(Items) /\ bytes_to_write \in Nat /\ writing \in BOOLEAN
StrandType == strand \in Seq(Handlers)
ControlType ==
    /\ pc \in PCs
    /\ decision \in {"none", "Immediate", "Pending", "Rejected"}
    /\ completing \in BOOLEAN
IoType == io \subseteq {"handshake", "read", "write"} /\ idle \in {"off", "armed", "due"}
ObserversType ==
    /\ callbacks \in BOOLEAN /\ told \in BOOLEAN
    /\ close_calls \in Nat /\ stopped \in BOOLEAN
OutcomesType ==
    /\ accepted \in 0 .. MaxRequests
    /\ fate \in [Requests -> Fates]
    /\ wire \in Seq([id : Requests, kind : {"plain", "try"}])
    /\ reserved \in Nat

\* Every variable has its type: in particular the byte counters never go below
\* zero, and what the queues, the strand and the wire hold are requests.
TypeOK ==
    /\ LifeType /\ CountersType /\ QueuesType /\ WriteType /\ StrandType
    /\ ControlType /\ IoType /\ ObserversType /\ OutcomesType

\* The bytes a session holds for its peer - queued, held back, and accepted but
\* not yet routed - never exceed the hard limit, whatever the callers and the
\* strand interleave (try_reserve_limit_bytes, commit_reserved_limit_bytes).
HardLimit == queue_bytes + pending_bytes + inflight_bytes <= bp_limit

\* A write that was accepted is never dropped by route_enqueued_buffer: the
\* defensive Rejected branch is not taken.
AcceptedNotRejected == decision # "Rejected"

\* Backpressure is on only while something is bound to re-evaluate it: a write
\* in flight, or an accepted try-write whose handler will report.
PressureHasDriver ==
    pc = "idle" /\ Usable /\ backpressure_active =>
        writing \/ \E i \in DOMAIN strand : strand[i].op = "try"

\* Between handlers the user's last on_backpressure callback agrees with the
\* flag, until the callbacks are removed.
BackpressureReported == pc = "idle" /\ callbacks => told = backpressure_active

\* Whether the ledger calls a loss "discarded before write" or "aborted during
\* write" agrees with whether do_write had taken the request into a batch.
LossPhaseIsTrue ==
    \A r \in Requests :
        fate[r] \in {"active", "written", "stop aborted", "loss aborted"}
            <=> r \in Ids(wire)

\* Requests of one family (plain, or try) are written in the order in which they
\* were accepted, and none twice.
FamilyOrder ==
    \A i, j \in DOMAIN wire :
        i < j /\ wire[i].kind = wire[j].kind => wire[i].id < wire[j].id

\* Requests are written in the order in which they were accepted, across
\* all send API families (docs/communication_contract_v0.10.md:159).
AcceptanceOrder ==
    \A i, j \in DOMAIN wire : i < j => wire[i].id < wire[j].id

\* The bytes of a queue of items, and of the handlers of one family of writes.
SizeOf(items) == Total([i \in DOMAIN items |-> items[i].n])
BytesOf(handlers, op) ==
    Total([i \in DOMAIN handlers |-> IF handlers[i].op = op THEN handlers[i].n ELSE 0])

\* Each counter is exactly the bytes it stands for: no release is missing and
\* none is made twice, which the saturating subtractions would hide.  From the
\* close on, queue_bytes only has to end at zero.
CountersExact ==
    /\ inflight_bytes = BytesOf(strand, "plain")
    /\ pending_bytes = SizeOf(pending)
    /\ ~closing => queue_bytes = SizeOf(tx) + SizeOf(batch) + BytesOf(strand, "try")
    /\ cleanup_done => queue_bytes = 0

\* on_close is called exactly once for a session that closes by itself, whichever
\* of read error, write error, handshake error, idle expiry and cancel() got to
\* do_close first; at most once, and not before the close, for one that its owner
\* had asked to stop (async_stop removes the callback).
CloseToldOnce ==
    /\ close_calls <= 1
    /\ close_calls = 1 => cleanup_done
    /\ cleanup_done /\ ~stopped => close_calls = 1

\* A session in use always has an idle deadline: the timer is armed, or its expiry
\* is queued and will close the session.  An expiry that activity overtook is
\* ignored without taking the deadline that replaced it.
IdleHasDeadline ==
    IdleTimeout /\ Usable /\ open /\ NotQueued("start") =>
        idle = "armed" \/ (idle = "due" /\ ~NotQueued("idle"))

\* Once closing is set - request_stop has returned, or a loss was noticed - no
\* further batch is begun: do_write's check and begin_batch are one critical
\* section, so no stop falls between them.
NoHandoffAfterClose == [][closing => wire' = wire]_vars

\* A request's outcome is final, and the cause a blocked sender is given is the
\* first one.
OutcomeIsFinal ==
    [][/\ \A r \in Requests : fate[r] \in Terminated \cup {"written"} => fate'[r] = fate[r]
       /\ wait_ended_by # NoCause => wait_ended_by' = wait_ended_by]_vars

\* An accepted request is eventually written or given the cause of its loss.
AcceptedSettles ==
    \A r \in Requests :
        fate[r] = "waiting" ~> fate[r] \in Terminated \cup {"written"}

\* A sender blocked on backpressure is eventually released: the pressure clears
\* or the session stops being usable.
BlockedSendReleased == backpressure_active ~> (~backpressure_active \/ closing)

\* async_stop always runs its cleanup.
StopCompletes == (\E i \in DOMAIN strand : strand[i].op = "stop") ~> cleanup_done

\* A failure of the connection is never lost: once cancel() has closed the socket,
\* or the handler of a failed operation is queued, the owner is told of the close,
\* unless it has asked for the stop itself.  (Every handler returns early when
\* closing_ is set, so another one must have told.)
LossTold ==
    (\/ ~open /\ alive
     \/ \E i \in DOMAIN strand :
            strand[i].op \in {"handshake failed", "read failed", "write failed"})
        ~> (close_calls = 1 \/ stopped)
=============================================================================
