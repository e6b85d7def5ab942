------------------------------ MODULE Wrapper ------------------------------
(***************************************************************************)
(* What the seven public wrappers have in common: the Impl of each file of *)
(* wirestead/wrapper, here the record w, between its callers and its       *)
(* transport.  Three threads act on it: "owner" calls start() and stop(),  *)
(* one after the other as the contract asks; "sender" sends and            *)
(* configures; "io" runs what the transport calls and the batch timers,    *)
(* one handler at a time, and the user's callbacks in them, which may send *)
(* or stop.                                                                *)
(*                                                                         *)
(* A handler is the sequence todo of the steps it has left, so that other  *)
(* threads come in between them.  What a handler does under one hold of    *)
(* mutex_ is one step, and so is each use of the gate.  Shared and         *)
(* exclusive holds of mutex_ never contain a wait, so no step waits for    *)
(* the lock.  bp_cv_ is left out: its waits poll every 50 ms.              *)
(*                                                                         *)
(* The transport is reduced to what the wrapper sees of it: whether it     *)
(* runs, the number conn of its connection (a server's: of its one client  *)
(* session), whether that is up and under pressure, and how far a stop has *)
(* got.  Payloads are the number of the connection they came from.         *)
(***************************************************************************)
EXTENDS CallbackGate, Sequences

CONSTANTS
    BatchSize,          \* max_batch_size_
    MaxRuns, MaxConns   \* bounds: generations of the gate, connections

ASSUME WrapperAssumption ==
    /\ {BatchSize, MaxRuns, MaxConns} \subseteq Nat /\ BatchSize > 0 /\ MaxConns > 0

VARIABLE w

Threads == {"io", "owner", "sender"}
Senders == {"io", "sender"}

\* missed is history: since the call selected its target, that connection was
\* lost or a stop() was called.
NoSend == [at |-> "none", pin |-> 0, run |-> 0, missed |-> FALSE]

\* injected: built on a caller's channel, whose stop() is not known to wait.
\* batching: batch handlers are registered rather than per-message ones.
NewImpl(kind, injected, batching) ==
    [kind |-> kind, injected |-> injected, batching |-> batching,
     gate |-> NewGate, started |-> FALSE, stop_requested |-> FALSE, alive |-> TRUE,
     promises |-> 0, limits |-> "in use", stopped |-> FALSE, is_listening |-> FALSE,
     connected |-> FALSE, terminal_error |-> FALSE,
     channel |-> injected, hooked |-> FALSE, running |-> FALSE, link |-> "Idle",
     conn |-> 1, up |-> FALSE, pressure |-> FALSE, stopping |-> "no", cancelled |-> FALSE,
     session |-> 0, data |-> <<>>, messages |-> <<>>, timer |-> 0, expired |-> {},
     todo |-> <<>>, run |-> 0, event |-> "none", lost |-> FALSE, error |-> FALSE,
     stops |-> [t \in Threads |-> "none"], sends |-> [t \in Senders |-> NoSend]]

stop_callers(s) == {t \in Threads : s.stops[t] # "none"}

-----------------------------------------------------------------------------
(* Handlers on the io thread.                                              *)

\* The callback in progress, if any, is not itself inside stop() or a send.
At(step) ==
    /\ w.todo # <<>> /\ Head(w.todo) = step
    /\ w.stops["io"] = "none" /\ w.sends["io"].at = "none"

\* The rest of the handler, with further steps first; and its return.
Then(s, steps) == [s EXCEPT !.todo = steps \o Tail(@)]
Return(s) == [s EXCEPT !.todo = <<"end">>]

Enter(s) == [s EXCEPT !.gate = enter(@, "io")]
Admits(s) == admitted(s.gate, s.run)

\* The transport calls the registered handler, which captured its generation.
Call(s, event, steps) ==
    IF ~s.hooked THEN s
    ELSE [s EXCEPT !.todo = steps, !.event = event, !.run = s.gate.generation]

\* weak_alive.lock(): every generation but the first has a marker of its own.
Alive ==
    /\ At("alive")
    /\ w' = IF w.alive /\ w.run = w.gate.generation THEN Then(w, <<>>) ELSE Return(w)

Admission ==
    /\ At("enter")
    /\ w' = IF Admits(w) THEN Then(Enter(w), <<>>) ELSE Return(w)

UserReturns == At("user") /\ w' = Then(w, <<>>)

HandlerEnds ==
    /\ At("end")
    /\ w' = [w EXCEPT !.todo = <<>>, !.gate = release(@, "io"), !.run = 0,
                      !.event = "none", !.lost = FALSE, !.error = FALSE]

\* invoke_user_callback, for a handler that is registered.
Invoke(s) == Then(s, <<"user">>)

ClearBatches(s) == [s EXCEPT !.data = <<>>, !.messages = <<>>]

\* Appends to a batch.  A full one goes to the user; a first item needs the timer,
\* which schedule_batch_timer() then leaves as timer.
Batch(s, queue, timer) ==
    LET items == Append(s[queue], s.conn)
    IN  IF Len(items) >= BatchSize THEN Invoke([s EXCEPT ![queue] = <<>>])
        ELSE Then([s EXCEPT ![queue] = items,
                            !.timer = IF Len(items) = 1 THEN timer ELSE @], <<>>)

\* A timer that expires queues its handler, which cancelling cannot retract.
TimerExpires ==
    /\ w.timer # 0
    /\ w' = [w EXCEPT !.timer = 0, !.expired = @ \cup {[run |-> w.gate.generation, session |-> w.timer]}]

RunTimer(steps) ==
    \E e \in w.expired :
        /\ w.todo = <<>>
        /\ w' = [w EXCEPT !.expired = @ \ {e}, !.todo = steps, !.run = e.run,
                          !.event = e.session]

-----------------------------------------------------------------------------
(* The transport.                                                          *)

Available(s) == s.channel /\ s.running /\ s.stopping = "no" /\ s.up

Idle(s) == s.todo = <<>> /\ s.running /\ s.stopping = "no"

\* History: the sends that are between their selection and their outcome.
Missed(s) ==
    [s EXCEPT !.sends = [t \in Senders |->
        IF s.sends[t].at \in {"check", "wait", "final"}
        THEN [s.sends[t] EXCEPT !.missed = TRUE] ELSE s.sends[t]]]

\* The connection ends, with its queue and with the waits for room in it.
Disconnect(s) ==
    [Missed(s) EXCEPT !.up = FALSE, !.conn = @ + 1, !.pressure = FALSE, !.cancelled = FALSE]

Halt(s) ==
    [(IF s.up THEN Disconnect(s) ELSE s) EXCEPT !.stopping = "done", !.running = FALSE, !.link = "Idle"]

\* Admission of a write that is pinned to a connection.
native_write(s, pin) == IF Available(s) /\ s.conn = pin THEN {"accepted", "full"} ELSE {"rejected"}

PressureChanges(steps) ==
    /\ Idle(w) /\ w.up
    /\ w' = Call([w EXCEPT !.pressure = ~@], "pressure", steps)

\* What stop() posted to the strand.  The transport reports Closed to handlers
\* that a closed gate refuses.
Cleanup ==
    /\ w.todo = <<>> /\ w.stopping = "asked"
    /\ w' = Halt(w)

-----------------------------------------------------------------------------
(* stop(), on any thread.                                                  *)

FaultAlwaysWaits(s, t) == FALSE
shutdown_needs_this_thread(s, t) == active_on_this_thread(s.gate, t) \/ t = "io"

StopBegins(s, t) == [Missed(s) EXCEPT !.stops[t] = "request", !.gate = close(@)]

\* The first hold of mutex_, with cancel_write_waits() on the transport.
StopRequests(t) ==
    /\ w.stops[t] = "request"
    /\ w' = [w EXCEPT !.stop_requested = TRUE, !.started = FALSE, !.is_listening = FALSE,
                      !.cancelled = w.up, !.promises = 0, !.stops[t] = "channel"]

\* channel->stop().  A transport that never ran is cleaned up on the spot.
StopsChannel(t) ==
    /\ w.stops[t] = "channel"
    /\ LET s == IF ~w.channel \/ w.stopping # "no" THEN w
                ELSE IF w.injected THEN Halt(w)
                ELSE [w EXCEPT !.stopping = IF w.running THEN "asked" ELSE "done"]
       IN  w' = [s EXCEPT !.stops[t] = IF shutdown_needs_this_thread(w, t) THEN "none" ELSE "wait"]

\* Waits for the transport, then for the gate; the rest is the final hold of
\* mutex_.  Joining an external context's thread adds nothing to the wait.
StopCompletes(t) ==
    /\ w.stops[t] = "wait"
    /\ w.channel => w.stopping = "done"
    /\ idle(w.gate)
    /\ w' = [ClearBatches(w) EXCEPT !.alive = FALSE, !.timer = 0, !.session = 0, !.hooked = FALSE,
                                    !.channel = w.injected, !.stopped = TRUE, !.stops[t] = "none"]

StopCalled == w.gate.generation > 0 /\ w.stops["owner"] = "none" /\ w' = StopBegins(w, "owner")
UserStops == At("user") /\ w' = StopBegins(Then(w, <<>>), "io")

StopProceeds(t) == StopRequests(t) \/ StopsChannel(t) \/ StopCompletes(t)

-----------------------------------------------------------------------------
(* start(), on the owner's thread: never before, or after a stop() that    *)
(* waited, or again in a run that has not failed.                          *)

MayStart ==
    /\ w.stops["owner"] = "none"
    /\ \/ w.started /\ w.link # "Down" /\ w.promises = 0
       \/ /\ ~w.started /\ (w.stopped \/ ~w.stop_requested) /\ stop_callers(w) = {}
          /\ w.gate.generation < MaxRuns /\ w.conn <= MaxConns

\* setup_internal_handlers(), and channel_->start() on the transport.
OpenRun(s) ==
    [s EXCEPT !.alive = TRUE, !.channel = TRUE, !.hooked = TRUE, !.stopped = FALSE, !.limits = "in use",
              !.gate = open_new_generation(@), !.started = TRUE, !.connected = FALSE, !.terminal_error = FALSE,
              !.running = TRUE, !.stopping = "no", !.link = "Connecting", !.promises = @ + 1]

Starts(ready) ==
    /\ MayStart
    /\ w' = LET s == [w EXCEPT !.stop_requested = FALSE]
            IN  IF ready THEN [s EXCEPT !.started = w.kind = "udp_server" => @]
                ELSE IF w.started THEN [s EXCEPT !.promises = @ + 1]
                ELSE OpenRun(s)

\* What may be set only after a completed stop; limits stands for all of it.
require_stopped_config(s) ==
    ~s.started /\ stop_callers(s) = {} /\ ~(s.stop_requested /\ s.alive)

Configures == require_stopped_config(w) /\ w' = [w EXCEPT !.limits = "new"]

-----------------------------------------------------------------------------
(* Sends, on the sender's thread or in a callback.                         *)

send_state(s) == stop_callers(s) = {} /\ s.started /\ s.channel

FaultWaitsAnywhere(t) == FALSE
\* A callback, or any task of the executor that has to make room, may not wait.
cannot_wait(t) == t = "io"

MaySend(t) == w.sends[t].at = "none" /\ (t = "io" => At("user"))

Accepted(s, t) ==
    [s EXCEPT !.sends[t] = [NoSend EXCEPT !.at = "accepted", !.missed = s.sends[t].missed]]
Rejected(s, t) == [s EXCEPT !.sends[t] = NoSend]

\* A refusal changes nothing here.
NonblockingSend(t) ==
    /\ MaySend(t) /\ send_state(w)
    /\ "accepted" \in native_write(w, w.conn) /\ w' = Accepted(w, t)

SendReturns(t) == w.sends[t].at = "accepted" /\ w' = [w EXCEPT !.sends[t] = NoSend]

\* Selects the run and the connection together.  The fast path writes on the
\* spot when there is no pressure.
BlockingSend(t, fast) ==
    /\ MaySend(t) /\ send_state(w) /\ Available(w)
    /\ LET captured == [w EXCEPT !.sends[t] =
               [at |-> "check", pin |-> w.conn, run |-> w.gate.generation, missed |-> FALSE]]
       IN  IF fast /\ ~w.pressure
           THEN \/ w' = Accepted(w, t)
                \/ w' = IF cannot_wait(t) THEN Rejected(w, t) ELSE captured
           ELSE w' = captured

\* Whether the wait is skipped: final admission then finds out why.
immediate(s, t) ==
    \/ s.gate.generation # s.sends[t].run \/ ~s.started \/ ~s.channel
    \/ ~s.up \/ s.conn # s.sends[t].pin \/ ~s.pressure

poll_write_wait(s, pin) ==
    IF s.cancelled \/ s.conn # pin \/ ~s.up THEN "rejected" ELSE IF s.pressure THEN "none" ELSE "accepted"

ChecksPressure(t) ==
    /\ w.sends[t].at = "check"
    /\ w' = IF immediate(w, t) THEN [w EXCEPT !.sends[t].at = "final"]
            ELSE IF cannot_wait(t) THEN Rejected(w, t)
            ELSE [w EXCEPT !.sends[t].at = "wait"]

Released(t) ==
    /\ w.sends[t].at = "wait"
    /\ \/ poll_write_wait(w, w.sends[t].pin) = "rejected" /\ w' = Rejected(w, t)
       \/ poll_write_wait(w, w.sends[t].pin) = "accepted" /\ w' = [w EXCEPT !.sends[t].at = "final"]

FaultUnpinned(t) ==
    /\ w.sends[t].at = "final"
    /\ IF ~send_state(w) THEN w' = Rejected(w, t)
       ELSE \E r \in native_write(w, w.conn) :
               w' = CASE r = "accepted" -> Accepted(w, t)
                      [] r = "full" /\ ~cannot_wait(t) -> [w EXCEPT !.sends[t].at = "check"]
                      [] OTHER -> Rejected(w, t)
\* One hold of mutex_: state, generation, and a write pinned to the connection.
\* Only a lack of room is retried.
FinalAdmission(t) ==
    /\ w.sends[t].at = "final"
    /\ IF ~send_state(w) \/ w.gate.generation # w.sends[t].run THEN w' = Rejected(w, t)
       ELSE \E r \in native_write(w, w.sends[t].pin) :
               w' = CASE r = "accepted" -> Accepted(w, t)
                      [] r = "full" /\ ~cannot_wait(t) -> [w EXCEPT !.sends[t].at = "check"]
                      [] OTHER -> Rejected(w, t)

CapacityWait(t) == ChecksPressure(t) \/ Released(t)
SendProceeds(t) == CapacityWait(t) \/ FinalAdmission(t) \/ SendReturns(t)

-----------------------------------------------------------------------------
\* What every wrapper's next-state relation has in it beside its own functions.
Around == Alive \/ Admission \/ UserReturns \/ HandlerEnds \/ TimerExpires \/ Cleanup

-----------------------------------------------------------------------------
(* Properties.                                                             *)

\* D-1 of docs/communication_contract_v0.10_decisions.md: a user callback runs
\* only under a lease of the current run, never between the return of a stop()
\* that waited and the next start(), and never beside a change of the receive
\* limits; so nothing left over from one run is delivered in another.
CallbacksFenced ==
    /\ w.todo # <<>> /\ Head(w.todo) = "user" => "io" \in w.gate.threads
    /\ "io" \in w.gate.threads =>
           w.run = w.gate.generation /\ ~w.stopped /\ w.limits = "in use"

\* A send is never accepted behind a change it did not see: from the moment it
\* selected its connection to its acceptance that connection was up and no stop()
\* was called, by any thread, however long it waited for room.  The numbers that
\* blocking_send compares last tell every loss, reconnect and restart apart.
NothingMissed == \A t \in Senders : w.sends[t].at = "accepted" => ~w.sends[t].missed

\* The future of start() is never left behind: none is pending once a stop() has
\* been requested, nor when the transport is ready or has given up and its
\* notification has been handled.
FuturesSettled ==
    w.promises > 0 =>
        /\ ~w.stopped
        /\ w.todo # <<>> \/ w.gate.closed \/ w.link \notin {"Up", "Down"}

\* Batched items never wait without a deadline, and never outlive their
\* connection: between handlers, a batch that is not empty has its timer armed or
\* its expiry queued, its own and not that of an earlier session, and holds items
\* of the current connection only.
BatchHasTimer ==
    LET own == IF w.session = 0 THEN 1 ELSE w.session
    IN  w.todo = <<>> /\ ~w.gate.closed =>
        \A queue \in {"data", "messages"} :
            w[queue] # <<>> =>
                /\ \/ w.timer = own
                   \/ [run |-> w.gate.generation, session |-> own] \in w.expired
                /\ w.up => \A i \in DOMAIN w[queue] : w[queue][i] = w.conn

\* After a stop() that waited the server is not listening, as its tests expect of
\* listening(), and the next start() really starts a run.
StoppedNotListening == w.stopped => ~w.is_listening

\* No callback hangs the io thread: whatever a callback does, send and stop
\* included, the handler it runs in returns.
CallbackReturns == w.todo # <<>> ~> w.todo = <<>>

\* stop() returns, and a send waiting for room when it is called returns too.
StopReleases ==
    /\ w.stops["owner"] # "none" ~> w.stops["owner"] = "none"
    /\ w.sends["sender"].at = "wait" /\ ~w.started ~> w.sends["sender"].at # "wait"
=============================================================================
