--------------------------- MODULE ServerWrapper ---------------------------
(***************************************************************************)
(* What the three server wrappers share beyond Wrapper.  Received items    *)
(* are batched per session, in the SessionBatch that batches_ holds for    *)
(* it; here there is one session at a time, session is its number or 0,    *)
(* and its batch is data, messages and timer.  is_listening_ is an atomic  *)
(* of its own.                                                             *)
(***************************************************************************)
EXTENDS Wrapper

OnPressure == <<"alive", "enter", "user", "end">>
OnTimer == <<"flush", "messages", "end">>

FaultAnyExpiry(s) == s.timer # 0 \/ s.expired # {}
\* SessionBatch::scheduled, until the batch is flushed.
scheduled(s) == s.timer # 0 \/ [run |-> s.gate.generation, session |-> s.session] \in s.expired

\* An existing deadline is not postponed.
ScheduleTimer == IF scheduled(w) THEN w.timer ELSE w.session

\* batches_.erase(id): the batch's destructor cancels its timer.
EraseBatch(s) == [ClearBatches(s) EXCEPT !.session = 0, !.timer = 0]

-----------------------------------------------------------------------------
(* The handlers' steps.                                                    *)

BatchesOrInvokes(s, queue, timer) == IF s.batching THEN Batch(s, queue, timer) ELSE Invoke(s)

\* prepared.deliver(): the framer finds a complete message, or none.
DeliversMessage(timer) ==
    /\ At("deliver")
    /\ w' = IF ~Admits(w) \/ (w.batching /\ w.session = 0) THEN Then(w, <<>>)
            ELSE BatchesOrInvokes(w, "messages", timer)
DeliversNone == At("deliver") /\ w' = Then(w, <<>>)

\* flush_batches() for the batch in event, if it is still the session's.  Both
\* queues are taken together; the messages are given up when the gate has closed.
FlushesData ==
    /\ At("flush")
    /\ w' = IF ~Admits(w) \/ w.session # w.event THEN [w EXCEPT !.todo = Tail(Tail(@))]
            ELSE IF w.data = <<>> THEN Then(Enter(w), <<>>)
            ELSE Invoke([Enter(w) EXCEPT !.data = <<>>])
FlushesMessages ==
    /\ At("messages")
    /\ LET s == [w EXCEPT !.messages = <<>>]
       IN  w' = IF Admits(w) /\ w.messages # <<>> THEN Invoke(s) ELSE Then(s, <<>>)

\* The state handler stores is_listening_ before it takes mutex_.
StoresListening ==
    /\ At("listen")
    /\ w' = Then([w EXCEPT !.is_listening = w.event = "Up"], <<>>)
FaultForgets ==
    /\ At("settle")
    /\ LET s == [w EXCEPT !.terminal_error = w.event = "Down"]
       IN  w' = IF w.event = "Down" /\ ~w.terminal_error THEN Invoke(s) ELSE Then(s, <<>>)
Settles ==
    /\ At("settle")
    /\ LET s == [w EXCEPT !.promises = 0, !.terminal_error = w.event = "Down"]
       IN  w' = IF w.event = "Down" /\ ~w.terminal_error THEN Invoke(s) ELSE Then(s, <<>>)

-----------------------------------------------------------------------------
(* What the transport does.                                                *)

Listens(steps) ==
    /\ Idle(w) /\ w.link = "Connecting"
    /\ w' = Call([w EXCEPT !.link = "Up"], "Up", steps)
Fails(steps) ==
    /\ Idle(w) /\ w.link \in {"Connecting", "Up"}
    /\ w' = Call([w EXCEPT !.link = "Down"], "Down", steps)

-----------------------------------------------------------------------------
(* The stream servers: the transport accepts clients and reports them.     *)

OnState == <<"alive", "enter", "listen", "settle", "end">>
OnConnect == <<"alive", "enter", "open", "end">>
OnData == <<"alive", "enter", "data", "deliver", "end">>
OnDisconnect == <<"alive", "enter", "pending", "erase", "end">>

Accepts ==
    /\ Idle(w) /\ w.link = "Up" /\ ~w.up /\ w.conn <= MaxConns
    /\ w' = Call([w EXCEPT !.up = TRUE], "connect", OnConnect)
Receives == Idle(w) /\ w.up /\ w' = Call(w, "bytes", OnData)

CloseSession(s) == Call(Disconnect(s), "disconnect", OnDisconnect)
Loses == Idle(w) /\ w.up /\ w' = CloseSession(w)

\* fail_receive(id), which closes the session before it returns.
FailReceive(s) == IF Available(s) THEN CloseSession(s) ELSE Return(s)

OpensSession ==
    /\ At("open")
    /\ w' = IF Available(w) THEN Invoke([EraseBatch(w) EXCEPT !.session = w.conn]) ELSE Return(w)
\* No receive scope is left in the budget.
RefusesSession == At("open") /\ w' = FailReceive(w)

TakesData(timer) ==
    /\ At("data")
    /\ w' = IF w.session = 0 THEN Return(w) ELSE BatchesOrInvokes(w, "data", timer)
DropsData == At("data") /\ w' = IF w.session = 0 THEN Return(w) ELSE FailReceive(ClearBatches(w))

FlushesSession ==
    /\ At("pending")
    /\ w' = IF w.session = 0 THEN Return(w)
            ELSE Then([w EXCEPT !.event = w.session], <<"flush", "messages">>)
ErasesSession ==
    /\ At("erase")
    /\ w' = IF Admits(w) THEN Invoke(EraseBatch(w)) ELSE Return(w)
=============================================================================
