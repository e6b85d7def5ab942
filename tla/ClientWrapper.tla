--------------------------- MODULE ClientWrapper ---------------------------
(***************************************************************************)
(* What the four client wrappers share beyond Wrapper: one connection, two *)
(* batch queues of the object's own with one timer, a framer, and          *)
(* LifecycleEvents, which turns link states into connect, loss and error.  *)
(***************************************************************************)
EXTENDS Wrapper

OnBytes == <<"alive", "enter", "data", "deliver", "end">>
OnState == <<"alive", "enter", "observe", "notify", "error", "end">>
OnPressure == <<"alive", "enter", "user", "end">>
OnTimer == <<"alive", "flush", "messages", "end">>

\* expires_after() moves the deadline of a wait that is armed.
ScheduleTimer == 1

-----------------------------------------------------------------------------
(* What the transport does.                                                *)

Connects ==
    /\ Idle(w) /\ w.link = "Connecting" /\ w.conn <= MaxConns
    /\ w' = Call([w EXCEPT !.up = TRUE, !.link = "Up"], "Up", OnState)

\* The connection is lost, or the attempt failed: another one, or giving up.
Drops(s, link) == Call([(IF s.up THEN Disconnect(s) ELSE s) EXCEPT !.link = link], link, OnState)

Fails(link) ==
    /\ Idle(w) /\ w.link \in {"Connecting", "Up"} /\ (link = "Connecting" => w.up)
    /\ w' = Drops(w, link)

Receives == Idle(w) /\ w.up /\ w' = Call(w, "bytes", OnBytes)

-----------------------------------------------------------------------------
(* The handlers' steps.                                                    *)

\* The bytes overran the receive limits: the batches are dropped and, on a native
\* transport, fail_receive() closes the connection before it returns.
Overflows(s, link) ==
    LET d == ClearBatches(s)
    IN  IF Available(d) /\ ~d.injected THEN Drops(d, link) ELSE Return(d)

TakesBytes(timer) ==
    /\ At("data")
    /\ w' = IF w.batching THEN Batch(w, "data", timer) ELSE Invoke(w)

DropsBytes == At("data") /\ \E link \in {"Connecting", "Down"} : w' = Overflows(w, link)

\* prepared.deliver(): the framer finds a complete message, or none.
DeliversMessage(timer) ==
    /\ At("deliver")
    /\ w' = IF ~admitted(w.gate, w.gate.generation) THEN Then(w, <<>>)
            ELSE IF w.batching THEN Batch(w, "messages", timer) ELSE Invoke(w)
DeliversNone == At("deliver") /\ w' = Then(w, <<>>)

\* flush_batches(): data first, and messages unless the gate has closed meanwhile.
FlushesData ==
    /\ At("flush")
    /\ w' = IF ~Admits(w) \/ (w.data = <<>> /\ w.messages = <<>>)
            THEN [w EXCEPT !.todo = Tail(Tail(@))]
            ELSE IF w.data = <<>> THEN Then(Enter(w), <<>>)
            ELSE Invoke([Enter(w) EXCEPT !.data = <<>>])
FlushesMessages ==
    /\ At("messages")
    /\ w' = IF ~Admits(w) THEN Then(w, <<>>)
            ELSE IF w.messages = <<>> THEN Then([w EXCEPT !.timer = 0], <<>>)
            ELSE Invoke([w EXCEPT !.messages = <<>>, !.timer = 0])

\* LifecycleEvents::observe and what it decides, with the promises settled.
\* clears: a new connection starts with an empty framer and empty batches.
Observes(clears) ==
    /\ At("observe")
    /\ LET up   == w.event = "Up"
           lost == w.connected /\ ~up
           s    == [w EXCEPT !.connected = up, !.lost = lost,
                             !.error = w.event = "Down" /\ ~w.terminal_error,
                             !.terminal_error = w.event = "Down" \/ (@ /\ ~up),
                             !.promises = IF w.event = "Connecting" THEN @ ELSE 0]
       IN  w' = Then(IF up /\ clears THEN ClearBatches(s) ELSE s,
                     IF lost THEN <<"flush", "messages">> ELSE <<>>)

Notifies ==
    /\ At("notify")
    /\ w' = IF ~Admits(w) THEN Return(w)
            ELSE IF w.event = "Up" \/ w.lost THEN Invoke(w) ELSE Then(w, <<>>)

ReportsError ==
    At("error") /\ w' = IF Admits(w) /\ w.error THEN Invoke(w) ELSE Then(w, <<>>)
=============================================================================
