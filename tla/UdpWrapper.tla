----------------------------- MODULE UdpWrapper -----------------------------
(***************************************************************************)
(* wirestead/wrapper/udp/udp.cc.                                           *)
(* A datagram that overruns the receive limits is dropped by itself, and a *)
(* socket that fails is not opened again in the same run.                  *)
(***************************************************************************)
EXTENDS ClientWrapper

schedule_batch_timer == ScheduleTimer
flush_batches == FlushesData \/ FlushesMessages

DropsDatagram == At("data") /\ w' = Return(w)
on_bytes == TakesBytes(schedule_batch_timer) \/ DropsDatagram
attach_framer_callback == DeliversMessage(schedule_batch_timer) \/ DeliversNone

\* There is one socket per run, and stop() has cleared what the last one left.
on_state == Observes(FALSE) \/ Notifies \/ ReportsError
on_backpressure == PressureChanges(OnPressure)

start == Starts(w.channel /\ w.up)
stop(t) == (IF t = "io" THEN UserStops ELSE StopCalled) \/ StopProceeds(t)

nonblocking_send(t) == NonblockingSend(t)
wait_for_backpressure_clear(t) == CapacityWait(t)
blocking_send(t) == BlockingSend(t, FALSE) \/ FinalAdmission(t) \/ SendReturns(t)
try_send(t) == nonblocking_send(t)
send_blocking(t) == wait_for_backpressure_clear(t) \/ blocking_send(t)
\* send(), by the strategy.
send(t) == try_send(t) \/ send_blocking(t)

receive_limits == Configures
\* The setters that call require_stopped_config().
setters == Configures

-----------------------------------------------------------------------------
Init ==
    \E injected, batching \in BOOLEAN :
        ~(injected /\ batching) /\ w = NewImpl("udp", injected, batching)

Io == on_bytes \/ attach_framer_callback \/ flush_batches \/ on_state
Next ==
    \/ Connects \/ Receives \/ Fails("Down") \/ on_backpressure
    \/ RunTimer(OnTimer) \/ Io \/ Around
    \/ start \/ stop("owner") \/ stop("io") \/ send("sender") \/ send("io")
    \/ receive_limits \/ setters

Spec == Init /\ [][Next]_w
=============================================================================
