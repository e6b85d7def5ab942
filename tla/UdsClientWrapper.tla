-------------------------- MODULE UdsClientWrapper --------------------------
(***************************************************************************)
(* wirestead/wrapper/uds_client/uds_client.cc.                             *)
(***************************************************************************)
EXTENDS ClientWrapper

schedule_batch_timer == ScheduleTimer
flush_batches == FlushesData \/ FlushesMessages

on_bytes == TakesBytes(schedule_batch_timer) \/ DropsBytes
attach_framer_callback == DeliversMessage(schedule_batch_timer) \/ DeliversNone

on_state == Observes(TRUE) \/ Notifies \/ ReportsError
on_backpressure == PressureChanges(OnPressure)

start == Starts(w.channel /\ w.up)
stop(t) == (IF t = "io" THEN UserStops ELSE StopCalled) \/ StopProceeds(t)

nonblocking_send(t) == NonblockingSend(t)
wait_for_backpressure_clear(t) == CapacityWait(t)
blocking_send(t) == BlockingSend(t, TRUE) \/ FinalAdmission(t) \/ SendReturns(t)
try_send(t) == nonblocking_send(t)
send_blocking(t) == wait_for_backpressure_clear(t) \/ blocking_send(t)
\* send(), by the strategy.
send(t) == try_send(t) \/ send_blocking(t)

receive_limits == Configures
\* The setters that call require_stopped_config().
setters == Configures

-----------------------------------------------------------------------------
Init ==
    \E injected, batching \in BOOLEAN :
        ~(injected /\ batching) /\ w = NewImpl("uds", injected, batching)

Io == on_bytes \/ attach_framer_callback \/ flush_batches \/ on_state
Next ==
    \/ Connects \/ Receives \/ Fails("Connecting") \/ Fails("Down") \/ on_backpressure
    \/ RunTimer(OnTimer) \/ Io \/ Around
    \/ start \/ stop("owner") \/ stop("io") \/ send("sender") \/ send("io")
    \/ receive_limits \/ setters

Spec == Init /\ [][Next]_w
=============================================================================
