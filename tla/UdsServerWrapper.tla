-------------------------- MODULE UdsServerWrapper --------------------------
(***************************************************************************)
(* wirestead/wrapper/uds_server/uds_server.cc.                             *)
(***************************************************************************)
EXTENDS ServerWrapper

schedule_batch_timer == ScheduleTimer
flush_batches == FlushesData \/ FlushesMessages

on_multi_connect == OpensSession \/ RefusesSession
on_message == DeliversMessage(schedule_batch_timer) \/ DeliversNone
on_multi_data == TakesData(schedule_batch_timer) \/ DropsData
on_multi_disconnect == FlushesSession \/ ErasesSession
on_state == StoresListening \/ Settles
on_backpressure == PressureChanges(OnPressure)

start == Starts(w.is_listening)
stop(t) == (IF t = "io" THEN UserStops ELSE StopCalled) \/ StopProceeds(t)

try_send_to(t) == NonblockingSend(t)
send_to_blocking(t) == BlockingSend(t, FALSE) \/ CapacityWait(t) \/ FinalAdmission(t) \/ SendReturns(t)
try_broadcast(t) == NonblockingSend(t)
\* send_to() and broadcast(), by the strategy.
send_to(t) == try_send_to(t) \/ try_broadcast(t) \/ send_to_blocking(t)

receive_limits == Configures
\* The setters that call require_stopped_config().
setters == Configures

-----------------------------------------------------------------------------
Init == \E batching \in BOOLEAN : w = NewImpl("uds_server", FALSE, batching)

Io == on_multi_connect \/ on_message \/ on_multi_data \/ on_multi_disconnect \/ on_state \/ flush_batches
Next ==
    \/ Listens(OnState) \/ Fails(OnState) \/ Accepts \/ Receives \/ Loses \/ on_backpressure
    \/ RunTimer(OnTimer) \/ Io \/ Around
    \/ start \/ stop("owner") \/ stop("io") \/ send_to("sender") \/ send_to("io")
    \/ receive_limits \/ setters
=============================================================================
