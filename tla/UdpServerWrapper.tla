-------------------------- MODULE UdpServerWrapper --------------------------
(***************************************************************************)
(* wirestead/wrapper/udp/udp_server.cc.                                    *)
(* Its handlers check the gate but no alive marker.                        *)
(***************************************************************************)
EXTENDS ServerWrapper

schedule_batch_timer == ScheduleTimer
flush_batches == FlushesData \/ FlushesMessages

-----------------------------------------------------------------------------
(* Virtual sessions: an endpoint becomes one with its first datagram.      *)

OnBytesFrom == <<"enter", "session", "connect", "data", "deliver", "end">>
UdpOnState == <<"enter", "listen", "settle", "end">>
UdpOnPressure == <<"enter", "user", "end">>
OnReaper == <<"alive", "enter", "reap", "expire", "expired", "end">>

\* A datagram arrives, and the reaper's timer expires.  A reaper that the gate
\* refuses is not scheduled again.
Datagram == Idle(w) /\ w.link = "Up" /\ w' = Call(w, "known", OnBytesFrom)
ReaperExpires ==
    /\ w.todo = <<>> /\ w.session # 0 /\ ~w.gate.closed
    /\ w' = Call(w, "reaper", OnReaper)

NewSession(s) == [s EXCEPT !.session = s.conn, !.up = TRUE, !.event = "new"]

\* The session is erased from sessions and batches_.
EraseSession(s) == EraseBatch(Disconnect(s))

FindsSession ==
    /\ At("session")
    /\ \/ ~w.started /\ w' = Return(w)
       \/ w.started /\ w.session # 0 /\ w' = Then(w, <<>>)
       \/ w.started /\ w.session = 0 /\ w.conn <= MaxConns /\ w' = Then(NewSession(w), <<>>)
\* The client limit, no receive scope, or bytes over the limits; the last erases
\* a session that was made for them and not announced yet.
DropsDatagram ==
    /\ At("session")
    /\ \/ w' = Return(w)
       \/ w.session = 0 /\ w.conn <= MaxConns /\ w' = Return(EraseSession(NewSession(w)))

Announces == At("connect") /\ w' = IF w.event = "new" THEN Invoke(w) ELSE Then(w, <<>>)

TakesDatagram ==
    /\ At("data")
    /\ w' = IF ~Admits(w) \/ (w.batching /\ w.session = 0) THEN Return(w)
            ELSE BatchesOrInvokes(w, "data", schedule_batch_timer)

on_bytes_from == FindsSession \/ DropsDatagram \/ Announces \/ TakesDatagram
on_message == DeliversMessage(schedule_batch_timer) \/ DeliversNone

FindsDue ==
    At("reap") /\ w' = Then([w EXCEPT !.event = w.session], <<"flush", "messages">>)
\* A callback of the flush may have stopped the server.
Expires ==
    /\ At("expire")
    /\ w' = IF ~w.started THEN Return(w) ELSE Then(EraseSession(w), <<>>)
TellsExpired == At("expired") /\ w' = IF Admits(w) THEN Invoke(w) ELSE Then(w, <<>>)
run_reaper == FindsDue \/ Expires \/ TellsExpired

on_state == StoresListening \/ Settles
on_backpressure == PressureChanges(UdpOnPressure)

start == Starts(w.is_listening)
stop(t) == (IF t = "io" THEN UserStops ELSE StopCalled) \/ StopProceeds(t)

try_send_to(t) == NonblockingSend(t)
send_to_blocking(t) == BlockingSend(t, FALSE) \/ CapacityWait(t) \/ FinalAdmission(t) \/ SendReturns(t)
try_broadcast(t) == NonblockingSend(t)
\* send_to() and broadcast(), by the strategy.
send_to(t) == try_send_to(t) \/ try_broadcast(t) \/ send_to_blocking(t)

receive_limits == Configures
\* The setters that call require_stopped_config().
setters == Configures

-----------------------------------------------------------------------------
Init == \E batching \in BOOLEAN : w = NewImpl("udp_server", FALSE, batching)

Io == on_bytes_from \/ on_message \/ run_reaper \/ on_state \/ flush_batches
Next ==
    \/ Listens(UdpOnState) \/ Fails(UdpOnState) \/ Datagram \/ ReaperExpires \/ on_backpressure
    \/ RunTimer(OnTimer) \/ Io \/ Around
    \/ start \/ stop("owner") \/ stop("io") \/ send_to("sender") \/ send_to("io")
    \/ receive_limits \/ setters
=============================================================================
