------------------------------ MODULE UdsServer ------------------------------
(***************************************************************************)
(* The UDS server transport: wirestead/transport/uds/uds_server.cc.  The   *)
(* path is bound by start() itself, a closed session leaves the map on its *)
(* own strand, the state does not follow the clients, and a write that     *)
(* names no client goes to all of them.                                    *)
(***************************************************************************)
EXTENDS ServerChannel

Stopped == "Idle"

\* r: whether the configuration is valid, the path can be bound and listened on,
\* and the state callback, on the caller's thread, returns without a stop().
uds_start ==
    /\ MayStart
    /\ v.state # "Listening"
    /\ \E r \in {"ok", "err", "stops"} :
        LET listening == [Started(v) EXCEPT !.acceptor = TRUE, !.state = "Listening"]
        IN  v' = CASE r = "err"   -> [Started(v) EXCEPT !.state = "Error"]
                   [] r = "stops" -> stop(listening, Stopped)
                   [] r = "ok"    -> Post([listening EXCEPT !.run_dispatched = TRUE], "accept", 0)

UdsStop == ~v.stopping /\ v' = stop(v, Stopped)
uds_reset_stats == ResetStats

uds_async_write_shared == ~v.stopping /\ broadcast
uds_async_try_write_shared == ~v.stopping /\ broadcast

uds_broadcast_result(k) == write_target(k)
send_to_client(k) == write_target(k)
fail_client(k) == fail_receive(k)

uds_accepts == ConnectionArrives \/ AcceptFails \/ AcceptTimer \/ Publish

on_cleanup(s) == perform_cleanup(s, Stopped)
on_session_retired(s, p) == on_retired(s, p.k, Stopped)

\* The end of the disconnect handler, under sessions_mutex_.
Erase(s, k) ==
    IF Fenced(s, s.sess[k].run) \/ k \notin s.sessions THEN s
    ELSE [absorb_session(s, k) EXCEPT !.sessions = @ \ {k}]

UdsReturn(k) ==
    /\ ~Idle(k)
    /\ LET d == [v EXCEPT !.sess[k].callback = "none"]
       IN  v' = IF v.sess[k].callback = "disconnect" THEN Erase(d, k) ELSE d

UdsRunPosted ==
    \/ First("accept") /\ v' = IF Fenced(Pop, Head(v.posts).run) THEN Pop ELSE do_accept(Pop)
    \/ First("retired") /\ v' = on_session_retired(Pop, Head(v.posts))
    \/ First("cleanup") /\ v' = on_cleanup(Pop)

UdsInit == v = Fresh("uds")

UdsNext ==
    \/ uds_start \/ UdsStop \/ uds_reset_stats
    \/ uds_async_write_shared \/ uds_async_try_write_shared
    \/ UdsRunPosted \/ uds_accepts
    \/ \E k \in Ids :
        \/ RunSession(k) \/ UdsReturn(k) \/ Lose(k) \/ Receive(k)
        \/ fail_client(k) \/ send_to_client(k) \/ uds_broadcast_result(k)

UdsSpec == UdsInit /\ [][UdsNext]_v
=============================================================================
