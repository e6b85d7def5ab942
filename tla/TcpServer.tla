------------------------------ MODULE TcpServer ------------------------------
(***************************************************************************)
(* The TCP server transport: wirestead/transport/tcp_server/tcp_server.cc. *)
(* The port is bound on the server's strand, with retries; the map is      *)
(* changed on that strand; and there is a current session, the last one    *)
(* accepted, which the writes that name no client go to.                   *)
(***************************************************************************)
EXTENDS ServerChannel

Closed == "Closed"

\* r: whether the port can be bound and listened on.
attempt_port_binding(s, retry_count, r) ==
    IF s.stopping THEN s
    ELSE CASE r = "ok" -> do_accept([s EXCEPT !.acceptor = TRUE, !.state = "Listening"])
           [] r = "in use" /\ retry_count < MaxBindRetries -> Arm(s, "bind", retry_count + 1)
           [] OTHER -> [s EXCEPT !.state = "Error"]

\* The disconnect handler's second half: the totals, the map and the current
\* session change together.  next: what the map's begin() is.
on_gone(s, p, next) ==
    LET d == IF p.k \in s.sessions
             THEN [absorb_session(s, p.k) EXCEPT !.sessions = @ \ {p.k}] ELSE s
    IN  IF Fenced(s, p.run) THEN s
        ELSE IF s.current # p.k THEN d
        ELSE [d EXCEPT !.current = next, !.state = "Listening"]

on_connected(s, p) ==
    IF Fenced(s, p.run) \/ p.k \notin s.sessions THEN s ELSE [s EXCEPT !.state = "Connected"]

-----------------------------------------------------------------------------
\* r: whether TLS is set up and there is an acceptor.
start ==
    /\ MayStart
    /\ v.state \notin {"Listening", "Connected", "Connecting"}
    /\ \E r \in {"ok", "err"} :
        v' = IF r = "err" THEN [Started(v) EXCEPT !.state = "Error"]
             ELSE Post([Started(v) EXCEPT !.run_dispatched = TRUE], "bind", 0)

Stop == ~v.stopping /\ v' = stop(v, Closed)

\* A stop() from the strand, unless the run has changed by then.
request_stop ==
    /\ ~v.stopping /\ v.run > 0
    /\ \A i \in DOMAIN v.posts : v.posts[i].what # "request"
    /\ v' = Post(v, "request", 0)
on_request(s, p) == IF p.run = s.run THEN stop(s, Closed) ELSE s

reset_stats == ResetStats

\* async_write_*: the current session is looked up, and written to later.
CaptureCurrent ==
    /\ ~v.stopping /\ v.writer = 0 /\ v.current > 0
    /\ v' = [v EXCEPT !.writer = v.current]
WriteCaptured ==
    /\ v.writer > 0
    /\ LET d == [v EXCEPT !.writer = 0]
       IN  v' = IF Open(v, v.writer) /\ Countable(v.writer) THEN Count(d, {v.writer}) ELSE d

async_write_copy == WriteCaptured
async_write_move == WriteCaptured
async_write_shared == WriteCaptured
async_try_write_copy == WriteCaptured
async_try_write_move == WriteCaptured
async_try_write_shared == WriteCaptured

\* One client of the snapshot at a time, each looked up again.
broadcast_result(k) == write_target(k)

accepts == ConnectionArrives \/ AcceptFails \/ AcceptTimer \/ Publish

Others(k) == IF v.sessions \ {k} = {} THEN {0} ELSE v.sessions \ {k}

RunPosted ==
    \/ First("bind") /\ \E r \in {"ok", "in use", "err"} :
           v' = IF Fenced(Pop, Head(v.posts).run) THEN Pop ELSE attempt_port_binding(Pop, 0, r)
    \/ First("connected") /\ v' = on_connected(Pop, Head(v.posts))
    \/ First("gone") /\ \E next \in Others(Head(v.posts).k) :
           v' = on_gone(Pop, Head(v.posts), next)
    \/ First("retired") /\ v' = on_retired(Pop, Head(v.posts).k, Closed)
    \/ First("request") /\ v' = on_request(Pop, Head(v.posts))
    \/ First("cleanup") /\ v' = perform_cleanup(Pop, Closed)

BindTimer ==
    \E t \in v.timers : \E r \in {"ok", "in use", "err"} :
        LET d == [v EXCEPT !.timers = @ \ {t}]
        IN  /\ t.what = "bind" /\ v.publishing = 0
            /\ v' = IF Fenced(d, t.run) THEN d ELSE attempt_port_binding(d, t.n, r)

\* A user callback of session k returns.
Return(k) ==
    /\ ~Idle(k)
    /\ LET d == [v EXCEPT !.sess[k].callback = "none"]
       IN  v' = CASE v.sess[k].callback = "data"       -> d
                  [] v.sess[k].callback = "connect"    -> Post(d, "connected", k)
                  [] v.sess[k].callback = "disconnect" -> Post(d, "gone", k)

Init == v = Fresh("tcp")

Next ==
    \/ start \/ Stop \/ request_stop \/ reset_stats
    \/ CaptureCurrent \/ async_write_copy \/ async_write_move \/ async_write_shared
    \/ async_try_write_copy \/ async_try_write_move \/ async_try_write_shared
    \/ broadcast
    \/ RunPosted \/ BindTimer \/ accepts
    \/ \E k \in Ids :
        \/ RunSession(k) \/ Return(k) \/ Lose(k) \/ Receive(k)
        \/ fail_receive(k) \/ write_target(k) \/ broadcast_result(k)

Spec == Init /\ [][Next]_v
=============================================================================
