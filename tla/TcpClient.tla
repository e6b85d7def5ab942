------------------------------ MODULE TcpClient ------------------------------
(***************************************************************************)
(* The TCP client transport: wirestead/transport/tcp_client/tcp_client.cc. *)
(* stopping stands for stop_requested_ and stopping_, which are set and    *)
(* cleared together, and retrying for reconnect_pending_.  An idle timeout *)
(* is configured.  A write whose initiation throws is one that completes   *)
(* with an error at once: both end in handle_close with nothing written.   *)
(***************************************************************************)
EXTENDS ClientChannel

mark_disconnected(s) ==
    IF s.connected THEN [LedgerEnd(s) EXCEPT !.connected = FALSE, !.conn = @ + 1] ELSE s

discard_connection_writes(s) ==
    [ClearQueues(s) EXCEPT !.active = <<>>, !.backpressure = FALSE]

close_socket(s) == [Cancel(s, OnSocket) EXCEPT !.open = FALSE]

\* A terminal state is reported once per run; Connecting may repeat.
transition_to(s, next) ==
    IF next \in Terminal /\ (s.state \in Terminal \/ s.terminal) THEN s
    ELSE [s EXCEPT !.state = next, !.terminal = @ \/ next \in Terminal]

reset_idle_timer(s) ==
    IF ~s.connected \/ s.stopping THEN s
    ELSE Arm([s EXCEPT !.io = {IF o.kind = "idle" THEN [o EXCEPT !.fresh = FALSE] ELSE o : o \in @}],
             "idle")

do_write(s) ==
    IF s.stopping THEN ClearQueues(s)
    ELSE IF ~s.connected \/ s.tx = <<>> \/ s.state \in Terminal \/ ~LedgerCan(s, s.tx)
    THEN [s EXCEPT !.writing = FALSE]
    ELSE Initiate([LedgerBegin(s, s.tx) EXCEPT !.writing = TRUE, !.active = s.tx, !.tx = <<>>],
                  "write", s.tx)

Kick(s) == IF s.writing THEN s ELSE do_write(s)

report_backpressure(s, queued) ==
    LET r == ReportBackpressure(s, queued)
    IN  IF Relieves(s, queued) THEN Kick(r) ELSE r

\* reconnect_pending_ keeps a second close from arming the timer again.
schedule_retry(s, willing) ==
    LET d == mark_disconnected(s)
    IN  IF d.stopping \/ d.retrying THEN d
        ELSE IF ~decide_reconnect_common(d, willing) THEN transition_to(d, "Error")
        ELSE Arm([transition_to(CountAttempt(d), "Connecting") EXCEPT !.retrying = TRUE], "retry")

do_resolve_connect(s) == Initiate(s, "resolve", <<>>)

handle_close(s, willing) ==
    LET d == close_socket(Cancel(discard_connection_writes(mark_disconnected(s)), {"idle", "timer"}))
    IN  IF d.stopping \/ d.state = "Closed" THEN transition_to(d, "Closed")
        ELSE schedule_retry(transition_to(d, "Connecting"), willing)

handle_idle_timeout(s, reconnect, willing) ==
    IF s.stopping \/ ~s.connected THEN s
    ELSE LET d == close_socket(Cancel(discard_connection_writes(mark_disconnected(s)), {"idle", "timer"}))
         IN  IF reconnect THEN schedule_retry(transition_to(d, "Connecting"), willing)
             ELSE transition_to(d, "Closed")

start_read(s) == Initiate(s, "read", <<>>)

finish_connect(s) ==
    IF s.stopping THEN s
    ELSE Post(reset_idle_timer(start_read(transition_to([s EXCEPT !.connected = TRUE], "Connected"))),
              "kick", 0)

\* Plaintext continues at once.  A TLS setup that throws ends the attempt.
handshake_then(s, setup, willing) ==
    IF ~s.tls THEN finish_connect(s)
    ELSE IF setup THEN Initiate(s, "handshake", <<>>)
    ELSE handle_close(s, willing)

route_enqueued_buffer(s, w) ==
    IF s.stopping \/ s.state \in Terminal THEN Release(s, "inflight", w)
    ELSE CASE decide_enqueue(s.queue, s.pend, s.backpressure, s.req[w].n, Limit) = "Rejected" ->
                  report_backpressure(
                      Release(LedgerComplete(s, <<w>>), "inflight", w), s.queue + s.req[w].n)
           [] decide_enqueue(s.queue, s.pend, s.backpressure, s.req[w].n, Limit) = "Pending" ->
                  ToPending(s, w)
           [] OTHER -> Kick(report_backpressure(ToQueue(s, w), s.queue + s.req[w].n))

\* The handler of an accepted try-write, whose bytes are already counted.
route_try(s, w) ==
    IF s.stopping \/ s.state \in Terminal THEN Release(s, "queue", w)
    ELSE Kick(report_backpressure([s EXCEPT !.tx = Append(@, w)], s.queue))

perform_stop_cleanup(s) ==
    IF s.cleanup_finished THEN s
    ELSE LET d == close_socket(Cancel(s, {"retry", "timer", "idle", "resolve"}))
         IN  Complete([transition_to([mark_disconnected(ClearQueues(d)) EXCEPT
                                         !.active = <<>>, !.backpressure = FALSE], "Closed")
                          EXCEPT !.cleanup_finished = TRUE])

reset_start_state(s) ==
    [ClearQueues(mark_disconnected(s)) EXCEPT
        !.cleanup_finished = FALSE, !.cleanup_done = FALSE,
        !.inflight = 0, !.stopping = FALSE, !.terminal = FALSE, !.retrying = FALSE,
        !.attempts = 0, !.tx = s.tx, !.backpressure = FALSE, !.state = "Idle"]

reset_io_objects(s) ==
    [ClearQueues(close_socket(Cancel(s, {"resolve", "retry", "timer", "idle"})))
        EXCEPT !.backpressure = FALSE]
-----------------------------------------------------------------------------
(* Caller threads.                                                         *)

\* A restart follows a stop() that waited, or no start at all.
start ==
    /\ c.run < MaxRuns
    /\ c.run = 0 \/ c.cleanup_done
    /\ c.state \notin {"Connecting", "Connected"}
    /\ c' = Post(reset_start_state([c EXCEPT !.run = @ + 1]), "start", 0)

stop ==
    /\ ~c.stopping
    /\ LET d == [LedgerEnd(c) EXCEPT !.stopping = TRUE, !.stop_seq = c.run]
       IN  c' = IF c.run = 0 THEN perform_stop_cleanup(d) ELSE Post(d, "cleanup", 0)

write_copy(n) == Admit(n)
write_move(n) == Admit(n)
write_shared(n) == Admit(n)
try_write_copy(n) == TryAdmit(n)
try_write_move(n) == TryAdmit(n)
try_write_shared(n) == TryAdmit(n)

-----------------------------------------------------------------------------
(* Handlers on the strand.                                                 *)

on_start(s, p) ==
    IF p.run <= s.stop_seq THEN s
    ELSE do_resolve_connect(transition_to(reset_io_objects(mark_disconnected(s)), "Connecting"))

\* What write_copy, write_move and write_shared post.
on_write_posted(s, p) ==
    IF OldRun(s, p) THEN s
    ELSE IF OldConnection(s, p) THEN Release(s, "inflight", p.w)
    ELSE route_enqueued_buffer(s, p.w)

on_try_posted(s, p) == IF OldRun(s, p) \/ OldConnection(s, p) THEN s ELSE route_try(s, p.w)

on_kick(s, p) == IF OldRun(s, p) \/ OldConnection(s, p) THEN s ELSE Kick(s)

on_resolve(s, o, r, willing) ==
    IF r = "aborted" \/ OldRun(s, o) \/ s.stopping THEN s
    ELSE IF r = "err" THEN schedule_retry(s, willing)
    ELSE OpenAndConnect(Arm(s, "timer"))

on_connect_timer(s, o, r, willing) ==
    IF r = "aborted" \/ OldRun(s, o) \/ s.stopping THEN s ELSE handle_close(s, willing)

on_connect(s, o, r, setup, willing) ==
    IF r = "aborted" \/ OldRun(s, o) THEN s
    ELSE IF s.stopping THEN Cancel(close_socket(s), {"timer"})
    ELSE IF r = "err" THEN schedule_retry(Cancel(s, {"timer"}), willing)
    ELSE handshake_then([Cancel(s, {"timer"}) EXCEPT !.attempts = 0], setup, willing)

on_handshake(s, o, r, willing) ==
    IF OldRun(s, o) \/ s.stopping THEN s
    ELSE CASE r = "ok"      -> finish_connect(s)
           [] r = "err"     -> handle_close(s, willing)
           [] r = "aborted" -> s

FaultStaysRetrying(s, o, r) ==
    IF r = "aborted" \/ OldRun(s, o) \/ s.stopping THEN s ELSE do_resolve_connect(s)
on_retry(s, o, r) ==
    LET d == [s EXCEPT !.retrying = FALSE]
    IN  IF r = "aborted" \/ OldRun(s, o) \/ s.stopping THEN d ELSE do_resolve_connect(d)

\* Called from the data callback, on the strand, so what it dispatches runs at once.
fail_receive(s, willing) == IF s.connected THEN handle_close(s, willing) ELSE s

on_read(s, o, r, fail, willing) ==
    IF r = "aborted" \/ OldRun(s, o) \/ OldConnection(s, o) \/ s.stopping THEN s
    ELSE IF r = "err" THEN handle_close(s, willing)
    ELSE LET d == reset_idle_timer(s)
         IN  start_read(IF fail THEN fail_receive(d, willing) ELSE d)

\* current: the batch was written on the connection that is up, or was the last.
write_completed(s, o, r, willing, current) ==
    LET told    == LedgerComplete(s, o.batch)
        lost    == IF current /\ r = "err" /\ ~OldRun(s, o) THEN mark_disconnected(told) ELSE told
        ended   == [lost EXCEPT !.active = <<>>]
        bytes   == Bytes(s, o.batch)
        freed(t) == LET f == [t EXCEPT !.queue = release_reserved_write_bytes(@, bytes)]
                    IN  report_backpressure(f, f.queue)
    IN  IF ~current THEN lost
        ELSE IF r = "aborted" \/ OldRun(s, o) THEN [freed(ended) EXCEPT !.writing = FALSE]
        ELSE IF r = "err"
        THEN handle_close([ended EXCEPT !.tx = o.batch \o @, !.writing = FALSE], willing)
        ELSE LET d == freed(reset_idle_timer(ended))
             IN  IF d.stopping \/ d.state \in Terminal THEN [d EXCEPT !.writing = FALSE]
                 ELSE do_write(d)
FaultUnfenced(s, o, r, willing) == write_completed(s, o, r, willing, TRUE)
on_write(s, o, r, willing) == write_completed(s, o, r, willing, ~OldConnection(s, o))

on_idle_timer(s, o, r, reconnect, willing) ==
    IF r = "aborted" \/ OldRun(s, o) \/ OldConnection(s, o) \/ ~o.fresh THEN s
    ELSE handle_idle_timeout(s, reconnect, willing)

-----------------------------------------------------------------------------
Init == c \in {Fresh("tcp", tls, max) : tls \in BOOLEAN, max \in MaxRetries}

Call ==
    \/ start \/ stop
    \/ \E n \in Sizes :
        \/ write_copy(n) \/ write_move(n) \/ write_shared(n)
        \/ try_write_copy(n) \/ try_write_move(n) \/ try_write_shared(n)

RunPosted ==
    \/ First("start")   /\ c' = on_start(Pop, Head(c.posts))
    \/ First("write")   /\ c' = on_write_posted(Pop, Head(c.posts))
    \/ First("try")     /\ c' = on_try_posted(Pop, Head(c.posts))
    \/ First("kick")    /\ c' = on_kick(Pop, Head(c.posts))
    \/ First("cleanup") /\ c' = perform_stop_cleanup(Pop)

\* MaxConns bounds the run.
RunCompletion == \E o \in c.io : \E r \in Results(c, o) : Deliverable(o, r) /\
    LET s == Drop(c, o)
    IN  \/ o.kind = "retry" /\ c' = Complete(on_retry(s, o, r))
        \/ \E willing \in BOOLEAN :
            \/ o.kind = "resolve"   /\ c' = Complete(on_resolve(s, o, r, willing))
            \/ o.kind = "timer"     /\ c' = Complete(on_connect_timer(s, o, r, willing))
            \/ o.kind = "handshake" /\ c' = Complete(on_handshake(s, o, r, willing))
            \/ o.kind = "write"     /\ c' = Complete(on_write(s, o, r, willing))
            \/ \E choice \in BOOLEAN :
                \/ o.kind = "read" /\ c' = Complete(on_read(s, o, r, choice, willing))
                \/ o.kind = "idle" /\ c' = Complete(on_idle_timer(s, o, r, choice, willing))
                \/ /\ o.kind = "connect" /\ (r = "ok" => c.conn < MaxConns)
                   /\ c' = Complete(on_connect(s, o, r, choice, willing))

Next == Call \/ RunPosted \/ RunCompletion
Spec == Init /\ [][Next]_c
=============================================================================
