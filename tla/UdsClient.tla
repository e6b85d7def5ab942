------------------------------ MODULE UdsClient ------------------------------
(***************************************************************************)
(* The Unix domain socket client: wirestead/transport/uds/uds_client.cc.   *)
(* It differs from TcpClient in what a connection number is (a connect and *)
(* a loss both take a new one), in transition_to, which refuses nothing,   *)
(* and in having no reconnect_pending_: a close cancels the retry timer    *)
(* instead.  The socket path was validated by the constructor.             *)
(***************************************************************************)
EXTENDS ClientChannel

mark_disconnected(s) ==
    IF s.connected THEN [LedgerEnd(s) EXCEPT !.connected = FALSE, !.conn = @ + 1] ELSE s

discard_connection_writes(s) ==
    [ClearQueues(s) EXCEPT !.active = <<>>, !.backpressure = FALSE]

close_socket(s) == [Cancel(s, OnSocket) EXCEPT !.open = FALSE]

transition_to(s, next) == [s EXCEPT !.state = next]

do_write(s) ==
    IF s.stopping \/ ~s.connected \/ s.tx = <<>> \/ s.writing \/ ~LedgerCan(s, s.tx) THEN s
    ELSE Initiate([LedgerBegin(s, s.tx) EXCEPT !.writing = TRUE, !.active = s.tx, !.tx = <<>>],
                  "write", s.tx)

report_backpressure(s, queued) ==
    LET r == ReportBackpressure(s, queued)
    IN  IF Relieves(s, queued) THEN do_write(r) ELSE r

do_connect(s) ==
    IF s.stopping THEN s
    ELSE Initiate([Arm(s, "timer") EXCEPT !.open = TRUE], "connect", <<>>)

schedule_retry(s, willing) ==
    IF s.stopping THEN s
    ELSE IF ~decide_reconnect_common(s, willing) THEN transition_to(s, "Error")
    ELSE Arm(transition_to(CountAttempt(s), "Connecting"), "retry")

handle_close(s, willing) ==
    LET d == Cancel(close_socket(discard_connection_writes(mark_disconnected(s))), {"retry", "timer"})
    IN  IF d.stopping THEN transition_to(d, "Idle") ELSE schedule_retry(d, willing)

start_read(s) == IF s.stopping \/ ~s.connected THEN s ELSE Initiate(s, "read", <<>>)

route_enqueued_buffer(s, w) ==
    IF s.stopping THEN Release(s, "inflight", w)
    ELSE CASE decide_enqueue(s.queue, s.pend, s.backpressure, s.req[w].n, Limit) = "Rejected" ->
                  report_backpressure(
                      Release(LedgerComplete(s, <<w>>), "inflight", w), s.queue + s.req[w].n)
           [] decide_enqueue(s.queue, s.pend, s.backpressure, s.req[w].n, Limit) = "Pending" ->
                  ToPending(s, w)
           [] OTHER -> do_write(report_backpressure(ToQueue(s, w), s.queue + s.req[w].n))

perform_stop_cleanup(s) ==
    Complete([ClearQueues(close_socket(Cancel(s, {"retry", "timer"}))) EXCEPT
                 !.connected = FALSE, !.backpressure = FALSE, !.state = "Idle",
                 !.cleanup_finished = TRUE])

-----------------------------------------------------------------------------
(* Caller threads.                                                         *)

start ==
    /\ c.run < MaxRuns
    /\ c.run = 0 \/ c.cleanup_done
    /\ c.state \notin {"Connecting", "Connected"}
    /\ c' = Post([c EXCEPT !.run = @ + 1, !.stopping = FALSE, !.cleanup_done = FALSE,
                           !.cleanup_finished = FALSE, !.inflight = 0, !.active = <<>>,
                           !.backpressure = FALSE], "start", 0)

\* Admission is closed at once; the connection number stays as it is.
stop ==
    /\ ~c.stopping
    /\ LET d == [LedgerEnd(c) EXCEPT !.stopping = TRUE, !.connected = FALSE]
       IN  c' = IF c.run = 0 THEN perform_stop_cleanup(d) ELSE Post(d, "cleanup", 0)

write_copy(n) == Admit(n)
write_move(n) == Admit(n)
write_shared(n) == Admit(n)
try_write_copy(n) == TryAdmit(n)
try_write_move(n) == TryAdmit(n)
try_write_shared(n) == TryAdmit(n)

-----------------------------------------------------------------------------
(* Handlers on the strand.                                                 *)

on_start(s, p) ==
    IF s.stopping \/ OldRun(s, p) THEN s ELSE do_connect(transition_to(s, "Connecting"))

on_write_posted(s, p) ==
    IF OldRun(s, p) THEN s
    ELSE IF OldConnection(s, p) THEN Release(s, "inflight", p.w)
    ELSE route_enqueued_buffer(s, p.w)

\* The handler of an accepted try-write, whose bytes are already counted.
on_try_posted(s, p) ==
    IF OldRun(s, p) \/ OldConnection(s, p) THEN s
    ELSE IF s.stopping \/ s.state \in Terminal THEN Release(s, "queue", p.w)
    ELSE do_write(report_backpressure([s EXCEPT !.tx = Append(@, p.w)], s.queue))

on_connect_timer(s, o, r, willing) ==
    IF r = "aborted" \/ OldRun(s, o) THEN s ELSE handle_close(s, willing)

on_connect(s, o, r, willing) ==
    LET d == Cancel(s, {"timer"})
    IN  IF r = "aborted" \/ OldRun(s, o) THEN d
        ELSE IF d.stopping THEN close_socket(d)
        ELSE IF r = "err" THEN schedule_retry(d, willing)
        ELSE LET up == transition_to([d EXCEPT !.conn = @ + 1, !.connected = TRUE, !.attempts = 0],
                                     "Connected")
             IN  do_write([start_read(up) EXCEPT !.writing = FALSE])

on_retry(s, o, r) == IF r = "aborted" \/ OldRun(s, o) THEN s ELSE do_connect(s)

fail_receive(s, willing) ==
    IF s.stopping \/ ~s.connected THEN s ELSE handle_close(s, willing)

on_read(s, o, r, fail, willing) ==
    IF r = "aborted" \/ OldRun(s, o) \/ OldConnection(s, o) \/ s.stopping THEN s
    ELSE IF r = "err" THEN handle_close(s, willing)
    ELSE start_read(IF fail THEN fail_receive(s, willing) ELSE s)

\* err: also a write that ended short without one.
write_completed(s, o, r, willing, current) ==
    LET told    == LedgerComplete(s, o.batch)
        lost    == IF current /\ r # "ok" THEN mark_disconnected(told) ELSE told
        ended   == [lost EXCEPT !.active = <<>>, !.writing = FALSE]
    IN  IF ~current THEN lost
        ELSE IF s.stopping \/ OldRun(s, o) THEN ended
        ELSE IF r = "ok"
        THEN LET d == [ended EXCEPT !.queue = release_reserved_write_bytes(@, Bytes(s, o.batch))]
             IN  do_write(report_backpressure(d, d.queue))
        ELSE LET d == [ended EXCEPT !.tx = o.batch \o @]
             IN  IF r = "aborted" THEN d ELSE handle_close(d, willing)
FaultUnfenced(s, o, r, willing) == write_completed(s, o, r, willing, TRUE)
on_write(s, o, r, willing) == write_completed(s, o, r, willing, ~OldConnection(s, o))

-----------------------------------------------------------------------------
Init == c \in {Fresh("uds", FALSE, max) : max \in MaxRetries}

Call ==
    \/ start \/ stop
    \/ \E n \in Sizes :
        \/ write_copy(n) \/ write_move(n) \/ write_shared(n)
        \/ try_write_copy(n) \/ try_write_move(n) \/ try_write_shared(n)

RunPosted ==
    \/ First("start")   /\ c' = on_start(Pop, Head(c.posts))
    \/ First("write")   /\ c' = on_write_posted(Pop, Head(c.posts))
    \/ First("try")     /\ c' = on_try_posted(Pop, Head(c.posts))
    \/ First("cleanup") /\ c' = perform_stop_cleanup(Pop)

\* MaxConns bounds the run: a connect and a loss take a number each.
RunCompletion == \E o \in c.io : \E r \in Results(c, o) : Deliverable(o, r) /\
    LET s == Drop(c, o)
    IN  \/ o.kind = "retry" /\ c' = Complete(on_retry(s, o, r))
        \/ \E willing \in BOOLEAN :
            \/ o.kind = "timer" /\ c' = Complete(on_connect_timer(s, o, r, willing))
            \/ /\ o.kind = "connect" /\ (r = "ok" => c.conn < 2 * MaxConns)
               /\ c' = Complete(on_connect(s, o, r, willing))
            \/ o.kind = "write" /\ c' = Complete(on_write(s, o, r, willing))
            \/ o.kind = "read"  /\ \E fail \in BOOLEAN :
                   c' = Complete(on_read(s, o, r, fail, willing))

Next == Call \/ RunPosted \/ RunCompletion
Spec == Init /\ [][Next]_c
=============================================================================
