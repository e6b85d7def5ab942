-------------------------------- MODULE Serial --------------------------------
(***************************************************************************)
(* The serial port transport: wirestead/transport/serial/serial.cc.  A     *)
(* port is opened and configured by synchronous calls, so an attempt is a  *)
(* single step.  The run is generation_, connected is opened_.  A receive  *)
(* idle timeout is configured.  willing is reopen_on_error.  A write whose *)
(* initiation throws is one that completes with an error at once.          *)
(***************************************************************************)
EXTENDS ClientChannel

mark_disconnected(s) ==
    IF s.connected THEN [LedgerEnd(s) EXCEPT !.connected = FALSE, !.conn = @ + 1] ELSE s

discard_connection_writes(s) ==
    [ClearQueues(s) EXCEPT !.active = <<>>, !.backpressure = FALSE]

FaultTimerRuns(s) == [Cancel(s, {"read", "write"}) EXCEPT !.open = FALSE]
close_port(s) == [Cancel(s, {"idle", "read", "write"}) EXCEPT !.open = FALSE]

\* Without a kick: the callers start a write themselves.
report_backpressure(s, queued) == ReportBackpressure(s, queued)

do_write(s) ==
    IF s.stopping \/ ~s.connected \/ s.tx = <<>> \/ s.writing THEN s
    ELSE Initiate([LedgerBegin(s, s.tx) EXCEPT !.writing = TRUE, !.active = s.tx, !.tx = <<>>],
                  "write", s.tx)

reset_rx_idle_timer(s) ==
    IF s.stopping THEN s
    ELSE Arm([s EXCEPT !.io = {IF o.kind = "idle" THEN [o EXCEPT !.fresh = FALSE] ELSE o : o \in @}],
             "idle")

start_read(s) == IF s.stopping \/ ~s.connected THEN s ELSE Initiate(s, "read", <<>>)

perform_cleanup(s) ==
    [close_port(discard_connection_writes(mark_disconnected(Cancel(s, {"retry"}))))
        EXCEPT !.state = "Closed"]

perform_stop_cleanup(s) ==
    Complete([perform_cleanup(s) EXCEPT !.backpressure = FALSE, !.cleanup_finished = TRUE])

\* max_retries is not consulted: a port is reopened until it opens.
schedule_retry(s) == IF s.stopping THEN s ELSE Arm(s, "retry")

\* An end of file is a device with nothing to say.  A close of the library's own
\* (aborted) ends the run unless it was part of a reopen.
handle_error(s, r, willing) ==
    LET d == close_port(discard_connection_writes(mark_disconnected(s)))
    IN  CASE s.stopping -> s
          [] ~s.stopping /\ r = "eof" -> start_read(s)
          [] ~s.stopping /\ r = "aborted" ->
                 IF s.state \in {"Error", "Connecting"} THEN s ELSE perform_cleanup(s)
          [] OTHER -> IF willing THEN schedule_retry([d EXCEPT !.state = "Connecting"])
                      ELSE [d EXCEPT !.state = "Error"]

\* r: whether the device opens and takes every setting.  An open port does not.
open_and_configure(s, r, willing) ==
    IF s.stopping THEN s
    ELSE IF r = "err" \/ s.open THEN handle_error([s EXCEPT !.open = TRUE], "err", willing)
    ELSE do_write(reset_rx_idle_timer(start_read(
             [s EXCEPT !.open = TRUE, !.connected = TRUE, !.conn = @ + 1, !.state = "Connected"])))

\* Overflowing the queue outside backpressure is fatal to the connection.
route_enqueued_buffer(s, w, willing) ==
    LET decision == decide_enqueue(s.queue, s.pend, s.backpressure, s.req[w].n, Limit)
        refused  == Release(LedgerComplete(s, <<w>>), "inflight", w)
        lost     == discard_connection_writes(mark_disconnected(
                        report_backpressure(refused, s.queue + s.req[w].n)))
    IN  IF s.stopping THEN Release(s, "inflight", w)
        ELSE CASE decision = "Rejected" /\ s.backpressure -> refused
               [] decision = "Rejected" /\ ~s.backpressure ->
                      handle_error([lost EXCEPT !.state = "Error"], "err", willing)
               [] decision = "Pending" -> ToPending(s, w)
               [] OTHER -> do_write(report_backpressure(ToQueue(s, w), s.queue + s.req[w].n))

-----------------------------------------------------------------------------
(* Caller threads.                                                         *)

\* started_ is cleared when a stop completes.
start ==
    /\ c.run < MaxRuns
    /\ c.run = 0 \/ c.cleanup_done
    /\ c' = Post([c EXCEPT !.run = @ + 1, !.cleanup_done = FALSE, !.cleanup_finished = FALSE,
                           !.stopping = FALSE, !.connected = FALSE, !.backpressure = FALSE,
                           !.inflight = 0, !.state = "Idle"], "start", 0)

stop ==
    /\ ~c.stopping
    /\ LET d == [LedgerEnd(c) EXCEPT !.stopping = TRUE]
       IN  c' = IF c.run = 0 THEN perform_stop_cleanup(d) ELSE Post(d, "cleanup", 0)

write_copy(n) == Admit(n)
write_move(n) == Admit(n)
write_shared(n) == Admit(n)
try_write_copy(n) == TryAdmit(n)
try_write_move(n) == TryAdmit(n)
try_write_shared(n) == TryAdmit(n)

-----------------------------------------------------------------------------
(* Handlers on the strand.                                                 *)

on_start(s, p, r, willing) ==
    IF OldRun(s, p) \/ s.stopping THEN s
    ELSE open_and_configure([s EXCEPT !.state = "Connecting"], r, willing)

on_write_posted(s, p, willing) ==
    IF OldRun(s, p) THEN s
    ELSE IF OldConnection(s, p) THEN Release(s, "inflight", p.w)
    ELSE route_enqueued_buffer(s, p.w, willing)

\* The handler of an accepted try-write, whose bytes are already counted.
on_try_posted(s, p) ==
    IF OldRun(s, p) \/ OldConnection(s, p) THEN s
    ELSE IF s.stopping \/ s.state \in Terminal THEN Release(s, "queue", p.w)
    ELSE do_write(report_backpressure([s EXCEPT !.tx = Append(@, p.w)], s.queue))

on_retry(s, o, r, opens, willing) ==
    IF r # "ok" \/ s.stopping THEN s ELSE open_and_configure(s, opens, willing)

\* From the data callback, so on the strand already.
fail_receive(s, willing) ==
    IF s.stopping \/ ~s.connected THEN s ELSE handle_error(s, "err", willing)

\* callback: what the data callback does.  It may return, refuse what it was
\* given, or throw where stop_on_callback_exception is set, which stops the port.
on_read(s, o, r, callback, willing) ==
    IF s.stopping \/ OldConnection(s, o) THEN s
    ELSE IF r # "ok" THEN handle_error(s, r, willing)
    ELSE LET d == reset_rx_idle_timer(s)
         IN  CASE callback = "returns" -> start_read(d)
               [] callback = "refuses" -> start_read(fail_receive(d, willing))
               [] callback = "throws"  ->
                      Post([LedgerEnd(d) EXCEPT !.stopping = TRUE], "cleanup", 0)

write_completed(s, o, r, willing, current) ==
    LET told    == LedgerComplete(s, o.batch)
        lost    == IF current /\ r # "ok" THEN mark_disconnected(told) ELSE told
        ended   == [lost EXCEPT !.active = <<>>, !.writing = FALSE]
    IN  IF ~current THEN lost
        ELSE IF s.stopping THEN ended
        ELSE IF r # "ok" THEN handle_error([ended EXCEPT !.tx = o.batch \o @], r, willing)
        ELSE LET d == [ended EXCEPT !.queue = release_reserved_write_bytes(@, Bytes(s, o.batch))]
             IN  do_write(report_backpressure(d, d.queue))
FaultUnfenced(s, o, r, willing) == write_completed(s, o, r, willing, TRUE)
on_write(s, o, r, willing) == write_completed(s, o, r, willing, ~OldConnection(s, o))

on_idle_timer(s, o, r, willing) ==
    IF r # "ok" \/ ~o.fresh \/ s.stopping \/ ~s.connected \/ OldConnection(s, o) THEN s
    ELSE handle_error(s, "err", willing)

-----------------------------------------------------------------------------
Init == c = Fresh("serial", FALSE, 0)

Call ==
    \/ start \/ stop
    \/ \E n \in Sizes :
        \/ write_copy(n) \/ write_move(n) \/ write_shared(n)
        \/ try_write_copy(n) \/ try_write_move(n) \/ try_write_shared(n)

\* Whether the device opens; MaxConns bounds the run as in UdsClient.
Opens == {"err"} \cup {r \in {"ok"} : c.conn < 2 * MaxConns}

RunPosted ==
    \/ First("try")     /\ c' = on_try_posted(Pop, Head(c.posts))
    \/ First("cleanup") /\ c' = perform_stop_cleanup(Pop)
    \/ \E willing \in BOOLEAN :
        \/ First("write") /\ c' = on_write_posted(Pop, Head(c.posts), willing)
        \/ First("start") /\ \E r \in Opens : c' = on_start(Pop, Head(c.posts), r, willing)

RunCompletion == \E o \in c.io : \E r \in Results(c, o) : Deliverable(o, r) /\
    LET s == Drop(c, o)
    IN  \E willing \in BOOLEAN :
        \/ o.kind = "retry" /\ \E opens \in Opens :
               c' = Complete(on_retry(s, o, r, opens, willing))
        \/ o.kind = "idle"  /\ c' = Complete(on_idle_timer(s, o, r, willing))
        \/ o.kind = "write" /\ c' = Complete(on_write(s, o, r, willing))
        \/ o.kind = "read"  /\ \E callback \in {"returns", "refuses", "throws"} :
               \E e \in IF r = "err" THEN {"err", "eof"} ELSE {r} :
               c' = Complete(on_read(s, o, e, callback, willing))

Next == Call \/ RunPosted \/ RunCompletion
Spec == Init /\ [][Next]_c
=============================================================================
