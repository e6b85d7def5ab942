----------------------------- MODULE UdpChannel -----------------------------
(***************************************************************************)
(* The datagram transport: wirestead/transport/udp/udp.cc.  There is no    *)
(* connection: a run has one socket, and loss means that this socket       *)
(* failed.  connected is opened_, the run is generation_; connected_ is    *)
(* opened_ with a remote_endpoint_.  A write goes to the remote endpoint   *)
(* or, for a server, to an address, with or without the virtual session    *)
(* (UdpWriteWait with its statistics) the server keeps for that address.   *)
(*                                                                         *)
(* c has the extra fields remote (remote_endpoint_ is set), configured     *)
(* (the configuration names it), sess (the sessions captured so far) and   *)
(* to: where each request goes.  A write whose initiation throws is one    *)
(* that completes with an error at once.                                   *)
(***************************************************************************)
EXTENDS ClientChannel, SequencesExt

ToRemote == -1      \* a request for the remote endpoint
ToAddress == 0      \* a request for an address, without a session

UdpWriteWait(run) ==
    [run |-> run, ended |-> FALSE, queued |-> 0, pending |-> 0,
     expired |-> FALSE, handed |-> {}]

Sessions(s) == DOMAIN s.sess
Of(s, k) == {w \in Writes : s.to[w] = k}

Halted(s) == s.stopping \/ s.state \in Terminal

\* release_session_bytes, for every request of ws.
release_session_queued(s, ws) ==
    [s EXCEPT !.sess = [k \in DOMAIN @ |-> [@[k] EXCEPT !.queued =
        release_reserved_write_bytes(@, Bytes(s, SelectSeq(ws, LAMBDA w : w \in Of(s, k))))]]]
release_session_pending(s, ws) ==
    [s EXCEPT !.sess = [k \in DOMAIN @ |-> [@[k] EXCEPT !.pending =
        release_reserved_write_bytes(@, Bytes(s, SelectSeq(ws, LAMBDA w : w \in Of(s, k))))]]]
session_queued(s, w) ==
    IF s.to[w] > 0 THEN [s EXCEPT !.sess[s.to[w]].queued = @ + s.req[w].n] ELSE s
session_pending(s, w) ==
    IF s.to[w] > 0 THEN [s EXCEPT !.sess[s.to[w]].pending = @ + s.req[w].n] ELSE s

end_write_waits(s) ==
    [s EXCEPT !.sess = [k \in DOMAIN @ |-> [@[k] EXCEPT !.ended = TRUE]]]

fail_writes_locked(s) == end_write_waits([LedgerEnd(s) EXCEPT !.connected = FALSE])

drain_queue_and_clear_backpressure(s) ==
    [release_session_pending(release_session_queued(s, s.tx), s.pending)
        EXCEPT !.tx = <<>>, !.queue = 0, !.pending = <<>>, !.pend = 0, !.backpressure = FALSE]

\* The notification is left out.  A run reports one terminal state.
transition_to(s, target) ==
    IF target \notin Terminal THEN [s EXCEPT !.state = target]
    ELSE IF s.state \in Terminal \/ s.terminal THEN s
    ELSE drain_queue_and_clear_backpressure(
             [fail_writes_locked(s) EXCEPT !.terminal = TRUE, !.state = target])

\* Whether do_write may hand a request over: it has no outcome yet, and there is
\* somewhere to send it.
Sendable(s, w) == s.req[w].st = "queued" /\ (s.to[w] # ToRemote \/ s.remote)

\* Requests at the front that cannot be sent are dropped, one at a time.
FaultSendsAll(s) == s
DropUnsendable(s) ==
    LET live == {i \in DOMAIN s.tx : Sendable(s, s.tx[i])}
        n    == IF live = {} THEN Len(s.tx) ELSE Min(live) - 1
        dead == SubSeq(s.tx, 1, n)
    IN  [release_session_queued(LedgerComplete(s, dead), dead)
            EXCEPT !.tx = SubSeq(@, n + 1, Len(@)),
                   !.queue = release_reserved_write_bytes(@, Bytes(s, dead))]

RECURSIVE do_write(_)

\* The flush hook moves the bytes of each session along, and the kick writes.
report_backpressure(s, queued) ==
    LET r == ReportBackpressure(s, queued)
        moved == [r EXCEPT !.sess = [k \in DOMAIN @ |->
                     [@[k] EXCEPT !.queued = @ + s.sess[k].pending, !.pending = 0]]]
    IN  IF ~Relieves(s, queued) THEN r ELSE IF moved.writing THEN moved ELSE do_write(moved)

do_write(s) ==
    IF s.writing \/ s.tx = <<>> THEN s
    ELSE IF Halted(s) THEN drain_queue_and_clear_backpressure(s)
    ELSE IF ~s.connected THEN s
    ELSE LET d == DropUnsendable(s)
             batch == <<Head(d.tx)>>
         IN  IF d.tx = <<>> THEN report_backpressure(d, d.queue)
             ELSE Initiate([LedgerBegin(d, batch) EXCEPT
                                !.writing = TRUE, !.active = batch, !.tx = Tail(@)],
                           "write", batch)

start_receive(s) == IF Halted(s) \/ ~s.open THEN s ELSE Initiate(s, "read", <<>>)

\* r: whether the address is valid, and the socket opens, binds and joins.
open_socket(s, r) ==
    IF s.stopping THEN s
    ELSE IF r = "err" THEN transition_to([s EXCEPT !.open = TRUE], "Error")
    ELSE start_receive(transition_to([s EXCEPT !.open = TRUE, !.connected = TRUE],
                                     IF s.remote THEN "Connected" ELSE "Listening"))

\* What the reservation becomes once the handler of a plain write runs.
enqueue_buffer(s, w) ==
    LET released == Release(s, "inflight", w)
        n        == s.req[w].n
        decision == decide_enqueue(s.queue, s.pend, s.backpressure, n, Limit)
    IN  IF Halted(s) THEN released
        ELSE IF s.req[w].st # "queued" THEN report_backpressure(released, s.queue)
        ELSE CASE decision = "Rejected"  ->
                      report_backpressure(LedgerComplete(released, <<w>>), s.queue + n)
               [] decision = "Pending"   -> do_write(session_pending(ToPending(s, w), w))
               [] decision = "Immediate" ->
                      do_write(report_backpressure(session_queued(ToQueue(s, w), w), s.queue + n))

FaultForgetsSession(s, k) ==
    LET rest(ws) == SelectSeq(ws, LAMBDA w : s.to[w] # k)
        gone(ws) == SelectSeq(ws, LAMBDA w : s.to[w] = k)
    IN  [s EXCEPT
            !.tx = rest(@), !.queue = release_reserved_write_bytes(@, Bytes(s, gone(s.tx))),
            !.pending = rest(@), !.pend = release_reserved_write_bytes(@, Bytes(s, gone(s.pending)))]
discard_session_queue(s, k) ==
    LET rest(ws) == SelectSeq(ws, LAMBDA w : s.to[w] # k)
        gone(ws) == SelectSeq(ws, LAMBDA w : s.to[w] = k)
    IN  [release_session_pending(release_session_queued(s, gone(s.tx)), gone(s.pending)) EXCEPT
            !.tx = rest(@), !.queue = release_reserved_write_bytes(@, Bytes(s, gone(s.tx))),
            !.pending = rest(@), !.pend = release_reserved_write_bytes(@, Bytes(s, gone(s.pending)))]

perform_stop_cleanup(s) ==
    LET closed == [Cancel(s, {"read", "write"}) EXCEPT !.open = FALSE, !.writing = FALSE]
        ended  == [drain_queue_and_clear_backpressure(closed) EXCEPT !.connected = FALSE]
    IN  Complete([transition_to(ended, "Closed") EXCEPT !.cleanup_finished = TRUE])

-----------------------------------------------------------------------------
(* Caller threads, under submission_mtx_.                                  *)

start ==
    /\ c.run < MaxRuns
    /\ c.run = 0 \/ c.cleanup_done
    /\ c' = Post([c EXCEPT !.run = @ + 1, !.remote = c.configured, !.inflight = 0,
                           !.cleanup_done = FALSE, !.cleanup_finished = FALSE,
                           !.stopping = FALSE, !.terminal = FALSE, !.connected = FALSE,
                           !.writing = FALSE, !.queue = 0, !.pend = 0,
                           !.backpressure = FALSE, !.state = "Idle"], "start", 0)

\* stop() on a thread that is not the strand's; it then waits for cleanup_done.
Stopped(s) ==
    LET d == end_write_waits([LedgerEnd(s) EXCEPT !.stopping = TRUE])
    IN  IF s.run = 0 THEN perform_stop_cleanup(d) ELSE Post(d, "cleanup", 0)

stop == ~c.stopping /\ c' = Stopped(c)

write_copy(n) == c.remote /\ Admit(n)
write_move(n) == c.remote /\ Admit(n)
write_shared(n) == c.remote /\ Admit(n)
try_write_copy(n) == c.remote /\ TryAdmit(n)
try_write_move(n) == c.remote /\ TryAdmit(n)
try_write_shared(n) == c.remote /\ TryAdmit(n)

\* write_move and write_shared of more than bp_limit_ are refused, and fatal.
write_too_large ==
    /\ Admissible(c) /\ c.remote
    /\ ~Posted(c, {"too large"})
    /\ c' = Post(c, "too large", 0)

\* The session, if one is named, must be of this run and not have ended.
Addressable(k) == k \in Sessions(c) => c.sess[k].run = c.run /\ ~c.sess[k].ended
AddressNext(k) == [c EXCEPT !.to[Used(c) + 1] = k]

write_to(n, k) ==
    /\ Admissible(c) /\ Used(c) < MaxWrites /\ Addressable(k)
    /\ try_reserve_limit_bytes(c.queue, c.pend, c.inflight, n, Limit)
    /\ c' = Accept([AddressNext(k) EXCEPT !.inflight = @ + n], "write", n)

try_write_to(n, k) ==
    /\ Admissible(c) /\ Used(c) < MaxWrites /\ Addressable(k)
    /\ try_reserve_write_bytes(c.queue, c.pend, c.inflight, c.backpressure, n, High, Limit)
    /\ c' = session_queued(Accept([AddressNext(k) EXCEPT !.queue = @ + n], "try", n),
                           Used(c) + 1)

\* With track_session: what the server keeps for a new peer.
capture_write_wait ==
    /\ Admissible(c)
    /\ Len(c.sess) < MaxConns
    /\ c' = [c EXCEPT !.sess = Append(@, UdpWriteWait(c.run))]

\* What is waiting for the session gets its outcome now, its bytes go later.
expire_session(k) ==
    /\ ~c.sess[k].expired
    /\ LET waiting == {w \in Of(c, k) : c.req[w].st = "queued"}
       IN  c' = Post([LedgerComplete(c, SetToSeq(waiting)) EXCEPT
                          !.sess[k].ended = TRUE, !.sess[k].expired = TRUE,
                          !.sess[k].handed = {w \in Of(c, k) : c.req[w].st = "active"}],
                     "expire", k)

cancel_write_waits ==
    /\ \E k \in Sessions(c) : ~c.sess[k].ended
    /\ c' = end_write_waits(c)

-----------------------------------------------------------------------------
(* Handlers on the strand.                                                 *)

on_start(s, p, r) ==
    IF s.stopping \/ OldRun(s, p) THEN s
    ELSE open_socket(transition_to(s, "Connecting"), r)

on_write_posted(s, p) == IF OldRun(s, p) THEN s ELSE enqueue_buffer(s, p.w)

\* The handlers of the accepted try-writes, whose bytes are already counted.
on_try_posted(s, p) ==
    LET released == release_session_queued(Release(s, "queue", p.w), <<p.w>>)
    IN  CASE OldRun(s, p) -> s
          [] ~OldRun(s, p) /\ (Halted(s) \/ (s.to[p.w] = ToRemote /\ ~s.remote)) ->
                 released
          [] ~OldRun(s, p) /\ ~Halted(s) /\ s.to[p.w] # ToRemote /\ s.req[p.w].st # "queued" ->
                 report_backpressure(released, released.queue)
          [] OTHER -> do_write(report_backpressure([s EXCEPT !.tx = Append(@, p.w)], s.queue))

on_too_large(s, p) == IF OldRun(s, p) \/ s.stopping THEN s ELSE transition_to(s, "Error")

on_expire(s, p) ==
    LET d == discard_session_queue(s, p.w)
    IN  IF OldRun(s, p) THEN s ELSE do_write(report_backpressure(d, d.queue))

\* The first datagram fixes the remote endpoint.  callback: a data callback may
\* throw where stop_on_callback_exception is set, which stops the channel.
handle_receive(s, r, callback) ==
    IF r = "aborted" \/ Halted(s) THEN s
    ELSE IF r = "err" THEN transition_to(s, "Error")
    ELSE LET d == IF s.remote THEN s
                  ELSE transition_to([s EXCEPT !.remote = TRUE], "Connected")
         IN  IF callback = "throws" THEN Stopped(d) ELSE start_receive(d)

\* A short write is an error.
on_write(s, o, r) ==
    LET told  == LedgerComplete(s, o.batch)
        lost  == IF r # "ok" /\ ~s.stopping THEN fail_writes_locked(told) ELSE told
        freed == release_session_queued([lost EXCEPT !.active = <<>>, !.queue =
                     release_reserved_write_bytes(@, Bytes(s, o.batch))], o.batch)
        d     == [report_backpressure(freed, freed.queue) EXCEPT !.writing = FALSE]
    IN  CASE OldRun(s, o) -> s
          [] ~OldRun(s, o) /\ Halted(s) -> drain_queue_and_clear_backpressure(d)
          [] ~OldRun(s, o) /\ ~Halted(s) /\ r # "ok" ->
                 drain_queue_and_clear_backpressure(transition_to(d, "Error"))
          [] OTHER -> do_write(d)

-----------------------------------------------------------------------------
Init == \E configured \in BOOLEAN :
    c = Fresh("udp", FALSE, 0) @@
        [configured |-> configured, remote |-> configured, sess |-> <<>>,
         to |-> [w \in Writes |-> ToRemote]]

\* Two uses, to bound the instance: a channel with a configured remote endpoint
\* also writes to plain addresses; one without is a server's and keeps sessions.
Call ==
    \/ start \/ stop \/ write_too_large
    \/ \E n \in Sizes :
        \/ write_copy(n) \/ write_move(n) \/ write_shared(n)
        \/ try_write_copy(n) \/ try_write_move(n) \/ try_write_shared(n)
        \/ \E k \in IF c.configured THEN {ToAddress} ELSE Sessions(c) :
               write_to(n, k) \/ try_write_to(n, k)
    \/ ~c.configured /\ capture_write_wait
    \/ cancel_write_waits
    \/ \E k \in Sessions(c) : expire_session(k)

RunPosted ==
    \/ First("start") /\ \E r \in {"ok", "err"} : c' = on_start(Pop, Head(c.posts), r)
    \/ First("write")     /\ c' = on_write_posted(Pop, Head(c.posts))
    \/ First("try")       /\ c' = on_try_posted(Pop, Head(c.posts))
    \/ First("too large") /\ c' = on_too_large(Pop, Head(c.posts))
    \/ First("expire")    /\ c' = on_expire(Pop, Head(c.posts))
    \/ First("cleanup")   /\ c' = perform_stop_cleanup(Pop)

RunCompletion == \E o \in c.io : \E r \in Results(c, o) : Deliverable(o, r) /\
    LET s == Drop(c, o)
    IN  \/ o.kind = "write" /\ c' = Complete(on_write(s, o, r))
        \/ o.kind = "read"  /\ \E callback \in {"returns", "throws"} :
               c' = Complete(handle_receive(s, r, callback))

Next == Call \/ RunPosted \/ RunCompletion
Spec == Init /\ [][Next]_c

-----------------------------------------------------------------------------
(* Properties.                                                             *)

\* The bytes a session reports as queued and pending are those of its requests
\* that wait on the strand, in the queues or in the write on the socket: the socket's
\* counters and the session's are changed in different places by admission, flush,
\* drop, expiry, drain and completion, and neither may drift.
SessionBytesExact ==
    \A k \in Sessions(c) : c.sess[k].run = c.run =>
        LET mine(ws) == Bytes(c, SelectSeq(ws, LAMBDA w : c.to[w] = k))
            posted   == SetToSeq({w \in Of(c, k) : InPosts(c, "try", w)})
        IN  /\ c.sess[k].pending = mine(c.pending)
            /\ c.sess[k].queued = mine(c.tx) + mine(c.active) + Bytes(c, posted)

\* Expiry is a fence: once expire_session has returned no request of the session
\* waits for an outcome, and none is handed to the socket that was not already on
\* it (the ledger check of do_write, while the discard is still posted).
ExpiryFences ==
    \A k \in Sessions(c) : c.sess[k].expired =>
        \A w \in Of(c, k) :
            /\ c.req[w].st # "queued"
            /\ c.req[w].st = "active" => w \in c.sess[k].handed
=============================================================================
