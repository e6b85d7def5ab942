--------------------------- MODULE ClientChannel ---------------------------
(***************************************************************************)
(* What the three stream transports that connect by themselves have in     *)
(* common: wirestead/transport/tcp_client/tcp_client.cc, uds/uds_client.cc *)
(* and serial/serial.cc.  Each keeps one Impl, here the record c, that is  *)
(* changed by caller threads (admission and stop, both under               *)
(* submission_mtx_) and by handlers on its strand, one at a time.          *)
(*                                                                         *)
(* Posted handlers run in posting order.  The completion of an operation   *)
(* on a socket or a timer runs whenever it is delivered.  Cancelling       *)
(* does not retract a completion that is already queued, so a cancelled    *)
(* operation may still deliver its result.                                 *)
(*                                                                         *)
(* A function of the Impl is an operator from the record before to the     *)
(* record after.  Payloads are sizes; statistics, logging, recorded errors *)
(* and user callbacks are left out.                                        *)
(***************************************************************************)
EXTENDS WriteQueue, Integers, FiniteSets, Sums

CONSTANTS
    High, Low, Limit,   \* bp_high_, bp_low_, bp_limit_
    MaxRetries,         \* the values max_retries is configured with; -1: no end
    MaxWrites, Sizes,   \* bounds: accepted writes, and the sizes of one
    MaxRuns, MaxConns,  \* bounds: start() calls, values of connection_seq_
    MaxOps              \* bound: operations outstanding before another result is taken

ASSUME ClientAssumption ==
    /\ {High, Low, Limit, MaxWrites, MaxRuns, MaxConns, MaxOps} \subseteq Nat
    /\ Sizes \subseteq Nat \ {0} /\ MaxRetries \subseteq Nat \cup {-1}

VARIABLE c

Writes == 1 .. MaxWrites

Terminal == {"Closed", "Error"}

\* A ledger entry: its state, and the run and connection it was accepted for.
NoRequest == [st |-> "unused", run |-> 0, conn |-> 0, n |-> 0]

\* The Impl as its constructor leaves it.
Fresh(kind, tls, max) ==
    [kind |-> kind, tls |-> tls, max_retries |-> max,
     run |-> 0, stop_seq |-> 0, conn |-> 0,
     connected |-> FALSE, open |-> FALSE, state |-> "Idle",
     stopping |-> FALSE, terminal |-> FALSE, retrying |-> FALSE, attempts |-> 0,
     cleanup_finished |-> FALSE, cleanup_done |-> FALSE,
     io |-> {}, posts |-> <<>>,
     tx |-> <<>>, pending |-> <<>>, active |-> <<>>, writing |-> FALSE,
     queue |-> 0, pend |-> 0, inflight |-> 0, backpressure |-> FALSE,
     req |-> [w \in Writes |-> NoRequest]]

Elements(ws) == {ws[i] : i \in DOMAIN ws}
Bytes(s, ws) == Total([i \in DOMAIN ws |-> s.req[ws[i]].n])

-----------------------------------------------------------------------------
(* Operations and handlers.                                                *)

Unused(s, kind) ==
    CHOOSE i \in 1 .. Cardinality(s.io) + 1 : \A o \in s.io : o.kind = kind => o.id # i

\* Initiates an operation.  One on a socket that is not open fails.
Initiate(s, kind, batch) ==
    [s EXCEPT !.io = @ \cup
        {[id |-> Unused(s, kind), kind |-> kind, run |-> s.run,
          conn |-> IF kind \in {"read", "write", "idle"} THEN s.conn ELSE 0,
          batch |-> batch, fresh |-> TRUE,
          end |-> IF kind \in {"read", "write"} /\ ~s.open THEN "failed" ELSE "open"]}]

Cancel(s, kinds) ==
    [s EXCEPT !.io = {IF o.kind \in kinds /\ o.end = "open"
                      THEN [o EXCEPT !.end = "cancelled"] ELSE o : o \in @}]

\* expires_after cancels the wait it replaces.
Arm(s, timer) == Initiate(Cancel(s, {timer}), timer, <<>>)

OnSocket == {"connect", "handshake", "read", "write"}

\* A connect closes the socket and opens it again.
OpenAndConnect(s) == Initiate([Cancel(s, OnSocket) EXCEPT !.open = TRUE], "connect", <<>>)

\* What the completion of an operation may report.  A connect over the addresses
\* of a host whose socket was closed under it reports that, whatever became of it.
\* The UDS client's retry interval is assumed longer than a queued handler waits:
\* its retry timer has not expired when a close cancels it.
Results(s, o) ==
    IF \/ o.kind = "connect" /\ s.kind = "tcp" /\ ~s.open
       \/ o.kind = "retry" /\ s.kind = "uds" /\ o.end = "cancelled" THEN {"aborted"}
    ELSE (IF o.end = "failed" THEN {} ELSE {"ok"})
         \cup (IF o.kind \in {"retry", "timer", "idle"} THEN {} ELSE {"err"})
         \cup (IF o.end = "cancelled" THEN {"aborted"} ELSE {})

\* Ended, with a completion that the code does not tell from one of a later
\* attempt: that of a connect or handshake whose socket was closed, and that of an
\* operation begun on a closed socket, which carries the next connection's number.
\* It is queued when the attempt ends, before the next one is begun, so it is taken
\* to run before the next retry timer or connect ends.  No such thing is assumed of
\* a read or write that a close cancelled: it may complete on any later connection.
Prompt(o) ==
    \/ o.end = "failed"
    \/ o.end = "cancelled" /\ o.kind \in {"connect", "handshake"}

Deliverable(o, r) ==
    /\ r = "aborted" \/ Cardinality(c.io) <= MaxOps
    /\ o.kind \in {"retry", "connect"} /\ o.end = "open" => ~ \E old \in c.io : Prompt(old)
Drop(s, o) == [s EXCEPT !.io = @ \ {o}]
\* The end of a completion handler: pending_io_ reaching zero completes a stop.
Complete(s) ==
    IF s.io = {} /\ s.cleanup_finished THEN [s EXCEPT !.cleanup_done = TRUE] ELSE s

Post(s, what, w) ==
    [s EXCEPT !.posts = Append(@, [what |-> what, w |-> w, run |-> s.run, conn |-> s.conn])]

First(what) == c.posts # <<>> /\ Head(c.posts).what = what
Pop == [c EXCEPT !.posts = Tail(@)]
\* The run and connection a handler captured are no longer the current ones.
OldRun(s, h) == h.run # s.run
OldConnection(s, h) == h.conn # s.conn

Posted(s, what) == \E i \in DOMAIN s.posts : s.posts[i].what \in what

-----------------------------------------------------------------------------
(* The send ledger, and the counters of WriteQueue.                        *)

LedgerEnd(s) ==
    [s EXCEPT !.req = [w \in Writes |->
        IF @[w].st \in {"queued", "active"} THEN [@[w] EXCEPT !.st = "done"] ELSE @[w]]]

LedgerCan(s, ws) == \A i \in DOMAIN ws : s.req[ws[i]].st = "queued"

LedgerBegin(s, ws) ==
    [s EXCEPT !.req = [w \in Writes |->
        IF w \in Elements(ws) THEN [@[w] EXCEPT !.st = "active"] ELSE @[w]]]

\* complete_batch and discard.  Which outcome they record is SendLedger's subject.
LedgerComplete(s, ws) ==
    [s EXCEPT !.req = [w \in Writes |->
        IF w \in Elements(ws) THEN [@[w] EXCEPT !.st = "done"] ELSE @[w]]]

Release(s, field, w) ==
    IF field = "queue" THEN [s EXCEPT !.queue = release_reserved_write_bytes(@, s.req[w].n)]
    ELSE [s EXCEPT !.inflight = release_reserved_limit_bytes(@, s.req[w].n)]

\* commit_reserved_limit_bytes and the enqueue it precedes.
ToPending(s, w) ==
    [Release(s, "inflight", w) EXCEPT !.pend = @ + s.req[w].n, !.pending = Append(@, w)]
ToQueue(s, w) ==
    [Release(s, "inflight", w) EXCEPT !.queue = @ + s.req[w].n, !.tx = Append(@, w)]

ClearQueues(s) ==
    [s EXCEPT !.tx = <<>>, !.pending = <<>>, !.queue = 0, !.pend = 0, !.writing = FALSE]

\* queue_util::report_backpressure.  When it relieves the pressure, the transport's
\* kick_write follows.
Relieves(s, queued) == ~s.stopping /\ FallingEdge(s.backpressure, queued, Low)
ReportBackpressure(s, queued) ==
    IF Relieves(s, queued)
    THEN [s EXCEPT !.tx = @ \o s.pending, !.pending = <<>>, !.queue = @ + s.pend, !.pend = 0,
                   !.backpressure = s.queue + s.pend >= High]
    ELSE IF ~s.stopping /\ RisingEdge(s.backpressure, queued, High)
    THEN [s EXCEPT !.backpressure = TRUE]
    ELSE s

\* Whether decide_reconnect_common allows another attempt.  willing: the error is
\* retryable and the policy, if there is one, agrees.
decide_reconnect_common(s, willing) ==
    /\ willing
    /\ s.max_retries # 0
    /\ s.max_retries > 0 => s.attempts < s.max_retries
\* Attempts are counted when there is a limit to compare them with.
CountAttempt(s) == IF s.max_retries > 0 THEN [s EXCEPT !.attempts = @ + 1] ELSE s

-----------------------------------------------------------------------------
(* Admission, under submission_mtx_ on a caller's thread.                  *)

Admissible(s) ==
    /\ ~s.stopping /\ s.run > 0
    /\ s.connected /\ s.state \notin Terminal

Used(s) == Cardinality({w \in Writes : s.req[w].st # "unused"})

Accept(s, what, n) ==
    LET w == Used(s) + 1
    IN  Post([s EXCEPT !.req[w] = [st |-> "queued", run |-> s.run, conn |-> s.conn, n |-> n]],
             what, w)

\* The three plain forms, and the three try forms.
Admit(n) ==
    /\ Admissible(c) /\ Used(c) < MaxWrites
    /\ try_reserve_limit_bytes(c.queue, c.pend, c.inflight, n, Limit)
    /\ c' = Accept([c EXCEPT !.inflight = @ + n], "write", n)
TryAdmit(n) ==
    /\ Admissible(c) /\ Used(c) < MaxWrites
    /\ try_reserve_write_bytes(c.queue, c.pend, c.inflight, c.backpressure, n, High, Limit)
    /\ c' = Accept([c EXCEPT !.queue = @ + n], "try", n)

-----------------------------------------------------------------------------
(* Properties.                                                             *)

InPosts(s, what, w) ==
    \E i \in DOMAIN s.posts :
        s.posts[i].what = what /\ s.posts[i].w = w /\ ~OldRun(s, s.posts[i])

\* A request is on the wire only for the run and the connection it was accepted
\* on, and one write at a time is: while a connection is up nothing accepted for
\* an earlier one waits in its queues, and no second write is begun over one that
\* is outstanding, although writes of earlier connections complete during it (the
\* fences of the posted handlers and of the write completions).
WrittenOnOwnConnection ==
    /\ \A o \in c.io : o.kind = "write" =>
           \A i \in DOMAIN o.batch :
               c.req[o.batch[i]].run = o.run /\ c.req[o.batch[i]].conn = o.conn
    /\ c.connected =>
           \A w \in Elements(c.tx) \cup Elements(c.pending) \cup Elements(c.active) :
               c.req[w].run = c.run /\ c.req[w].conn = c.conn
    /\ \A o1, o2 \in c.io :
           o1.kind = "write" /\ o1.end = "open" /\ o2.kind = "write" /\ o2.end = "open" => o1 = o2

\* The three counters the limits are checked against are the bytes they stand
\* for: a leaked reservation would refuse writes for ever; one released twice, by
\* the completion of a write of an earlier connection, say, would let the queue
\* pass its limit.
ReservationsExact ==
    LET posted(what) == {w \in Writes : InPosts(c, what, w)}
        size(ws)     == Total([w \in Writes |-> IF w \in ws THEN c.req[w].n ELSE 0])
        current      == {w \in posted("try") : c.req[w].conn = c.conn}
    IN  /\ c.pend = Bytes(c, c.pending)
        /\ c.inflight = size(posted("write"))
        /\ c.connected /\ ~c.stopping =>
               c.queue = Bytes(c, c.tx) + Bytes(c, c.active) + size(current)

\* No accepted request is stuck: until its connection ends it is posted, queued,
\* pending, or in a write that is outstanding, and queued bytes have somebody about
\* to write them, whatever loss, reconnect, admission and completions of earlier
\* connections came in between.
QueueHasDriver ==
    /\ \A w \in Writes :
        /\ c.req[w].st = "queued" =>
               \/ InPosts(c, "write", w) \/ InPosts(c, "try", w)
               \/ w \in Elements(c.tx) \cup Elements(c.pending)
        /\ c.req[w].st = "active" => \E o \in c.io : o.kind = "write" /\ w \in Elements(o.batch)
    /\ c.connected /\ ~c.stopping /\ c.state \notin Terminal /\ (c.tx # <<>> \/ c.pending # <<>>) =>
        \/ c.writing /\ \E o \in c.io : o.kind = "write" /\ ~OldConnection(c, o)
        \/ Posted(c, {"kick", "write", "try"})

\* A client that says Connecting is on its way: some operation or handler is
\* outstanding that leads to a connection, another attempt or Error.  (For a run
\* that has already reported a terminal state see ErrorIsFinal.)
ConnectingHasDriver ==
    c.state = "Connecting" /\ ~c.stopping /\ ~c.terminal =>
        \/ Posted(c, {"start"})
        \/ \E o \in c.io : o.kind \in {"resolve", "connect", "handshake", "retry"}
                            /\ o.end = "open"

\* A run that has given up stays so: "after retries are exhausted, the only way
\* back is stop() followed by start()" (docs/communication_contract_v0.10.md:354-355).
ErrorIsFinal == c.terminal /\ ~c.stopping => c.state \in Terminal

\* stop() ends, and leaves nothing.  Until it is done either its cleanup is still
\* to run or every operation left was cancelled or has failed, so it never waits
\* for the peer; once done there is no operation, no connection, no bytes and no
\* request without an outcome.
StopEnds ==
    /\ c.stopping /\ ~c.cleanup_done =>
        \/ Posted(c, {"cleanup"})
        \/ c.cleanup_finished /\ c.io # {} /\ \A o \in c.io : o.end # "open"
    /\ c.cleanup_done =>
        /\ c.io = {} /\ ~c.connected /\ ~c.open
        /\ c.tx = <<>> /\ c.pending = <<>> /\ c.queue = 0 /\ c.pend = 0
        /\ \A w \in Writes : c.req[w].st \in {"unused", "done"}
=============================================================================
