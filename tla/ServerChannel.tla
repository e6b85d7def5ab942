---------------------------- MODULE ServerChannel ----------------------------
(***************************************************************************)
(* What the two stream servers have in common:                             *)
(* wirestead/transport/tcp_server/tcp_server.cc and uds/uds_server.cc.     *)
(* The record v is a server's Impl together with the sessions it accepted. *)
(* A session is what TcpServerSession and UdsServerSession model, reduced  *)
(* to its life, the callbacks it makes on its own strand, and one          *)
(* cumulative count that stands for its statistics.                        *)
(*                                                                         *)
(* The server's strand and the sessions' strands run in parallel.  Posted  *)
(* handlers of one strand run in order and one at a time.  A user callback *)
(* takes time: it begins in one step and returns in another, with its      *)
(* strand held.  So does the handler of an accept, which looks at stopping *)
(* first and publishes the session later.                                  *)
(***************************************************************************)
EXTENDS Integers, FiniteSets, Sequences, Sums

CONSTANTS
    MaxClients,     \* max_clients_ or max_connections
    MaxSessions,    \* bound: sessions ever accepted
    MaxRuns,        \* bound: start() calls
    MaxCount,       \* bound: what one session counts between resets
    MaxBindRetries  \* max_port_retries

ASSUME ServerAssumption ==
    {MaxClients, MaxSessions, MaxRuns, MaxCount, MaxBindRetries} \subseteq Nat

VARIABLE v

Ids == 1 .. MaxSessions

NoSession ==
    [run |-> 0, alive |-> FALSE, closing |-> FALSE, cleanup_done |-> FALSE,
     on_close |-> FALSE, reading |-> FALSE, callback |-> "none", told |-> "nothing",
     posts |-> <<>>, count |-> 0]

Fresh(kind) ==
    [kind |-> kind, run |-> 0, state |-> "Idle", stopping |-> FALSE,
     run_dispatched |-> FALSE, cleanup_started |-> FALSE, cleanup_done |-> FALSE,
     acceptor |-> FALSE, accepting |-> {}, timers |-> {}, publishing |-> 0, posts |-> <<>>,
     next |-> 1, sessions |-> {}, retiring |-> {}, current |-> 0, remaining |-> 0,
     sess |-> [k \in Ids |-> NoSession], absorbed |-> 0, counted |-> 0, writer |-> 0]

Post(s, what, k) ==
    [s EXCEPT !.posts = Append(@, [what |-> what, k |-> k,
                                   run |-> IF k = 0 THEN s.run ELSE s.sess[k].run])]
PostTo(s, k, what) == [s EXCEPT !.sess[k].posts = Append(@, what)]
Arm(s, what, n) == [s EXCEPT !.timers = @ \cup {[what |-> what, n |-> n, run |-> s.run]}]

\* The fence every handler of a run puts before what it does.
Fenced(s, run) == s.stopping \/ run # s.run

First(what) == v.publishing = 0 /\ v.posts # <<>> /\ Head(v.posts).what = what
Pop == [v EXCEPT !.posts = Tail(@)]
\* A session's strand is free, and at the handler that was posted first.
Idle(k) == v.sess[k].callback = "none"
FirstOf(k, what) == Idle(k) /\ v.sess[k].posts # <<>> /\ Head(v.sess[k].posts) = what
PopOf(k) == [v EXCEPT !.sess[k].posts = Tail(@)]
\* It has the handler posted.
Holds(k, what) == \E i \in DOMAIN v.sess[k].posts : v.sess[k].posts[i] = what

-----------------------------------------------------------------------------
(* The server.                                                             *)

FaultForgetsTotals(s, k) == s
\* Into stats_ and closed_send_accounting_.
absorb_session(s, k) == [s EXCEPT !.absorbed = @ + s.sess[k].count]

do_accept(s) ==
    IF s.stopping \/ ~s.acceptor THEN s ELSE [s EXCEPT !.accepting = @ \cup {s.run}]

finish_cleanup(s, idle) == [s EXCEPT !.state = idle, !.cleanup_done = TRUE]

FaultSkipsClosing(s, ks) ==
    [s EXCEPT !.sess = [k \in Ids |->
        IF k \in ks /\ ~s.sess[k].closing
        THEN [s.sess[k] EXCEPT !.closing = TRUE, !.posts = Append(@, "stop")]
        ELSE s.sess[k]]]

\* async_stop: whatever is posted for a session already comes before its stop.
async_stop(s, ks) ==
    [s EXCEPT !.sess = [k \in Ids |->
        IF k \in ks
        THEN [s.sess[k] EXCEPT !.closing = TRUE, !.posts = Append(@, "stop")]
        ELSE s.sess[k]]]

FaultSkipsSessions(s, idle) ==
    LET d == [s EXCEPT !.cleanup_started = TRUE, !.acceptor = FALSE, !.current = 0,
                       !.retiring = s.sessions, !.sessions = {},
                       !.remaining = Cardinality(s.sessions)]
    IN  finish_cleanup(async_stop(d, d.retiring), idle)

\* idle: the state a stopped server is left in.
perform_cleanup(s, idle) ==
    LET d == [s EXCEPT !.cleanup_started = TRUE, !.acceptor = FALSE, !.current = 0,
                       !.retiring = s.sessions, !.sessions = s.retiring,
                       !.remaining = Cardinality(s.sessions)]
    IN  IF s.cleanup_started THEN s
        ELSE IF s.sessions = {} THEN finish_cleanup(d, idle)
        ELSE async_stop(d, d.retiring)

\* The completion of a session's async_stop, on the server's strand.
on_retired(s, k, idle) ==
    LET d == IF k \in s.retiring
             THEN [absorb_session(s, k) EXCEPT !.retiring = @ \ {k}] ELSE s
        e == [d EXCEPT !.remaining = @ - 1]
    IN  IF e.remaining = 0 THEN finish_cleanup(e, idle) ELSE e

\* On any thread.  One that is not the executor's then waits for cleanup_done.
stop(s, idle) ==
    LET d == [s EXCEPT !.stopping = TRUE,
                       !.sess = [k \in Ids |-> IF k \in s.sessions
                                    THEN [s.sess[k] EXCEPT !.closing = TRUE] ELSE s.sess[k]]]
    IN  IF s.stopping THEN s
        ELSE IF s.run_dispatched THEN Post(d, "cleanup", 0) ELSE perform_cleanup(d, idle)

\* What both start()s do first.  start() is called once, or after a stop() that
\* waited.
MayStart == v.run < MaxRuns /\ (v.run = 0 \/ v.cleanup_done)
Started(s) ==
    [s EXCEPT !.run = @ + 1, !.run_dispatched = FALSE, !.stopping = FALSE,
              !.cleanup_started = FALSE, !.cleanup_done = FALSE,
              !.absorbed = 0, !.counted = 0]

\* The sessions whose counters are not in the totals yet.
Held(s) == s.sessions \cup s.retiring

stats(s) ==
    s.absorbed + Total([k \in Ids |-> IF k \in Held(s) THEN s.sess[k].count ELSE 0])

ResetStats ==
    /\ v.counted > 0
    /\ v' = [v EXCEPT !.absorbed = 0, !.counted = 0,
                      !.sess = [k \in Ids |-> IF k \in Held(v)
                                    THEN [@[k] EXCEPT !.count = 0] ELSE @[k]]]

-----------------------------------------------------------------------------
(* Accepting.                                                              *)

\* A connection arrives for the outstanding accept.  Over the limit it is closed
\* and the loop goes on.
FaultPausesAtLimit(s, run) ==
    LET d == [s EXCEPT !.accepting = @ \ {run}]
    IN  IF Fenced(d, run) \/ Cardinality(d.sessions) >= MaxClients THEN d
        ELSE [d EXCEPT !.publishing = run]
on_accepted(s, run) ==
    LET d == [s EXCEPT !.accepting = @ \ {run}]
    IN  IF Fenced(d, run) THEN d
        ELSE IF Cardinality(d.sessions) >= MaxClients THEN do_accept(d)
        ELSE [d EXCEPT !.publishing = run]

\* The accept fails.  An acceptor closed by the cleanup fails it too.
on_accept_failed(s, run) ==
    LET d == [s EXCEPT !.accepting = @ \ {run}]
    IN  IF Fenced(d, run) THEN d ELSE Arm(d, "accept", 0)

\* The rest of the handler, under sessions_mutex_: the session enters the map, is
\* alive, and has its notification first on its strand.
Publish ==
    /\ v.publishing > 0
    /\ LET k == v.next
           d == [v EXCEPT !.next = @ + 1, !.sessions = @ \cup {k}, !.publishing = 0,
                          !.current = IF v.kind = "tcp" THEN k ELSE 0,
                          !.sess[k] = [NoSession EXCEPT !.run = v.publishing, !.alive = TRUE,
                                           !.on_close = TRUE, !.posts = <<"start">>]]
       IN  v' = do_accept(d)

ConnectionArrives ==
    \E run \in v.accepting :
        /\ v.publishing = 0 /\ v.acceptor
        /\ v.next <= MaxSessions \/ Cardinality(v.sessions) >= MaxClients
        /\ v' = on_accepted(v, run)
AcceptFails == \E run \in v.accepting : v.publishing = 0 /\ v' = on_accept_failed(v, run)
AcceptTimer ==
    \E t \in v.timers :
        LET d == [v EXCEPT !.timers = @ \ {t}]
        IN  /\ t.what = "accept" /\ v.publishing = 0
            /\ v' = IF Fenced(d, t.run) THEN d ELSE do_accept(d)

-----------------------------------------------------------------------------
(* Sessions, each on its own strand.                                       *)

Open(s, k) == s.sess[k].alive /\ ~s.sess[k].closing

\* The handler of start_with_notification.
on_session_start(s, k) ==
    LET q == s.sess[k]
    IN  IF ~Open(s, k) THEN s
        ELSE [s EXCEPT !.sess[k] =
                IF Fenced(s, q.run) THEN [q EXCEPT !.reading = TRUE]
                ELSE [q EXCEPT !.reading = TRUE, !.callback = "connect", !.told = "connected"]]

FaultUnfencedClose(s, k) ==
    LET q == s.sess[k]
        d == [q EXCEPT !.alive = FALSE, !.closing = TRUE, !.cleanup_done = TRUE,
                       !.on_close = FALSE]
    IN  IF q.cleanup_done THEN s
        ELSE [s EXCEPT !.sess[k] =
                IF ~q.on_close THEN d
                ELSE [d EXCEPT !.callback = "disconnect", !.told = "disconnected"]]

\* The session's cleanup, once, and the on_close the server gave it up to the
\* point where the user's on_disconnect has been called.
do_close(s, k) ==
    LET q == s.sess[k]
        d == [q EXCEPT !.alive = FALSE, !.closing = TRUE, !.cleanup_done = TRUE,
                       !.on_close = FALSE]
    IN  IF q.cleanup_done THEN s
        ELSE [s EXCEPT !.sess[k] =
                IF ~q.on_close \/ Fenced(s, q.run) THEN d
                ELSE [d EXCEPT !.callback = "disconnect", !.told = "disconnected"]]

\* The handler of async_stop, whose completion goes to the server's strand.
on_session_stop(s, k) ==
    Post(do_close([s EXCEPT !.sess[k].on_close = FALSE], k), "retired", k)

RunSession(k) ==
    \/ FirstOf(k, "start") /\ v' = on_session_start(PopOf(k), k)
    \/ FirstOf(k, "close") /\ v' = do_close(PopOf(k), k)
    \/ FirstOf(k, "stop")  /\ v' = on_session_stop(PopOf(k), k)

\* A read or a write fails, the handshake fails, or the idle timer expires.
Lose(k) ==
    /\ Idle(k) /\ v.sess[k].reading /\ Open(v, k)
    /\ v' = do_close(v, k)

Count(s, ks) ==
    [s EXCEPT !.counted = @ + Cardinality(ks),
              !.sess = [k \in Ids |-> IF k \in ks THEN [s.sess[k] EXCEPT !.count = @ + 1]
                                      ELSE s.sess[k]]]
Countable(k) == v.sess[k].count < MaxCount

\* A read succeeds; the data callbacks are gone once stop() has begun.
Receive(k) ==
    /\ Idle(k) /\ v.sess[k].reading /\ Open(v, k) /\ Countable(k)
    /\ v' = [Count(v, {k}) EXCEPT !.sess[k].callback =
                 IF Fenced(v, v.sess[k].run) THEN "none" ELSE "data"]

\* Whether a client can be addressed.
target_state == ~v.stopping /\ v.run > 0

fail_receive(k) ==
    /\ target_state /\ k \in v.sessions
    /\ ~Holds(k, "close")
    /\ v' = PostTo(v, k, "close")

\* Admission to one client, under target_admission_mtx_ and sessions_mutex_.
write_target(k) ==
    /\ target_state
    /\ k \in v.sessions /\ Open(v, k) /\ Countable(k)
    /\ v' = Count(v, {k})

\* To every client, under sessions_mutex_ alone.
broadcast ==
    LET ks == {k \in v.sessions : Open(v, k) /\ Countable(k)}
    IN  ks # {} /\ v' = Count(v, ks)

-----------------------------------------------------------------------------
(* Properties.                                                             *)

\* No traffic is lost from the server's totals or counted twice: what stats()
\* sums up, the absorbed totals and the sessions still held, is what the sessions
\* counted since the last reset, while sessions close, stop() retires them and
\* reset_stats() runs.
TotalsExact == stats(v) = v.counted

\* When stop() returns the run is over: no connect, data or disconnect callback of
\* any of its sessions is running or can still begin, the acceptor is closed and no
\* session is left.  (A closing session stays in the map until its notification has
\* returned; an accept that was aborted may still report that.)
StopQuiesces ==
    v.cleanup_done =>
        /\ v.sessions = {} /\ v.retiring = {} /\ v.publishing = 0 /\ ~v.acceptor
        /\ \A k \in Ids : v.sess[k].run > 0 =>
               v.sess[k].callback = "none" /\ v.sess[k].cleanup_done

Pending(what) == \E i \in DOMAIN v.posts : v.posts[i].what = what

\* stop() is never left waiting: until it is done its cleanup is still posted, or
\* each session it is waiting for has its stop, or its answer, on the way.
CleanupAdvances ==
    v.stopping /\ ~v.cleanup_done =>
        \/ Pending("cleanup")
        \/ /\ v.remaining > 0 /\ v.remaining = Cardinality(v.retiring)
           /\ \A k \in v.retiring :
                \/ Holds(k, "stop")
                \/ \E i \in DOMAIN v.posts : v.posts[i].what = "retired" /\ v.posts[i].k = k

\* A server that says it listens does: an accept is outstanding or about to be
\* (after an error, at the client limit, and while a session is published), and
\* Connected means that the map holds a client.
AcceptLoopLives ==
    v.state \in {"Listening", "Connected"} /\ ~v.stopping =>
        /\ \/ v.run \in v.accepting \/ v.publishing = v.run
           \/ \E t \in v.timers : t.what = "accept" /\ t.run = v.run
           \/ Pending("accept")
        /\ v.state = "Connected" => v.sessions # {}

\* The user hears of each client in order and of nothing from a stopped run:
\* connect once, disconnect once and only after connect, and neither begins (with
\* the look at stopping_ before it) once stop() has taken effect.
NotificationsFenced ==
    [][\A k \in Ids : v'.sess[k].told # v.sess[k].told =>
          /\ ~v.stopping /\ v.sess[k].run = v.run
          /\ <<v.sess[k].told, v'.sess[k].told>> \in
                {<<"nothing", "connected">>, <<"connected", "disconnected">>}]_v
=============================================================================
