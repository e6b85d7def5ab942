------------------------ MODULE ClientChannelProofs ------------------------
(***************************************************************************)
(* stop() of the TCP client, for any number of writes, runs, connections   *)
(* and operations in flight: its cleanup is on the way or done, and when   *)
(* it is done nothing is left of the run.                                  *)
(*                                                                         *)
(* That is not inductive: the cleanup has to be the last handler on the    *)
(* strand and every handler and operation one of this run, and no handler  *)
(* may open or queue anything once a stop is requested.  A handler is a    *)
(* sequence of calls, so each function has a lemma that it is a move       *)
(* (Moves), which a stop request restricts to winding down.                *)
(***************************************************************************)
EXTENDS TcpClient, TLAPS

\* Most steps are first-order; those that need arithmetic, sequences or records of
\* numbers cite SMT.
USE Zenon

-----------------------------------------------------------------------------
(* The Impl.                                                               *)

Fields ==
    {"kind", "tls", "max_retries", "run", "stop_seq", "conn", "connected", "open", "state",
     "stopping", "terminal", "retrying", "attempts", "cleanup_finished", "cleanup_done",
     "io", "posts", "tx", "pending", "active", "writing", "queue", "pend", "inflight",
     "backpressure", "req"}

OpFields == {"id", "kind", "run", "conn", "batch", "fresh", "end"}
Kinds == {"resolve", "connect", "handshake", "read", "write", "retry", "timer", "idle"}
Handlers ==
    {h \in [what : {"start", "write", "try", "kick", "cleanup"}, w : Writes \cup {0},
            run : Nat, conn : Nat] : h.what \in {"write", "try"} => h.w \in Writes}
Requests == [st : {"unused", "queued", "active", "done"}, run : Nat, conn : Nat, n : Nat]

OpType(o) ==
    /\ DOMAIN o = OpFields /\ o.kind \in Kinds /\ o.run \in Nat /\ o.conn \in Nat
    /\ o.batch \in Seq(Writes) /\ o.end \in {"open", "cancelled", "failed"}

\* Operations are of this run: a start() follows a stop() that saw the last one end.
Typed(s) ==
    /\ DOMAIN s = Fields
    /\ s.run \in Nat /\ s.stop_seq \in Nat /\ s.conn \in Nat
    /\ \A o \in s.io : OpType(o) /\ o.run = s.run
    /\ s.posts \in Seq(Handlers)
    /\ s.tx \in Seq(Writes) /\ s.pending \in Seq(Writes) /\ s.active \in Seq(Writes)
    /\ s.queue \in Nat /\ s.pend \in Nat /\ s.inflight \in Nat
    /\ s.req \in [Writes -> Requests]

\* t has the fields of s and differs from it at most in fs.
Agree(s, t, fs) == DOMAIN t = Fields /\ \A f \in Fields \ fs : t[f] = s[f]

-----------------------------------------------------------------------------
(* The life cycle.                                                         *)

Over == {"unused", "done"}

\* A run that is cleaned up has nothing open, queued or up.
Wound(s) ==
    /\ \A o \in s.io : o.end # "open"
    /\ ~s.connected /\ ~s.open
    /\ s.tx = <<>> /\ s.pending = <<>> /\ s.queue = 0 /\ s.pend = 0

\* A stop is posted behind everything else, and a start goes first.
Life(s) ==
    /\ s.cleanup_done => s.cleanup_finished /\ s.io = {}
    /\ s.cleanup_finished => s.stopping /\ s.posts = <<>> /\ Wound(s)
    /\ s.stopping /\ ~s.cleanup_finished => Posted(s, {"cleanup"})
    /\ \A i \in 1 .. Len(s.posts) :
        /\ s.posts[i].run = s.run
        /\ s.posts[i].what = "cleanup" => s.stopping /\ i = Len(s.posts)
        /\ s.posts[i].what = "start" => i = 1
    /\ s.stopping => \A w \in Writes : s.req[w].st \in Over
    /\ s.run = 0 => s.posts = <<>> /\ s.io = {}

\* A cleanup whose last operation has ended is done.
Finished(s) == s.cleanup_finished /\ s.io = {} => s.cleanup_done

\* What no function changes, and what none does once a stop is requested.
Same(s, t) ==
    /\ t.kind = s.kind /\ t.run = s.run /\ t.stop_seq = s.stop_seq /\ t.stopping = s.stopping
    /\ t.cleanup_finished = s.cleanup_finished /\ t.cleanup_done = s.cleanup_done
    /\ t.posts = s.posts
Winds(s, t) ==
    /\ t.io = {} <=> s.io = {}
    /\ (\A o \in s.io : o.end # "open") => (\A o \in t.io : o.end # "open")
    /\ (t.connected => s.connected) /\ (t.open => s.open)
    /\ (s.tx = <<>> => t.tx = <<>>) /\ (s.pending = <<>> => t.pending = <<>>)
    /\ (s.queue = 0 => t.queue = 0) /\ (s.pend = 0 => t.pend = 0)
    /\ \A w \in Writes : s.req[w].st \in Over => t.req[w].st \in Over
Moves(s, t) == Typed(t) /\ Same(s, t) /\ (s.stopping => Winds(s, t))

\* A handler is a sequence of such moves.
LEMMA MovesOn ==
  ASSUME NEW s, NEW t, NEW u, Moves(s, t), Moves(t, u)
  PROVE  Moves(s, u)
  BY SMT DEF Moves, Same, Winds

\* Doing nothing is one of them.
LEMMA Stays ==
  ASSUME NEW s, Typed(s)
  PROVE  Moves(s, s)
  BY DEF Moves, Same, Winds

\* They keep the life cycle.
LEMMA LifeGoesOn ==
  ASSUME NEW s, NEW t, Typed(s), Life(s), s.run > 0, Moves(s, t)
  PROVE  Life(t) /\ (Finished(s) => Finished(t))
  <1>1. Same(s, t)
    BY DEF Moves
  <1>2. s.stopping => Winds(s, t)
    BY DEF Moves
  <1>3. s.cleanup_finished => s.stopping /\ (Wound(s) => Wound(t)) /\ (s.io = {} <=> t.io = {})
    BY <1>2 DEF Life, Winds, Wound
  <1>4. s.stopping => \A w \in Writes : t.req[w].st \in Over
    BY <1>2 DEF Life, Winds
  <1>5. Finished(s) => Finished(t)
    BY <1>1, <1>3 DEF Finished, Same
  <1>6. s.run # 0
    BY SMT DEF Typed
  <1> QED
    BY <1>1, <1>3, <1>4, <1>5, <1>6, SMT DEF Life, Same, Posted

-----------------------------------------------------------------------------
(* What the functions of ClientChannel change.                             *)

Cancelled(o, kinds) ==
    IF o.kind \in kinds /\ o.end = "open" THEN [o EXCEPT !.end = "cancelled"] ELSE o

\* Cancelling (cancel() of a timer or socket) ends operations, and starts none.
LEMMA Cancels ==
  ASSUME NEW s, Typed(s), NEW kinds, NEW t, t = Cancel(s, kinds)
  PROVE  Moves(s, t) /\ Agree(s, t, {"io"}) /\ t.io = {Cancelled(o, kinds) : o \in s.io}
  <1>1. DOMAIN s = Fields
    BY DEF Typed
  <1>2. Agree(s, t, {"io"})
    BY <1>1 DEF Cancel, Agree, Fields
  <1>3. t.io = {Cancelled(o, kinds) : o \in s.io}
    BY <1>1 DEF Cancel, Cancelled, Fields
  <1>4. \A o \in s.io : /\ OpType(Cancelled(o, kinds)) /\ Cancelled(o, kinds).run = s.run
                        /\ o.end # "open" => Cancelled(o, kinds).end # "open"
    BY DEF Typed, Cancelled, OpType, OpFields
  <1>5. /\ Same(s, t) /\ t.connected = s.connected /\ t.open = s.open /\ t.tx = s.tx
        /\ t.pending = s.pending /\ t.queue = s.queue /\ t.pend = s.pend /\ t.req = s.req
        /\ t.conn = s.conn /\ t.active = s.active /\ t.inflight = s.inflight
        /\ DOMAIN t = Fields
    BY <1>2 DEF Agree, Same, Fields
  <1>6. Typed(t)
    BY <1>3, <1>4, <1>5 DEF Typed, Same
  <1>7. Winds(s, t)
    BY <1>3, <1>4, <1>5 DEF Winds
  <1> QED
    BY <1>2, <1>3, <1>5, <1>6, <1>7 DEF Moves

\* Fields a move may set, if they wind down in a stop.
Loose ==
    {"conn", "connected", "open", "state", "terminal", "retrying", "attempts", "tx", "pending",
     "active", "writing", "queue", "pend", "inflight", "backpressure", "req"}

\* Setting them is a move.
LEMMA Sets ==
  ASSUME NEW s, Typed(s), NEW t, Agree(s, t, Loose),
         t.conn \in Nat, t.tx \in Seq(Writes), t.pending \in Seq(Writes),
         t.active \in Seq(Writes), t.queue \in Nat, t.pend \in Nat, t.inflight \in Nat,
         t.req \in [Writes -> Requests],
         s.stopping =>
            /\ (t.connected => s.connected) /\ (t.open => s.open)
            /\ (s.tx = <<>> => t.tx = <<>>) /\ (s.pending = <<>> => t.pending = <<>>)
            /\ (s.queue = 0 => t.queue = 0) /\ (s.pend = 0 => t.pend = 0)
            /\ \A w \in Writes : s.req[w].st \in Over => t.req[w].st \in Over
  PROVE  Moves(s, t)
  <1>1. Same(s, t) /\ t.io = s.io /\ DOMAIN t = Fields
    BY DEF Agree, Same, Fields, Loose
  <1>2. Typed(t)
    BY <1>1 DEF Typed, Same
  <1>3. s.stopping => Winds(s, t)
    BY <1>1 DEF Winds
  <1> QED
    BY <1>1, <1>2, <1>3 DEF Moves

\* The ones the life cycle does not depend on.
Aside == {"state", "terminal", "retrying", "attempts", "writing", "active", "backpressure"}

\* They may be set to anything.
LEMMA SetsAside ==
  ASSUME NEW s, Typed(s), NEW t, Agree(s, t, Aside), t.active \in Seq(Writes)
  PROVE  Moves(s, t)
  <1>1. /\ Agree(s, t, Loose) /\ t.connected = s.connected /\ t.open = s.open /\ t.tx = s.tx
        /\ t.pending = s.pending /\ t.queue = s.queue /\ t.pend = s.pend /\ t.req = s.req
        /\ t.conn = s.conn /\ t.inflight = s.inflight
    BY DEF Agree, Fields, Aside, Loose
  <1>2. /\ t.conn \in Nat /\ t.tx \in Seq(Writes) /\ t.pending \in Seq(Writes)
        /\ t.queue \in Nat /\ t.pend \in Nat /\ t.inflight \in Nat
        /\ t.req \in [Writes -> Requests]
    BY <1>1 DEF Typed
  <1> QED
    BY <1>1, <1>2, Sets

\* What Initiate adds: an operation of this run, on the connection there is.
Begun(s, kind, batch, o) ==
    /\ OpType(o) /\ o.kind = kind /\ o.run = s.run /\ o.batch = batch /\ o.fresh
    /\ o.conn = IF kind \in {"read", "write", "idle"} THEN s.conn ELSE 0
    /\ o.end = IF kind \in {"read", "write"} /\ ~s.open THEN "failed" ELSE "open"

\* Starting an operation, which no handler does in a stop.
LEMMA Initiates ==
  ASSUME NEW s, Typed(s), ~s.stopping, NEW kind \in Kinds, NEW batch \in Seq(Writes),
         NEW t, t = Initiate(s, kind, batch)
  PROVE  /\ Moves(s, t) /\ Agree(s, t, {"io"})
         /\ \E o : Begun(s, kind, batch, o) /\ t.io = s.io \cup {o}
  <1> DEFINE n == Unused(s, kind)
             o == [id |-> n, kind |-> kind, run |-> s.run,
                   conn |-> IF kind \in {"read", "write", "idle"} THEN s.conn ELSE 0,
                   batch |-> batch, fresh |-> TRUE,
                   end |-> IF kind \in {"read", "write"} /\ ~s.open THEN "failed" ELSE "open"]
  <1>1. DOMAIN s = Fields /\ s.run \in Nat /\ s.conn \in Nat
    BY DEF Typed
  <1>2. t = [s EXCEPT !.io = @ \cup {o}]
    BY DEF Initiate
  <1> HIDE DEF n
  <1>3. Begun(s, kind, batch, o)
    BY <1>1 DEF Begun, OpType, OpFields
  <1> HIDE DEF o
  <1>4. Agree(s, t, {"io"}) /\ t.io = s.io \cup {o}
    BY <1>1, <1>2 DEF Agree, Fields
  <1>5. /\ Same(s, t) /\ t.tx = s.tx
        /\ t.pending = s.pending /\ t.queue = s.queue /\ t.pend = s.pend /\ t.req = s.req
        /\ t.conn = s.conn /\ t.active = s.active /\ t.inflight = s.inflight
        /\ DOMAIN t = Fields
    BY <1>4 DEF Agree, Same, Fields
  <1>6. OpType(o) /\ o.run = s.run
    BY <1>3 DEF Begun
  <1>7. Typed(t)
    BY <1>4, <1>5, <1>6 DEF Typed, Same
  <1> QED
    BY <1>3, <1>4, <1>5, <1>7 DEF Moves

\* The request table after LedgerEnd, LedgerBegin and LedgerComplete.
LEMMA LedgerMoves ==
  ASSUME NEW s, Typed(s), NEW ws
  PROVE  /\ Moves(s, LedgerEnd(s)) /\ Agree(s, LedgerEnd(s), {"req"})
         /\ \A w \in Writes : LedgerEnd(s).req[w].st \in Over
         /\ Moves(s, LedgerComplete(s, ws)) /\ Agree(s, LedgerComplete(s, ws), {"req"})
         /\ ~s.stopping => Moves(s, LedgerBegin(s, ws)) /\ Agree(s, LedgerBegin(s, ws), {"req"})
  <1> DEFINE e == LedgerEnd(s)
             d == LedgerComplete(s, ws)
             b == LedgerBegin(s, ws)
  <1>1. DOMAIN s = Fields /\ s.req \in [Writes -> Requests]
    BY DEF Typed
  <1>2. /\ e.req = [w \in Writes |-> IF s.req[w].st \in {"queued", "active"}
                                     THEN [s.req[w] EXCEPT !.st = "done"] ELSE s.req[w]]
        /\ d.req = [w \in Writes |-> IF w \in Elements(ws)
                                     THEN [s.req[w] EXCEPT !.st = "done"] ELSE s.req[w]]
        /\ b.req = [w \in Writes |-> IF w \in Elements(ws)
                                     THEN [s.req[w] EXCEPT !.st = "active"] ELSE s.req[w]]
    BY <1>1 DEF LedgerEnd, LedgerComplete, LedgerBegin, Fields
  <1>3. Agree(s, e, {"req"}) /\ Agree(s, d, {"req"}) /\ Agree(s, b, {"req"})
    BY <1>1 DEF LedgerEnd, LedgerComplete, LedgerBegin, Fields, Agree
  <1> HIDE DEF e, d, b
  <1>4. \A q \in Requests : /\ [q EXCEPT !.st = "done"] \in Requests
                            /\ [q EXCEPT !.st = "active"] \in Requests
                            /\ [q EXCEPT !.st = "done"].st = "done"
                            /\ q.st \notin {"queued", "active"} => q.st \in Over
    BY DEF Requests, Over
  <1>5. e.req \in [Writes -> Requests] /\ \A w \in Writes : e.req[w].st \in Over
    <2>1. ASSUME NEW w \in Writes PROVE e.req[w] \in Requests /\ e.req[w].st \in Over
      <3>1. s.req[w] \in Requests /\ "done" \in Over
        BY <1>1 DEF Over
      <3>2. CASE s.req[w].st \in {"queued", "active"}
        <4>1. e.req[w] = [s.req[w] EXCEPT !.st = "done"]
          BY <1>2, <3>2
        <4> QED
          BY <1>4, <3>1, <4>1
      <3>3. CASE s.req[w].st \notin {"queued", "active"}
        <4>1. e.req[w] = s.req[w]
          BY <1>2, <3>3
        <4> QED
          BY <1>4, <3>1, <3>3, <4>1
      <3> QED
        BY <3>2, <3>3
    <2>2. e.req = [w \in Writes |-> e.req[w]]
      BY <1>2
    <2> QED
      BY <2>1, <2>2
  <1>6. /\ d.req \in [Writes -> Requests]
        /\ \A w \in Writes : s.req[w].st \in Over => d.req[w].st \in Over
    BY <1>1, <1>2, <1>4, SMT DEF Over
  <1>7. b.req \in [Writes -> Requests]
    BY <1>1, <1>2, <1>4, SMT
  <1>8. ASSUME NEW t, Agree(s, t, {"req"}), t.req \in [Writes -> Requests],
               s.stopping => \A w \in Writes : s.req[w].st \in Over => t.req[w].st \in Over
        PROVE  Moves(s, t)
    <2>1. /\ Agree(s, t, Loose) /\ t.connected = s.connected /\ t.open = s.open /\ t.tx = s.tx
          /\ t.pending = s.pending /\ t.queue = s.queue /\ t.pend = s.pend
          /\ t.conn = s.conn /\ t.inflight = s.inflight /\ t.active = s.active
      BY <1>8 DEF Agree, Fields, Loose
    <2>2. /\ t.conn \in Nat /\ t.tx \in Seq(Writes) /\ t.pending \in Seq(Writes)
          /\ t.queue \in Nat /\ t.pend \in Nat /\ t.inflight \in Nat /\ t.active \in Seq(Writes)
      BY <2>1 DEF Typed
    <2> QED
      BY <1>8, <2>1, <2>2, Sets
  <1>9. Moves(s, e) /\ Moves(s, d) /\ (~s.stopping => Moves(s, b))
    BY <1>3, <1>5, <1>6, <1>7, <1>8
  <1> QED
    BY <1>3, <1>5, <1>9 DEF e, d, b

\* Emptying the queues.
LEMMA Clears ==
  ASSUME NEW s, Typed(s)
  PROVE  Moves(s, ClearQueues(s))
  <1> DEFINE t == ClearQueues(s)
  <1>1. DOMAIN s = Fields /\ <<>> \in Seq(Writes)
    BY SMT DEF Typed
  <1>2. /\ Agree(s, t, Loose) /\ t.queue = 0 /\ t.conn = s.conn /\ t.tx = <<>>
        /\ t.pending = <<>> /\ t.active = s.active /\ t.pend = 0 /\ t.req = s.req
        /\ t.inflight = s.inflight /\ t.connected = s.connected /\ t.open = s.open
    BY <1>1 DEF Agree, Fields, Loose, ClearQueues
  <1> HIDE DEF t
  <1>3. /\ t.conn \in Nat /\ t.tx \in Seq(Writes) /\ t.pending \in Seq(Writes)
        /\ t.active \in Seq(Writes) /\ t.queue \in Nat /\ t.pend \in Nat
        /\ t.inflight \in Nat /\ t.req \in [Writes -> Requests]
    BY <1>1, <1>2, SMT DEF Typed
  <1>4. Moves(s, t)
    BY <1>2, <1>3, Sets
  <1> QED
    BY <1>4 DEF t

\* The edges of backpressure (report_backpressure).
LEMMA Edges ==
  ASSUME NEW s, Typed(s), NEW queued
  PROVE  Moves(s, ReportBackpressure(s, queued))
  <1>1. DOMAIN s = Fields
    BY DEF Typed
  <1>4. s.queue + s.pend \in Nat
    BY SMT DEF Typed
  <1>5. s.tx \o s.pending \in Seq(Writes) /\ <<>> \in Seq(Writes)
    BY SMT DEF Typed
  <1>6. CASE Relieves(s, queued)
    <2> DEFINE t == [s EXCEPT !.tx = s.tx \o s.pending, !.pending = <<>>,
                              !.queue = s.queue + s.pend, !.pend = 0,
                              !.backpressure = s.queue + s.pend >= High]
    <2>1. t = ReportBackpressure(s, queued)
      BY <1>6, <1>1 DEF ReportBackpressure, Fields
    <2>2. /\ Agree(s, t, Loose) /\ t.queue = s.queue + s.pend /\ t.conn = s.conn
          /\ t.tx = s.tx \o s.pending /\ t.pending = <<>> /\ t.active = s.active
          /\ t.pend = 0 /\ t.req = s.req /\ t.inflight = s.inflight
      BY <1>1 DEF Agree, Fields, Loose
    <2>3. ~s.stopping
      BY <1>6 DEF Relieves
    <2> HIDE DEF t
    <2>4. /\ t.conn \in Nat /\ t.tx \in Seq(Writes) /\ t.pending \in Seq(Writes)
          /\ t.active \in Seq(Writes) /\ t.queue \in Nat /\ t.pend \in Nat
          /\ t.inflight \in Nat /\ t.req \in [Writes -> Requests]
      BY <2>2, <1>4, <1>5, SMT DEF Typed
    <2>5. Moves(s, t)
      BY <2>2, <2>3, <2>4, Sets
    <2> QED
      BY <2>1, <2>5
  <1>7. CASE ~Relieves(s, queued)
    <2> DEFINE t == [s EXCEPT !.backpressure = TRUE]
    <2>1. ReportBackpressure(s, queued) \in {s, t}
      BY <1>7 DEF ReportBackpressure
    <2>2. Agree(s, t, Aside) /\ t.active = s.active
      BY <1>1 DEF Agree, Fields, Aside
    <2> HIDE DEF t
    <2>3. Moves(s, t)
      BY <2>2, SetsAside DEF Typed
    <2> QED
      BY <2>1, <2>3, Stays
  <1> QED
    BY <1>6, <1>7

\* A batch is taken from the queue to be written (take_gather_batch).
LEMMA Takes ==
  ASSUME NEW s, Typed(s), ~s.stopping, NEW e, Moves(s, e)
  PROVE  Moves(s, [e EXCEPT !.writing = TRUE, !.active = s.tx, !.tx = <<>>])
  <1> DEFINE d == [e EXCEPT !.writing = TRUE, !.active = s.tx, !.tx = <<>>]
  <1>1. Typed(e) /\ DOMAIN e = Fields /\ ~e.stopping /\ s.tx \in Seq(Writes)
        /\ <<>> \in Seq(Writes)
    BY SMT DEF Moves, Typed, Same
  <1>2. /\ Agree(e, d, Loose) /\ d.queue = e.queue /\ d.conn = e.conn /\ d.tx = <<>>
        /\ d.pending = e.pending /\ d.active = s.tx /\ d.pend = e.pend /\ d.req = e.req
        /\ d.inflight = e.inflight
    BY <1>1 DEF Agree, Fields, Loose
  <1> HIDE DEF d
  <1>3. Moves(e, d)
    BY <1>1, <1>2, Sets DEF Typed
  <1>4. Moves(s, d)
    BY <1>3, MovesOn
  <1> QED
    BY <1>4 DEF d

\* A try-write is queued.
LEMMA Queues ==
  ASSUME NEW s, Typed(s), ~s.stopping, NEW w \in Writes
  PROVE  Moves(s, [s EXCEPT !.tx = Append(s.tx, w)])
  <1> DEFINE d == [s EXCEPT !.tx = Append(s.tx, w)]
  <1>1. DOMAIN s = Fields /\ Append(s.tx, w) \in Seq(Writes)
    BY SMT DEF Typed
  <1>2. /\ Agree(s, d, Loose) /\ d.queue = s.queue /\ d.conn = s.conn /\ d.tx = Append(s.tx, w)
        /\ d.pending = s.pending /\ d.active = s.active /\ d.pend = s.pend /\ d.req = s.req
        /\ d.inflight = s.inflight
    BY <1>1 DEF Agree, Fields, Loose
  <1> HIDE DEF d
  <1>3. Moves(s, d)
    BY <1>1, <1>2, Sets DEF Typed
  <1> QED
    BY <1>3 DEF d

\* A connection that is up may be said to be.
LEMMA ComesUp ==
  ASSUME NEW s, Typed(s), ~s.stopping
  PROVE  Moves(s, [s EXCEPT !.connected = TRUE])
  <1> DEFINE d == [s EXCEPT !.connected = TRUE]
  <1>1. DOMAIN s = Fields
    BY DEF Typed
  <1>2. /\ Agree(s, d, Loose) /\ d.queue = s.queue /\ d.conn = s.conn /\ d.tx = s.tx
        /\ d.pending = s.pending /\ d.active = s.active /\ d.pend = s.pend /\ d.req = s.req
        /\ d.inflight = s.inflight
    BY <1>1 DEF Agree, Fields, Loose
  <1> HIDE DEF d
  <1>3. Moves(s, d)
    BY <1>1, <1>2, Sets DEF Typed
  <1> QED
    BY <1>3 DEF d

\* A socket may be opened.
LEMMA Opens ==
  ASSUME NEW s, Typed(s), ~s.stopping
  PROVE  Moves(s, [s EXCEPT !.open = TRUE])
  <1> DEFINE d == [s EXCEPT !.open = TRUE]
  <1>1. DOMAIN s = Fields
    BY DEF Typed
  <1>2. /\ Agree(s, d, Loose) /\ d.queue = s.queue /\ d.conn = s.conn /\ d.tx = s.tx
        /\ d.pending = s.pending /\ d.active = s.active /\ d.pend = s.pend /\ d.req = s.req
        /\ d.inflight = s.inflight
    BY <1>1 DEF Agree, Fields, Loose
  <1> HIDE DEF d
  <1>3. Moves(s, d)
    BY <1>1, <1>2, Sets DEF Typed
  <1> QED
    BY <1>3 DEF d

\* Releasing a reservation, and queueing what was posted.
LEMMA QueueMoves ==
  ASSUME NEW s, Typed(s), NEW field, NEW w \in Writes
  PROVE  /\ Moves(s, Release(s, field, w))
         /\ ~s.stopping => Moves(s, ToPending(s, w)) /\ Moves(s, ToQueue(s, w))
  <1> DEFINE n == s.req[w].n
             a == release_reserved_write_bytes(s.queue, n)
             b == release_reserved_limit_bytes(s.inflight, n)
  <1>1. /\ DOMAIN s = Fields /\ s.queue \in Nat /\ s.pend \in Nat /\ s.inflight \in Nat
        /\ s.tx \in Seq(Writes) /\ s.pending \in Seq(Writes)
    BY DEF Typed
  <1>2. n \in Nat
    BY DEF Typed, Requests
  <1> HIDE DEF n
  <1>3. a \in Nat /\ (s.queue = 0 => a = 0) /\ b \in Nat
    BY <1>1, <1>2, SMT DEF release_reserved_write_bytes, release_reserved_limit_bytes
  <1>4. s.queue + n \in Nat /\ s.pend + n \in Nat
    BY <1>1, <1>2, SMT
  <1>5. Append(s.tx, w) \in Seq(Writes) /\ Append(s.pending, w) \in Seq(Writes)
    BY <1>1, SMT
  <1> HIDE DEF a, b
  <1>6. Moves(s, Release(s, field, w))
    <2>1. CASE field = "queue"
      <3> DEFINE t == [s EXCEPT !.queue = a]
      <3>1. t = Release(s, field, w)
        BY <2>1, <1>1 DEF Release, a, n, Fields
      <3>2. /\ Agree(s, t, Loose) /\ t.queue = a /\ t.conn = s.conn /\ t.tx = s.tx
            /\ t.pending = s.pending /\ t.active = s.active /\ t.pend = s.pend /\ t.req = s.req
            /\ t.inflight = s.inflight /\ t.connected = s.connected /\ t.open = s.open
        BY <1>1 DEF Agree, Fields, Loose
      <3> HIDE DEF t
      <3> QED
        BY <3>1, <3>2, <1>3, Sets DEF Typed
    <2>2. CASE field # "queue"
      <3> DEFINE t == [s EXCEPT !.inflight = b]
      <3>1. t = Release(s, field, w)
        BY <2>2, <1>1 DEF Release, b, n, Fields
      <3>2. /\ Agree(s, t, Loose) /\ t.queue = s.queue /\ t.conn = s.conn /\ t.tx = s.tx
            /\ t.pending = s.pending /\ t.active = s.active /\ t.pend = s.pend /\ t.req = s.req
            /\ t.inflight = b /\ t.connected = s.connected /\ t.open = s.open
        BY <1>1 DEF Agree, Fields, Loose
      <3> HIDE DEF t
      <3> QED
        BY <3>1, <3>2, <1>3, Sets DEF Typed
    <2> QED
      BY <2>1, <2>2
  <1>9. ASSUME ~s.stopping PROVE Moves(s, ToPending(s, w)) /\ Moves(s, ToQueue(s, w))
    <2> DEFINE t == ToPending(s, w)
               u == ToQueue(s, w)
    <2>1. /\ Agree(s, t, Loose) /\ t.queue = s.queue /\ t.conn = s.conn /\ t.tx = s.tx
          /\ t.pending = Append(s.pending, w) /\ t.active = s.active /\ t.pend = s.pend + n
          /\ t.req = s.req /\ t.inflight = b
      BY <1>1 DEF Agree, Fields, Loose, ToPending, Release, b, n
    <2>2. /\ Agree(s, u, Loose) /\ u.queue = s.queue + n /\ u.conn = s.conn
          /\ u.tx = Append(s.tx, w) /\ u.pending = s.pending /\ u.active = s.active
          /\ u.pend = s.pend /\ u.req = s.req /\ u.inflight = b
      BY <1>1 DEF Agree, Fields, Loose, ToQueue, Release, b, n
    <2> HIDE DEF t, u
    <2>3. Moves(s, t)
      BY <1>9, <2>1, <1>3, <1>4, <1>5, Sets DEF Typed
    <2>4. Moves(s, u)
      BY <1>9, <2>2, <1>3, <1>4, <1>5, Sets DEF Typed
    <2> QED
      BY <2>3, <2>4 DEF t, u
  <1> QED
    BY <1>6, <1>9

-----------------------------------------------------------------------------
(* The TCP client: every function and handler is a sequence of moves.      *)

\* A loss ends the requests of the connection (mark_disconnected).
LEMMA TcpMarks ==
  ASSUME NEW s, Typed(s), NEW t, t = mark_disconnected(s)
  PROVE  Moves(s, t) /\ Agree(s, t, {"req", "connected", "conn"}) /\ ~t.connected
  <1>1. CASE ~s.connected
    BY <1>1, Stays DEF mark_disconnected, Agree, Typed
  <1>2. CASE s.connected
    <2> DEFINE e == LedgerEnd(s)
    <2>1. Moves(s, e) /\ Agree(s, e, {"req"})
      BY LedgerMoves
    <2> HIDE DEF e
    <2>2. Typed(e) /\ DOMAIN e = Fields
      BY <2>1 DEF Moves, Typed
    <2>3. t = [e EXCEPT !.connected = FALSE, !.conn = @ + 1]
      BY <1>2 DEF mark_disconnected, e
    <2>4. /\ Agree(e, t, Loose) /\ t.queue = e.queue /\ t.conn = e.conn + 1 /\ t.tx = e.tx
          /\ t.pending = e.pending /\ t.active = e.active /\ t.pend = e.pend /\ t.req = e.req
          /\ t.inflight = e.inflight /\ t.connected = FALSE /\ t.open = e.open
      <3>1. t.conn = e.conn + 1
        BY <2>2, <2>3, SMT DEF Fields
      <3> QED
        BY <2>2, <2>3, <3>1 DEF Agree, Fields, Loose
    <2>5. Moves(e, t)
      <3>1. /\ t.conn \in Nat /\ t.tx \in Seq(Writes) /\ t.pending \in Seq(Writes)
            /\ t.active \in Seq(Writes) /\ t.queue \in Nat /\ t.pend \in Nat
            /\ t.inflight \in Nat /\ t.req \in [Writes -> Requests]
        <4>1. e.conn \in Nat
          BY <2>2 DEF Typed
        <4>2. e.conn + 1 \in Nat
          BY <4>1, SMT
        <4> QED
          BY <2>2, <2>4, <4>2 DEF Typed
      <3> QED
        BY <2>2, <2>4, <3>1, Sets
    <2>6. Agree(s, t, {"req", "connected", "conn"})
      BY <2>1, <2>2, <2>3 DEF Agree, Fields
    <2> QED
      BY <2>1, <2>4, <2>5, <2>6, MovesOn
  <1> QED
    BY <1>1, <1>2

\* Closing the socket cancels what is outstanding on it (close_socket).
LEMMA TcpCloses ==
  ASSUME NEW s, Typed(s), NEW t, t = close_socket(s)
  PROVE  /\ Moves(s, t) /\ Agree(s, t, {"io", "open"}) /\ ~t.open
         /\ t.io = {Cancelled(o, OnSocket) : o \in s.io}
  <1> DEFINE e == Cancel(s, OnSocket)
  <1>1. Moves(s, e) /\ Agree(s, e, {"io"}) /\ e.io = {Cancelled(o, OnSocket) : o \in s.io}
    BY Cancels, SMT
  <1>2. t = [e EXCEPT !.open = FALSE]
    BY DEF close_socket
  <1> HIDE DEF e
  <1>3. Typed(e) /\ DOMAIN e = Fields
    BY <1>1 DEF Moves, Typed
  <1>4. /\ Agree(e, t, Loose) /\ t.queue = e.queue /\ t.conn = e.conn /\ t.tx = e.tx
        /\ t.pending = e.pending /\ t.active = e.active /\ t.pend = e.pend /\ t.req = e.req
        /\ t.inflight = e.inflight /\ t.connected = e.connected /\ t.open = FALSE /\ t.io = e.io
    BY <1>2, <1>3, SMT DEF Agree, Fields, Loose
  <1>5. Moves(e, t)
    BY <1>3, <1>4, Sets DEF Typed
  <1>6. Agree(s, t, {"io", "open"})
    BY <1>1, <1>2, <1>3 DEF Agree, Fields
  <1> QED
    BY <1>1, <1>4, <1>5, <1>6, MovesOn

\* A state is reported (transition_to).
LEMMA TcpTransitions ==
  ASSUME NEW s, Typed(s), NEW next, NEW t, t = transition_to(s, next)
  PROVE  Moves(s, t) /\ Agree(s, t, {"state", "terminal"})
  <1>1. Agree(s, t, {"state", "terminal"})
    BY DEF transition_to, Agree, Fields, Typed
  <1>2. Agree(s, t, Aside) /\ t.active = s.active
    BY <1>1 DEF Agree, Fields, Aside
  <1> QED
    BY <1>1, <1>2, SetsAside DEF Typed

\* Restarting a timer (expires_after, async_wait).
LEMMA Arms ==
  ASSUME NEW s, Typed(s), ~s.stopping, NEW timer \in Kinds, NEW t, t = Arm(s, timer)
  PROVE  /\ Moves(s, t) /\ Agree(s, t, {"io"})
         /\ \E o : /\ Begun(s, timer, <<>>, o)
                   /\ t.io = {Cancelled(x, {timer}) : x \in s.io} \cup {o}
  <1> DEFINE e == Cancel(s, {timer})
  <1>1. Moves(s, e) /\ Agree(s, e, {"io"}) /\ e.io = {Cancelled(o, {timer}) : o \in s.io}
    <2>1. e = Cancel(s, {timer})
      OBVIOUS
    <2> HIDE DEF e
    <2> QED
      BY <2>1, Cancels, SMT
  <1>2. t = Initiate(e, timer, <<>>)
    BY DEF Arm
  <1> HIDE DEF e
  <1>3. Typed(e) /\ ~e.stopping /\ <<>> \in Seq(Writes)
    BY <1>1, SMT DEF Moves, Same
  <1>4. /\ Moves(e, t) /\ Agree(e, t, {"io"})
        /\ \E o : Begun(e, timer, <<>>, o) /\ t.io = e.io \cup {o}
    <2> DEFINE b == << >>
    <2>1. t = Initiate(e, timer, b) /\ b \in Seq(Writes)
      BY <1>2, <1>3
    <2> HIDE DEF b
    <2>2. /\ Moves(e, t) /\ Agree(e, t, {"io"})
          /\ \E o : Begun(e, timer, b, o) /\ t.io = e.io \cup {o}
      BY <2>1, <1>3, Initiates, SMT
    <2> QED
      BY <2>2 DEF b
  <1>5. e.run = s.run /\ e.conn = s.conn /\ e.open = s.open
    BY <1>1 DEF Agree, Fields
  <1>6. \A o : Begun(e, timer, <<>>, o) => Begun(s, timer, <<>>, o)
    BY <1>5 DEF Begun
  <1>7. Agree(s, t, {"io"})
    BY <1>1, <1>4 DEF Agree
  <1> QED
    BY <1>1, <1>4, <1>6, <1>7, MovesOn

\* The waits that reset_idle_timer supersedes are no longer fresh.
Stale(s) ==
    [s EXCEPT !.io = {IF o.kind = "idle" THEN [o EXCEPT !.fresh = FALSE] ELSE o : o \in @}]

\* Superseding them changes nothing else.
LEMMA Stales ==
  ASSUME NEW s, Typed(s), NEW t, t = Stale(s)
  PROVE  /\ Moves(s, t) /\ Agree(s, t, {"io"})
         /\ t.io = {IF o.kind = "idle" THEN [o EXCEPT !.fresh = FALSE] ELSE o : o \in s.io}
  <1> DEFINE f(o) == IF o.kind = "idle" THEN [o EXCEPT !.fresh = FALSE] ELSE o
  <1>1. DOMAIN s = Fields
    BY DEF Typed
  <1>2. Agree(s, t, {"io"}) /\ t.io = {f(o) : o \in s.io}
    BY <1>1 DEF Stale, Agree, Fields
  <1>3. \A o \in s.io : OpType(f(o)) /\ f(o).run = s.run /\ f(o).end = o.end
    BY DEF Typed, OpType, OpFields
  <1> HIDE DEF f
  <1>4. /\ Same(s, t) /\ t.connected = s.connected /\ t.open = s.open /\ t.tx = s.tx
        /\ t.pending = s.pending /\ t.queue = s.queue /\ t.pend = s.pend /\ t.req = s.req
        /\ t.conn = s.conn /\ t.active = s.active /\ t.inflight = s.inflight
        /\ DOMAIN t = Fields
    BY <1>2 DEF Agree, Same, Fields
  <1>5. Typed(t)
    BY <1>2, <1>3, <1>4, SMT DEF Typed, Same
  <1>6. Winds(s, t)
    BY <1>2, <1>3, <1>4, SMT DEF Winds
  <1> QED
    BY <1>2, <1>4, <1>5, <1>6 DEF Moves, f

\* The idle timer is armed on a connection that is up (reset_idle_timer).
LEMMA TcpIdles ==
  ASSUME NEW s, Typed(s), NEW t, t = reset_idle_timer(s)
  PROVE  Moves(s, t) /\ Agree(s, t, {"io"})
  <1>1. CASE ~s.connected \/ s.stopping
    BY <1>1, Stays DEF reset_idle_timer, Agree, Typed
  <1>2. CASE ~(~s.connected \/ s.stopping)
    <2> DEFINE e == Stale(s)
    <2>1. Moves(s, e) /\ Agree(s, e, {"io"})
      BY Stales
    <2>2. t = Arm(e, "idle")
      BY <1>2 DEF reset_idle_timer, Stale
    <2> HIDE DEF e
    <2>3. Typed(e) /\ ~e.stopping /\ "idle" \in Kinds
      BY <1>2, <2>1 DEF Moves, Same, Kinds
    <2>4. Moves(e, t) /\ Agree(e, t, {"io"})
      BY <2>2, <2>3, Arms
    <2> QED
      BY <2>1, <2>4, MovesOn DEF Agree
  <1> QED
    BY <1>1, <1>2

\* A write is handed to the socket, or the queue found not fit for it (do_write).
LEMMA TcpWrites ==
  ASSUME NEW s, Typed(s)
  PROVE  Moves(s, do_write(s)) /\ Moves(s, Kick(s))
  <1> DEFINE t == do_write(s)
  <1>1. DOMAIN s = Fields /\ s.tx \in Seq(Writes)
    BY DEF Typed
  <1>2. Moves(s, t)
    <2>1. CASE s.stopping
      <3>1. t = ClearQueues(s)
        BY <2>1 DEF do_write
      <3> QED
        BY <3>1, Clears
    <2>2. CASE ~s.stopping /\ (~s.connected \/ s.tx = <<>> \/ s.state \in Terminal \/ ~LedgerCan(s, s.tx))
      <3>1. t = [s EXCEPT !.writing = FALSE]
        BY <2>2 DEF do_write
      <3>2. Agree(s, t, Aside) /\ t.active = s.active
        BY <3>1, <1>1 DEF Agree, Fields, Aside
      <3> QED
        BY <3>2, SetsAside DEF Typed
    <2>3. CASE ~s.stopping /\ ~(~s.connected \/ s.tx = <<>> \/ s.state \in Terminal \/ ~LedgerCan(s, s.tx))
      <3> DEFINE e == LedgerBegin(s, s.tx)
                 d == [e EXCEPT !.writing = TRUE, !.active = s.tx, !.tx = <<>>]
      <3>1. t = Initiate(d, "write", s.tx)
        BY <2>3 DEF do_write
      <3>2. Moves(s, e)
        BY <2>3, LedgerMoves
      <3> HIDE DEF e
      <3>3. Moves(s, d)
        BY <2>3, <3>2, Takes
      <3> HIDE DEF d
      <3>4. Typed(d) /\ ~d.stopping /\ "write" \in Kinds
        BY <2>3, <3>3 DEF Moves, Same, Kinds
      <3>5. Moves(d, t)
        BY <3>1, <3>4, <1>1, Initiates
      <3> QED
        BY <3>3, <3>5, MovesOn
    <2> QED
      BY <2>1, <2>2, <2>3
  <1> HIDE DEF t
  <1>3. Kick(s) \in {s, t}
    BY DEF Kick, t
  <1> QED
    BY <1>2, <1>3, Stays DEF t

\* The edges of backpressure, and the kick that follows the falling one.
LEMMA TcpReports ==
  ASSUME NEW s, Typed(s), NEW queued
  PROVE  Moves(s, report_backpressure(s, queued))
  <1> DEFINE r == ReportBackpressure(s, queued)
  <1>1. Moves(s, r)
    BY Edges
  <1>2. report_backpressure(s, queued) \in {r, Kick(r)}
    BY DEF report_backpressure
  <1> HIDE DEF r
  <1>3. Moves(r, Kick(r))
    BY <1>1, TcpWrites DEF Moves
  <1> QED
    BY <1>1, <1>2, <1>3, MovesOn, SMT

\* An attempt is counted, announced and timed, or the client gives up
\* (schedule_retry).
LEMMA TcpRetries ==
  ASSUME NEW s, Typed(s), NEW willing
  PROVE  Moves(s, schedule_retry(s, willing))
  <1> DEFINE d == mark_disconnected(s)
             t == schedule_retry(s, willing)
             k == transition_to(CountAttempt(d), "Connecting")
             e == [k EXCEPT !.retrying = TRUE]
  <1>1. Moves(s, d)
    BY TcpMarks
  <1>2. Typed(d) /\ DOMAIN d = Fields
    BY <1>1 DEF Moves, Typed
  <1>3. \/ t = d
        \/ t = transition_to(d, "Error")
        \/ ~d.stopping /\ t = Arm(e, "retry")
    BY DEF schedule_retry
  <1> HIDE DEF d, t
  <1>4. Moves(d, CountAttempt(d))
    <2>1. Agree(d, CountAttempt(d), Aside) /\ CountAttempt(d).active = d.active
      BY <1>2 DEF CountAttempt, Agree, Fields, Aside
    <2> QED
      BY <2>1, <1>2, SetsAside DEF Typed
  <1>5. Moves(CountAttempt(d), k)
    BY <1>4, TcpTransitions DEF Moves
  <1> HIDE DEF k
  <1>6. Moves(d, k)
    BY <1>4, <1>5, MovesOn
  <1>7. Moves(k, e)
    <2>1. Typed(k) /\ DOMAIN k = Fields
      BY <1>6 DEF Moves, Typed
    <2>2. Agree(k, e, Aside) /\ e.active = k.active
      BY <2>1 DEF Agree, Fields, Aside
    <2> QED
      BY <2>1, <2>2, SetsAside DEF Typed
  <1> HIDE DEF e
  <1>8. Moves(d, e)
    BY <1>6, <1>7, MovesOn
  <1>9. Typed(e) /\ (e.stopping <=> d.stopping) /\ "retry" \in Kinds
    BY <1>8 DEF Moves, Same, Kinds
  <1>10. CASE t = d
    BY <1>1, <1>10 DEF t
  <1>11. CASE t = transition_to(d, "Error")
    <2>1. Moves(d, t)
      BY <1>2, <1>11, TcpTransitions
    <2> QED
      BY <1>1, <2>1, MovesOn DEF t
  <1>12. CASE ~d.stopping /\ t = Arm(e, "retry")
    <2>1. Moves(e, t)
      BY <1>9, <1>12, Arms
    <2> QED
      BY <1>1, <1>8, <2>1, MovesOn DEF t
  <1> QED
    BY <1>3, <1>10, <1>11, <1>12

\* The timers, the resolver, the socket and the queues of an earlier run go
\* (reset_io_objects).
LEMMA TcpResets ==
  ASSUME NEW s, Typed(s)
  PROVE  Moves(s, reset_io_objects(s))
  <1> DEFINE a == Cancel(s, {"resolve", "retry", "timer", "idle"})
             b == close_socket(a)
             d == ClearQueues(b)
             e == [d EXCEPT !.backpressure = FALSE]
  <1>1. reset_io_objects(s) = e
    BY DEF reset_io_objects
  <1>2. Moves(s, a)
    BY Cancels
  <1> HIDE DEF a
  <1>3. Moves(a, b)
    BY <1>2, TcpCloses DEF Moves
  <1> HIDE DEF b
  <1>4. Moves(b, d)
    BY <1>3, Clears DEF Moves
  <1> HIDE DEF d
  <1>5. Typed(d) /\ DOMAIN d = Fields
    BY <1>4 DEF Moves, Typed
  <1>6. Agree(d, e, Aside) /\ e.active = d.active
    BY <1>5 DEF Agree, Fields, Aside
  <1>7. Moves(d, e)
    BY <1>5, <1>6, SetsAside DEF Typed
  <1> QED
    BY <1>1, <1>2, <1>3, <1>4, <1>7, MovesOn

\* What a lost connection leaves: nothing queued, and the socket and its timers
\* closed.  s is closed as it is, or with a batch put back in front of its queue.
Closed(s) ==
    close_socket(Cancel(discard_connection_writes(mark_disconnected(s)), {"idle", "timer"}))

\* The common part of handle_close and handle_idle_timeout.
LEMMA TcpDrops ==
  ASSUME NEW s, Typed(s), NEW e, Agree(s, e, {"tx", "writing"}), e.tx \in Seq(Writes)
  PROVE  Moves(s, Closed(e))
  <1> DEFINE m == mark_disconnected(e)
             d == discard_connection_writes(m)
             k == Cancel(d, {"idle", "timer"})
  <1>1. Typed(e)
    <2>1. /\ DOMAIN e = Fields /\ e.run = s.run /\ e.stop_seq = s.stop_seq /\ e.conn = s.conn
          /\ e.io = s.io /\ e.posts = s.posts /\ e.pending = s.pending /\ e.active = s.active
          /\ e.queue = s.queue /\ e.pend = s.pend /\ e.inflight = s.inflight /\ e.req = s.req
      BY DEF Agree, Fields
    <2> QED
      BY <2>1 DEF Typed
  <1>2. Moves(e, m) /\ Agree(e, m, {"req", "connected", "conn"}) /\ ~m.connected
    BY <1>1, TcpMarks
  <1> HIDE DEF m
  <1>3. Typed(m) /\ DOMAIN m = Fields
    BY <1>2 DEF Moves, Typed
  <1>4. /\ Agree(m, d, Loose) /\ d.queue = 0 /\ d.conn = m.conn /\ d.tx = <<>>
        /\ d.pending = <<>> /\ d.active = <<>> /\ d.pend = 0 /\ d.req = m.req
        /\ d.inflight = m.inflight /\ d.connected = m.connected /\ d.open = m.open
    BY <1>3 DEF discard_connection_writes, ClearQueues, Agree, Fields, Loose
  <1> HIDE DEF d
  <1>5. Moves(s, d)
    <2>1. Agree(s, d, Loose)
      BY <1>2, <1>4 DEF Agree, Loose
    <2>2. /\ d.conn \in Nat /\ d.req \in [Writes -> Requests] /\ d.inflight \in Nat
          /\ <<>> \in Seq(Writes)
      BY <1>3, <1>4, SMT DEF Typed
    <2>3. d.open = s.open /\ d.req = m.req /\ ~d.connected
      BY <1>2, <1>4 DEF Agree, Fields
    <2>4. e.stopping = s.stopping /\ e.req = s.req
      BY DEF Agree, Fields
    <2>5. s.stopping => \A w \in Writes : s.req[w].st \in Over => d.req[w].st \in Over
      BY <1>2, <2>3, <2>4 DEF Moves, Winds
    <2>6. /\ d.tx \in Seq(Writes) /\ d.pending \in Seq(Writes) /\ d.active \in Seq(Writes)
          /\ d.queue \in Nat /\ d.pend \in Nat
      BY <1>4, <2>2, SMT
    <2> QED
      BY <1>4, <2>1, <2>2, <2>3, <2>5, <2>6, Sets
  <1>6. Moves(d, k)
    BY <1>5, Cancels DEF Moves
  <1> HIDE DEF k
  <1>7. Moves(k, close_socket(k))
    BY <1>6, TcpCloses DEF Moves
  <1> QED
    BY <1>5, <1>6, <1>7, MovesOn DEF Closed, k, d, m

\* A connection ends, and another attempt follows or does not (handle_close,
\* handle_idle_timeout).
LEMMA TcpEnds ==
  ASSUME NEW s, Typed(s), NEW e, Agree(s, e, {"tx", "writing"}), e.tx \in Seq(Writes),
         NEW willing, NEW reconnect
  PROVE  /\ Moves(s, handle_close(e, willing))
         /\ Moves(s, handle_idle_timeout(s, reconnect, willing))
  <1>1. ASSUME NEW d, Moves(s, d)
        PROVE  /\ Moves(s, transition_to(d, "Closed"))
               /\ Moves(s, schedule_retry(transition_to(d, "Connecting"), willing))
    <2> DEFINE k == transition_to(d, "Connecting")
    <2>1. Typed(d)
      BY <1>1 DEF Moves
    <2>2. Moves(d, transition_to(d, "Closed")) /\ Moves(d, k)
      BY <2>1, TcpTransitions
    <2> HIDE DEF k
    <2>3. Moves(k, schedule_retry(k, willing))
      BY <2>2, TcpRetries DEF Moves
    <2> QED
      BY <1>1, <2>2, <2>3, MovesOn DEF k
  <1>2. Moves(s, handle_close(e, willing))
    <2> DEFINE d == Closed(e)
    <2>1. handle_close(e, willing) \in
              {transition_to(d, "Closed"),
               schedule_retry(transition_to(d, "Connecting"), willing)}
      BY DEF handle_close, Closed
    <2>2. Moves(s, d)
      BY TcpDrops
    <2> HIDE DEF d
    <2> QED
      BY <1>1, <2>1, <2>2
  <1>3. Moves(s, handle_idle_timeout(s, reconnect, willing))
    <2> DEFINE d == Closed(s)
    <2>1. handle_idle_timeout(s, reconnect, willing) \in
              {s, transition_to(d, "Closed"),
               schedule_retry(transition_to(d, "Connecting"), willing)}
      BY DEF handle_idle_timeout, Closed
    <2>2. Agree(s, s, {"tx", "writing"}) /\ s.tx \in Seq(Writes)
      BY DEF Agree, Typed
    <2>3. Moves(s, d)
      BY <2>2, TcpDrops
    <2> HIDE DEF d
    <2> QED
      BY <1>1, <2>1, <2>3, Stays
  <1> QED
    BY <1>2, <1>3

\* A posted write finds its place in the queues (route_enqueued_buffer and the
\* handler of the try-writes).
LEMMA TcpRoutes ==
  ASSUME NEW s, Typed(s), NEW w \in Writes
  PROVE  Moves(s, route_enqueued_buffer(s, w)) /\ Moves(s, route_try(s, w))
  <1>1. ASSUME NEW d, Moves(s, d), NEW queued
        PROVE  /\ Moves(s, report_backpressure(d, queued))
               /\ Moves(s, Kick(report_backpressure(d, queued)))
    <2> DEFINE r == report_backpressure(d, queued)
    <2>1. Moves(d, r)
      BY <1>1, TcpReports DEF Moves
    <2> HIDE DEF r
    <2>2. Moves(r, Kick(r))
      BY <2>1, TcpWrites DEF Moves
    <2> QED
      BY <1>1, <2>1, <2>2, MovesOn DEF r
  <1>2. Moves(s, route_enqueued_buffer(s, w))
    <2> DEFINE e == LedgerComplete(s, <<w>>)
               f == Release(e, "inflight", w)
               q == s.queue + s.req[w].n
    <2>1. route_enqueued_buffer(s, w) \in
              {Release(s, "inflight", w)} \cup
              (IF s.stopping THEN {}
               ELSE {report_backpressure(f, q), ToPending(s, w),
                     Kick(report_backpressure(ToQueue(s, w), q))})
      BY DEF route_enqueued_buffer, decide_enqueue
    <2>2. Moves(s, e)
      BY LedgerMoves
    <2> HIDE DEF e, q
    <2>3. Moves(e, f)
      BY <2>2, QueueMoves DEF Moves
    <2> HIDE DEF f
    <2>4. Moves(s, f)
      BY <2>2, <2>3, MovesOn
    <2>5. Moves(s, Release(s, "inflight", w))
      BY QueueMoves
    <2>6. ~s.stopping => Moves(s, ToPending(s, w)) /\ Moves(s, ToQueue(s, w))
      BY QueueMoves
    <2> QED
      BY <1>1, <2>1, <2>4, <2>5, <2>6
  <1>3. Moves(s, route_try(s, w))
    <2> DEFINE d == [s EXCEPT !.tx = Append(s.tx, w)]
    <2>1. DOMAIN s = Fields /\ Append(s.tx, w) \in Seq(Writes)
      BY SMT DEF Typed
    <2>2. \/ route_try(s, w) = Release(s, "queue", w)
          \/ ~s.stopping /\ route_try(s, w) = Kick(report_backpressure(d, s.queue))
      BY <2>1 DEF route_try, Fields
    <2>3. ~s.stopping => Moves(s, d)
      BY Queues
    <2> HIDE DEF d
    <2>4. Moves(s, Release(s, "queue", w))
      BY QueueMoves
    <2> QED
      BY <1>1, <2>2, <2>3, <2>4
  <1> QED
    BY <1>2, <1>3

\* What a handler may do: a sequence of moves, and post the kick of a connection
\* that came up.
Handles(s, t) ==
    \/ Moves(s, t)
    \/ ~s.stopping /\ \E u : Moves(s, u) /\ t = Post(u, "kick", 0)

\* A connection comes up (finish_connect, handshake_then).
LEMMA TcpConnects ==
  ASSUME NEW s, Typed(s), ~s.stopping, NEW setup, NEW willing
  PROVE  Handles(s, finish_connect(s)) /\ Handles(s, handshake_then(s, setup, willing))
  <1>1. Handles(s, finish_connect(s))
    <2> DEFINE a == [s EXCEPT !.connected = TRUE]
               b == transition_to(a, "Connected")
               d == start_read(b)
               e == reset_idle_timer(d)
    <2>1. finish_connect(s) = Post(e, "kick", 0)
      BY DEF finish_connect
    <2>2. Moves(s, a)
      BY ComesUp
    <2> HIDE DEF a
    <2>3. Moves(a, b)
      BY <2>2, TcpTransitions DEF Moves
    <2> HIDE DEF b
    <2>4. Moves(s, b)
      BY <2>2, <2>3, MovesOn
    <2>5. Typed(b) /\ ~b.stopping /\ "read" \in Kinds /\ <<>> \in Seq(Writes)
      BY <2>4, SMT DEF Moves, Same, Kinds
    <2>6. Moves(b, d)
      BY <2>5, Initiates DEF start_read
    <2> HIDE DEF d
    <2>7. Moves(d, e)
      BY <2>6, TcpIdles DEF Moves
    <2> HIDE DEF e
    <2>8. Moves(s, e)
      BY <2>4, <2>6, <2>7, MovesOn
    <2> QED
      BY <2>1, <2>8 DEF Handles
  <1>2. Moves(s, handle_close(s, willing))
    <2>1. Agree(s, s, {"tx", "writing"}) /\ s.tx \in Seq(Writes)
      BY DEF Agree, Typed
    <2> QED
      BY <2>1, TcpEnds
  <1>3. Moves(s, Initiate(s, "handshake", <<>>))
    <2>1. "handshake" \in Kinds /\ <<>> \in Seq(Writes)
      BY SMT DEF Kinds
    <2> QED
      BY <2>1, Initiates
  <1>4. handshake_then(s, setup, willing) \in
            {finish_connect(s), Initiate(s, "handshake", <<>>), handle_close(s, willing)}
    BY DEF handshake_then
  <1> QED
    BY <1>1, <1>2, <1>3, <1>4 DEF Handles

\* The handlers that run what was posted.
LEMMA TcpPosted ==
  ASSUME NEW s, Typed(s), NEW p, p.run = s.run, s.stopping => s.stop_seq = s.run
  PROVE  /\ Moves(s, on_start(s, p)) /\ Moves(s, on_kick(s, p))
         /\ p.w \in Writes => Moves(s, on_write_posted(s, p)) /\ Moves(s, on_try_posted(s, p))
  <1>1. Moves(s, on_start(s, p))
    <2>1. CASE p.run <= s.stop_seq
      BY <2>1, Stays DEF on_start
    <2>2. CASE ~(p.run <= s.stop_seq)
      <3> DEFINE m == mark_disconnected(s)
                 d == reset_io_objects(m)
                 k == transition_to(d, "Connecting")
      <3>1. on_start(s, p) = Initiate(k, "resolve", <<>>)
        BY <2>2 DEF on_start, do_resolve_connect
      <3>2. ~s.stopping
        BY <2>2, SMT DEF Typed
      <3>3. Moves(s, m)
        BY TcpMarks
      <3> HIDE DEF m
      <3>4. Moves(m, d)
        BY <3>3, TcpResets DEF Moves
      <3> HIDE DEF d
      <3>5. Moves(d, k)
        BY <3>4, TcpTransitions DEF Moves
      <3> HIDE DEF k
      <3>6. Moves(s, k)
        BY <3>3, <3>4, <3>5, MovesOn
      <3>7. Typed(k) /\ ~k.stopping /\ "resolve" \in Kinds /\ <<>> \in Seq(Writes)
        BY <3>2, <3>6, SMT DEF Moves, Same, Kinds
      <3>8. Moves(k, Initiate(k, "resolve", <<>>))
        BY <3>7, Initiates
      <3> QED
        BY <3>1, <3>6, <3>8, MovesOn
    <2> QED
      BY <2>1, <2>2
  <1>2. Moves(s, on_kick(s, p))
    <2>1. on_kick(s, p) \in {s, Kick(s)}
      BY DEF on_kick
    <2> QED
      BY <2>1, Stays, TcpWrites
  <1>3. ASSUME p.w \in Writes
        PROVE  Moves(s, on_write_posted(s, p)) /\ Moves(s, on_try_posted(s, p))
    <2>1. on_write_posted(s, p) \in
              {s, Release(s, "inflight", p.w), route_enqueued_buffer(s, p.w)}
      BY DEF on_write_posted
    <2>2. on_try_posted(s, p) \in {s, route_try(s, p.w)}
      BY DEF on_try_posted
    <2>3. Moves(s, Release(s, "inflight", p.w))
      BY <1>3, QueueMoves
    <2>4. Moves(s, route_enqueued_buffer(s, p.w)) /\ Moves(s, route_try(s, p.w))
      BY <1>3, TcpRoutes
    <2> QED
      BY <2>1, <2>2, <2>3, <2>4, Stays
  <1> QED
    BY <1>1, <1>2, <1>3

\* The completions of the resolver, the connect, its timer and the handshake.
LEMMA TcpAttempts ==
  ASSUME NEW s, Typed(s), NEW o, NEW r, NEW setup, NEW willing
  PROVE  /\ Moves(s, on_resolve(s, o, r, willing)) /\ Moves(s, on_connect_timer(s, o, r, willing))
         /\ Handles(s, on_connect(s, o, r, setup, willing))
         /\ r \in {"ok", "err", "aborted"} => Handles(s, on_handshake(s, o, r, willing))
  <1>1. Moves(s, handle_close(s, willing))
    <2>1. Agree(s, s, {"tx", "writing"}) /\ s.tx \in Seq(Writes)
      BY DEF Agree, Typed
    <2> QED
      BY <2>1, TcpEnds
  <1>2. Moves(s, on_resolve(s, o, r, willing))
    <2> DEFINE a == Arm(s, "timer")
               b == Cancel(a, OnSocket)
               d == [b EXCEPT !.open = TRUE]
               e == Initiate(d, "connect", <<>>)
    <2>1. \/ on_resolve(s, o, r, willing) \in {s, schedule_retry(s, willing)}
          \/ ~s.stopping /\ on_resolve(s, o, r, willing) = e
      BY DEF on_resolve, OpenAndConnect
    <2>2. ASSUME ~s.stopping PROVE Moves(s, e)
      <3>1. "timer" \in Kinds /\ "connect" \in Kinds /\ <<>> \in Seq(Writes)
        BY SMT DEF Kinds
      <3>2. Moves(s, a)
        BY <2>2, <3>1, Arms
      <3> HIDE DEF a
      <3>3. Moves(a, b)
        BY <3>2, Cancels DEF Moves
      <3> HIDE DEF b
      <3>4. Moves(s, b)
        BY <3>2, <3>3, MovesOn
      <3>5. Typed(b) /\ ~b.stopping
        BY <2>2, <3>4 DEF Moves, Same
      <3>6. Moves(b, d)
        BY <3>5, Opens
      <3> HIDE DEF d
      <3>7. Typed(d) /\ ~d.stopping
        BY <3>5, <3>6 DEF Moves, Same
      <3>8. Moves(d, e)
        BY <3>1, <3>7, Initiates
      <3> QED
        BY <3>4, <3>6, <3>8, MovesOn
    <2> HIDE DEF e
    <2> QED
      BY <2>1, <2>2, Stays, TcpRetries
  <1>3. Moves(s, on_connect_timer(s, o, r, willing))
    <2>1. on_connect_timer(s, o, r, willing) \in {s, handle_close(s, willing)}
      BY DEF on_connect_timer
    <2> QED
      BY <1>1, <2>1, Stays
  <1>4. Handles(s, on_connect(s, o, r, setup, willing))
    <2> DEFINE a == close_socket(s)
               b == Cancel(a, {"timer"})
               d == Cancel(s, {"timer"})
               e == [d EXCEPT !.attempts = 0]
    <2>1. \/ on_connect(s, o, r, setup, willing) \in {s, b}
          \/ on_connect(s, o, r, setup, willing) = schedule_retry(d, willing)
          \/ /\ ~s.stopping
             /\ on_connect(s, o, r, setup, willing) = handshake_then(e, setup, willing)
      BY DEF on_connect
    <2>2. Moves(s, a) /\ Moves(s, d)
      BY TcpCloses, Cancels
    <2> HIDE DEF a, d
    <2>3. Moves(a, b) /\ Moves(d, schedule_retry(d, willing))
      BY <2>2, Cancels, TcpRetries DEF Moves
    <2>4. Moves(d, e)
      <3>1. Typed(d) /\ DOMAIN d = Fields
        BY <2>2 DEF Moves, Typed
      <3>2. Agree(d, e, Aside) /\ e.active = d.active
        BY <3>1 DEF Agree, Fields, Aside
      <3> QED
        BY <3>1, <3>2, SetsAside DEF Typed
    <2> HIDE DEF b, e
    <2>5. Moves(s, e) /\ Moves(s, b) /\ Moves(s, schedule_retry(d, willing))
      BY <2>2, <2>3, <2>4, MovesOn
    <2>6. ASSUME ~s.stopping PROVE Handles(s, handshake_then(e, setup, willing))
      <3>1. Typed(e) /\ ~e.stopping
        BY <2>5, <2>6 DEF Moves, Same
      <3>2. Handles(e, handshake_then(e, setup, willing))
        BY <3>1, TcpConnects
      <3> QED
        BY <2>5, <2>6, <3>2, MovesOn DEF Handles
    <2> QED
      BY <2>1, <2>5, <2>6, Stays DEF Handles
  <1>5. ASSUME r \in {"ok", "err", "aborted"} PROVE Handles(s, on_handshake(s, o, r, willing))
    <2>1. \/ on_handshake(s, o, r, willing) \in {s, handle_close(s, willing)}
          \/ ~s.stopping /\ on_handshake(s, o, r, willing) = finish_connect(s)
      BY <1>5 DEF on_handshake
    <2> QED
      BY <1>1, <2>1, Stays, TcpConnects DEF Handles
  <1> QED
    BY <1>2, <1>3, <1>4, <1>5

\* The completions of the retry timer, a read and the idle timer.
LEMMA TcpReads ==
  ASSUME NEW s, Typed(s), NEW o, NEW r, NEW choice, NEW willing
  PROVE  /\ Moves(s, on_retry(s, o, r)) /\ Moves(s, on_read(s, o, r, choice, willing))
         /\ Moves(s, on_idle_timer(s, o, r, choice, willing))
  <1>1. ASSUME NEW d, Typed(d)
        PROVE  Moves(d, handle_close(d, willing)) /\ Moves(d, handle_idle_timeout(d, choice, willing))
    <2>1. Agree(d, d, {"tx", "writing"}) /\ d.tx \in Seq(Writes)
      BY <1>1 DEF Agree, Typed
    <2> QED
      BY <1>1, <2>1, TcpEnds
  <1>2. Moves(s, on_retry(s, o, r))
    <2> DEFINE d == [s EXCEPT !.retrying = FALSE]
               e == Initiate(d, "resolve", <<>>)
    <2>1. \/ on_retry(s, o, r) = d
          \/ ~s.stopping /\ on_retry(s, o, r) = e
      BY DEF on_retry, do_resolve_connect
    <2>2. Moves(s, d)
      <3>1. DOMAIN s = Fields
        BY DEF Typed
      <3>2. Agree(s, d, Aside) /\ d.active = s.active
        BY <3>1 DEF Agree, Fields, Aside
      <3> QED
        BY <3>2, SetsAside DEF Typed
    <2> HIDE DEF d
    <2>3. ASSUME ~s.stopping PROVE Moves(d, e)
      <3>1. Typed(d) /\ ~d.stopping /\ "resolve" \in Kinds /\ <<>> \in Seq(Writes)
        BY <2>2, <2>3, SMT DEF Moves, Same, Kinds
      <3> QED
        BY <3>1, Initiates
    <2> HIDE DEF e
    <2> QED
      BY <2>1, <2>2, <2>3, MovesOn, SMT
  <1>3. Moves(s, on_read(s, o, r, choice, willing))
    <2> DEFINE d == reset_idle_timer(s)
               f == IF choice THEN fail_receive(d, willing) ELSE d
               e == start_read(f)
    <2>1. \/ on_read(s, o, r, choice, willing) \in {s, handle_close(s, willing)}
          \/ ~s.stopping /\ on_read(s, o, r, choice, willing) = e
      BY DEF on_read
    <2>2. Moves(s, d)
      BY TcpIdles
    <2> HIDE DEF d
    <2>3. Moves(d, handle_close(d, willing)) /\ Moves(d, d)
      BY <1>1, <2>2, Stays DEF Moves
    <2>4. f \in {d, handle_close(d, willing)}
      BY DEF fail_receive
    <2> HIDE DEF f
    <2>5. Moves(s, f)
      BY <2>2, <2>3, <2>4, MovesOn, SMT
    <2>6. ASSUME ~s.stopping PROVE Moves(s, e)
      <3>1. Typed(f) /\ ~f.stopping /\ "read" \in Kinds /\ <<>> \in Seq(Writes)
        BY <2>5, <2>6, SMT DEF Moves, Same, Kinds
      <3>2. Moves(f, e)
        BY <3>1, Initiates DEF start_read
      <3> QED
        BY <2>5, <3>2, MovesOn
    <2> HIDE DEF e
    <2> QED
      BY <1>1, <2>1, <2>6, Stays
  <1>4. Moves(s, on_idle_timer(s, o, r, choice, willing))
    <2>1. on_idle_timer(s, o, r, choice, willing) \in {s, handle_idle_timeout(s, choice, willing)}
      BY DEF on_idle_timer
    <2> QED
      BY <1>1, <2>1, Stays
  <1> QED
    BY <1>2, <1>3, <1>4

\* What the proofs use of sums and of sets of writes; the theorem Counted below.
Numbers ==
    /\ \A b \in Seq(Nat) : Total(b) \in Nat
    /\ \A U \in SUBSET Writes : Cardinality(U) \in Nat

\* The bytes of a batch are a number.
LEMMA BytesType ==
  ASSUME Numbers, NEW s, Typed(s), NEW ws \in Seq(Writes)
  PROVE  Bytes(s, ws) \in Nat
  <1> DEFINE b == [i \in DOMAIN ws |-> s.req[ws[i]].n]
  <1>1. \A w \in Writes : s.req[w].n \in Nat
    BY DEF Typed, Requests
  <1>2. b \in Seq(Nat)
    BY <1>1, SMT
  <1> HIDE DEF b
  <1>3. Total(b) \in Nat
    BY <1>2 DEF Numbers
  <1> QED
    BY <1>3 DEF Bytes, b

\* Bytes are released from the queue's counter.
LEMMA Frees ==
  ASSUME NEW s, Typed(s), NEW n \in Nat
  PROVE  Moves(s, [s EXCEPT !.queue = release_reserved_write_bytes(@, n)])
  <1> DEFINE a == release_reserved_write_bytes(s.queue, n)
             t == [s EXCEPT !.queue = a]
  <1>1. DOMAIN s = Fields
    BY DEF Typed
  <1>2. a \in Nat /\ (s.queue = 0 => a = 0)
    BY SMT DEF Typed, release_reserved_write_bytes
  <1>3. t = [s EXCEPT !.queue = release_reserved_write_bytes(@, n)]
    BY <1>1 DEF Fields
  <1> HIDE DEF a
  <1>4. /\ Agree(s, t, Loose) /\ t.queue = a /\ t.conn = s.conn /\ t.tx = s.tx
        /\ t.pending = s.pending /\ t.active = s.active /\ t.pend = s.pend /\ t.req = s.req
        /\ t.inflight = s.inflight /\ t.connected = s.connected /\ t.open = s.open
    BY <1>1 DEF Agree, Fields, Loose
  <1> HIDE DEF t
  <1>5. Moves(s, t)
    BY <1>2, <1>4, Sets DEF Typed
  <1> QED
    BY <1>3, <1>5

\* The completion of a write.
LEMMA TcpWritten ==
  ASSUME Numbers, NEW s, Typed(s), NEW o, OpType(o), NEW r, NEW willing
  PROVE  Moves(s, on_write(s, o, r, willing))
  <1> DEFINE t == on_write(s, o, r, willing)
             told == LedgerComplete(s, o.batch)
             lost == IF ~OldConnection(s, o) /\ r = "err" /\ ~OldRun(s, o)
                     THEN mark_disconnected(told) ELSE told
             ended == [lost EXCEPT !.active = <<>>]
             bytes == Bytes(s, o.batch)
             f(x) == [x EXCEPT !.queue = release_reserved_write_bytes(@, bytes)]
             freed(x) == report_backpressure(f(x), f(x).queue)
             back == [ended EXCEPT !.tx = o.batch \o @, !.writing = FALSE]
             idle == reset_idle_timer(ended)
  <1>1. \/ t = lost
        \/ t = [freed(ended) EXCEPT !.writing = FALSE]
        \/ t = handle_close(back, willing)
        \/ t = [freed(idle) EXCEPT !.writing = FALSE]
        \/ t = do_write(freed(idle))
    BY DEF on_write, write_completed
  <1>2. o.batch \in Seq(Writes)
    BY DEF OpType
  <1>3. bytes \in Nat
    BY <1>2, BytesType
  <1> HIDE DEF bytes
  <1>4. Moves(s, told)
    BY LedgerMoves
  <1> HIDE DEF told
  <1>5. Moves(s, lost)
    <2>1. Moves(told, mark_disconnected(told))
      BY <1>4, TcpMarks DEF Moves
    <2> QED
      BY <1>4, <2>1, MovesOn
  <1> HIDE DEF lost
  <1>6. Moves(s, ended)
    <2>1. Typed(lost) /\ DOMAIN lost = Fields /\ <<>> \in Seq(Writes)
      BY <1>5, SMT DEF Moves, Typed
    <2>2. Agree(lost, ended, Aside) /\ ended.active = <<>>
      BY <2>1 DEF Agree, Fields, Aside
    <2> HIDE DEF ended
    <2>3. Moves(lost, ended)
      BY <2>1, <2>2, SetsAside
    <2> QED
      BY <1>5, <2>3, MovesOn
  <1> HIDE DEF ended
  <1>7. Moves(s, idle)
    <2>1. Moves(ended, idle)
      BY <1>6, TcpIdles DEF Moves
    <2> QED
      BY <1>6, <2>1, MovesOn
  <1> HIDE DEF idle
  <1>8. ASSUME NEW x, Moves(s, x)
        PROVE  Moves(s, freed(x)) /\ Moves(s, [freed(x) EXCEPT !.writing = FALSE])
               /\ Moves(s, do_write(freed(x)))
    <2>1. Moves(x, f(x))
      BY <1>3, <1>8, Frees DEF Moves
    <2> HIDE DEF f
    <2>2. Moves(f(x), freed(x))
      BY <2>1, TcpReports DEF Moves
    <2> DEFINE y == freed(x)
    <2>3. Moves(s, y)
      BY <1>8, <2>1, <2>2, MovesOn
    <2> HIDE DEF y
    <2>4. Typed(y) /\ DOMAIN y = Fields
      BY <2>3 DEF Moves, Typed
    <2> DEFINE z == [y EXCEPT !.writing = FALSE]
    <2>5. Agree(y, z, Aside) /\ z.active = y.active
      BY <2>4 DEF Agree, Fields, Aside
    <2> HIDE DEF z
    <2>6. Moves(y, z)
      BY <2>4, <2>5, SetsAside DEF Typed
    <2>7. Moves(y, do_write(y))
      BY <2>4, TcpWrites
    <2>8. Moves(s, z) /\ Moves(s, do_write(y))
      BY <2>3, <2>6, <2>7, MovesOn
    <2> QED
      BY <2>3, <2>8 DEF y, z
  <1> HIDE DEF f, freed
  <1>9. Moves(s, handle_close(back, willing))
    <2>1. Typed(ended) /\ DOMAIN ended = Fields /\ ended.tx \in Seq(Writes)
      BY <1>6 DEF Moves, Typed
    <2>2. o.batch \o ended.tx \in Seq(Writes)
      BY <1>2, <2>1, SMT
    <2>3. Agree(ended, back, {"tx", "writing"}) /\ back.tx = o.batch \o ended.tx
      BY <2>1 DEF Agree, Fields
    <2> HIDE DEF back
    <2>4. Moves(ended, handle_close(back, willing))
      BY <2>1, <2>2, <2>3, TcpEnds
    <2> QED
      BY <1>6, <2>4, MovesOn
  <1> HIDE DEF back
  <1> QED
    BY <1>1, <1>5, <1>6, <1>7, <1>8, <1>9

-----------------------------------------------------------------------------
(* The steps.                                                              *)

\* A handler that is posted goes to the end.
LEMMA Posts ==
  ASSUME NEW s, Typed(s), NEW what \in {"start", "write", "try", "kick", "cleanup"},
         NEW w \in Writes \cup {0}, what \in {"write", "try"} => w \in Writes,
         NEW t, t = Post(s, what, w)
  PROVE  /\ Typed(t) /\ Agree(s, t, {"posts"})
         /\ Len(s.posts) \in Nat /\ Len(t.posts) = Len(s.posts) + 1
         /\ \A i \in 1 .. Len(s.posts) : t.posts[i] = s.posts[i]
         /\ t.posts[Len(s.posts) + 1] = [what |-> what, w |-> w, run |-> s.run, conn |-> s.conn]
  <1> DEFINE h == [what |-> what, w |-> w, run |-> s.run, conn |-> s.conn]
  <1>1. DOMAIN s = Fields /\ h \in Handlers /\ s.posts \in Seq(Handlers)
    BY DEF Typed, Handlers
  <1>2. t = [s EXCEPT !.posts = Append(@, h)]
    BY DEF Post
  <1> HIDE DEF h
  <1>3. Agree(s, t, {"posts"}) /\ t.posts = Append(s.posts, h)
    BY <1>1, <1>2 DEF Agree, Fields
  <1>4. Typed(t)
    <2>1. /\ DOMAIN t = Fields /\ t.run = s.run /\ t.stop_seq = s.stop_seq /\ t.conn = s.conn
          /\ t.io = s.io /\ t.pending = s.pending /\ t.active = s.active /\ t.tx = s.tx
          /\ t.queue = s.queue /\ t.pend = s.pend /\ t.inflight = s.inflight /\ t.req = s.req
      BY <1>3 DEF Agree, Fields
    <2>2. t.posts \in Seq(Handlers)
      BY <1>1, <1>3, SMT
    <2> QED
      BY <2>1, <2>2 DEF Typed
  <1>5. /\ Len(s.posts) \in Nat /\ Len(t.posts) = Len(s.posts) + 1
        /\ \A i \in 1 .. Len(s.posts) : t.posts[i] = s.posts[i]
        /\ t.posts[Len(s.posts) + 1] = h
    BY <1>1, <1>3, SMT
  <1> QED
    BY <1>3, <1>4, <1>5 DEF h

\* Unless it starts or cleans up, it keeps the life cycle of a client that is not
\* stopping.
LEMMA PostsOn ==
  ASSUME NEW s, Typed(s), Life(s), ~s.stopping, s.run > 0,
         NEW what \in {"write", "try", "kick"}, NEW w \in Writes \cup {0},
         what \in {"write", "try"} => w \in Writes,
         NEW t, t = Post(s, what, w)
  PROVE  Typed(t) /\ Agree(s, t, {"posts"}) /\ Life(t) /\ Finished(t)
  <1>1. /\ Typed(t) /\ Agree(s, t, {"posts"})
        /\ Len(s.posts) \in Nat /\ Len(t.posts) = Len(s.posts) + 1
        /\ \A i \in 1 .. Len(s.posts) : t.posts[i] = s.posts[i]
        /\ t.posts[Len(s.posts) + 1] = [what |-> what, w |-> w, run |-> s.run, conn |-> s.conn]
    BY Posts, SMT
  <1>2. /\ t.cleanup_done = s.cleanup_done /\ t.cleanup_finished = s.cleanup_finished
        /\ t.io = s.io /\ t.stopping = s.stopping /\ t.run = s.run /\ t.req = s.req
    BY <1>1 DEF Agree, Fields
  <1>3. ~t.stopping /\ ~t.cleanup_finished /\ ~t.cleanup_done /\ t.run # 0
    BY <1>2, SMT DEF Life, Typed
  <1>4. ASSUME NEW i \in 1 .. Len(t.posts)
        PROVE  /\ t.posts[i].run = t.run /\ t.posts[i].what # "cleanup"
               /\ t.posts[i].what = "start" => i = 1
    <2>1. i \in 1 .. Len(s.posts) \/ i = Len(s.posts) + 1
      BY <1>1, SMT
    <2> QED
      BY <1>1, <1>2, <2>1, SMT DEF Life
  <1>5. Life(t)
    BY <1>3, <1>4 DEF Life
  <1> QED
    BY <1>1, <1>3, <1>5 DEF Finished

\* The handler that runs was the first, and is of this run.
LEMMA Pops ==
  ASSUME Typed(c), Life(c), c.posts # <<>>
  PROVE  /\ Typed(Pop) /\ Agree(c, Pop, {"posts"}) /\ Pop.posts = Tail(c.posts)
         /\ Head(c.posts) \in Handlers /\ Head(c.posts).run = c.run /\ c.run > 0
         /\ Head(c.posts).what = "cleanup" => Pop.posts = <<>> /\ c.stopping /\ ~c.cleanup_finished
         /\ Head(c.posts).what # "cleanup" => Life(Pop) /\ Finished(Pop)
  <1> DEFINE s == Pop
             n == Len(s.posts)
  <1>1. DOMAIN c = Fields /\ c.posts \in Seq(Handlers) /\ c.run \in Nat
    BY DEF Typed
  <1>2. Agree(c, s, {"posts"}) /\ s.posts = Tail(c.posts)
    BY <1>1 DEF Pop, Agree, Fields
  <1> HIDE DEF s
  <1>3. /\ s.posts \in Seq(Handlers) /\ n \in Nat /\ Len(c.posts) = n + 1
        /\ Head(c.posts) = c.posts[1] /\ Head(c.posts) \in Handlers
        /\ \A i \in 1 .. n : s.posts[i] = c.posts[i + 1]
        /\ n = 0 => s.posts = <<>>
    <2>1. \A q \in Seq(Handlers) : Len(q) = 0 => q = <<>>
      BY SMT
    <2>2. /\ s.posts \in Seq(Handlers) /\ n \in Nat /\ Len(c.posts) = n + 1
          /\ Head(c.posts) = c.posts[1] /\ Head(c.posts) \in Handlers
          /\ \A i \in 1 .. n : s.posts[i] = c.posts[i + 1]
      BY <1>1, <1>2, SMT
    <2> QED
      BY <2>1, <2>2
  <1>4. /\ s.cleanup_done = c.cleanup_done /\ s.cleanup_finished = c.cleanup_finished
        /\ s.io = c.io /\ s.stopping = c.stopping /\ s.run = c.run /\ s.req = c.req
        /\ s.conn = c.conn /\ s.stop_seq = c.stop_seq /\ DOMAIN s = Fields
        /\ s.pending = c.pending /\ s.active = c.active /\ s.tx = c.tx
        /\ s.queue = c.queue /\ s.pend = c.pend /\ s.inflight = c.inflight
    BY <1>2 DEF Agree, Fields
  <1>5. Typed(s)
    BY <1>3, <1>4 DEF Typed
  <1> HIDE DEF n
  <1>6. 1 \in 1 .. n + 1 /\ \A i \in 1 .. n : i + 1 \in 1 .. n + 1 /\ i + 1 # 1
    BY <1>3, SMT
  <1>7. c.posts[1].run = c.run /\ (c.posts[1].what = "cleanup" => c.stopping /\ 1 = n + 1)
    BY <1>3, <1>6 DEF Life
  <1>8. c.run # 0 /\ ~c.cleanup_finished
    BY DEF Life
  <1>9. c.run > 0
    BY <1>1, <1>8, SMT
  <1>10. c.posts[1].what = "cleanup" => s.posts = <<>>
    BY <1>3, <1>7, SMT
  <1>11. ASSUME c.posts[1].what # "cleanup" PROVE Life(s) /\ Finished(s)
    <2>1. ASSUME c.stopping PROVE Posted(s, {"cleanup"})
      <3>1. PICK i \in 1 .. n + 1 : c.posts[i].what = "cleanup"
        BY <2>1, <1>1, <1>3, <1>8, SMT DEF Life, Posted
      <3>2. i # 1
        BY <1>11, <3>1
      <3>3. i - 1 \in 1 .. n /\ (i - 1) + 1 = i
        BY <1>3, <3>2, SMT
      <3>4. s.posts[i - 1].what = "cleanup" /\ i - 1 \in DOMAIN s.posts
        BY <1>3, <3>1, <3>3, SMT DEF n
      <3> QED
        BY <3>4 DEF Posted
    <2>2. ASSUME NEW i \in 1 .. n
          PROVE  /\ s.posts[i].run = s.run
                 /\ s.posts[i].what = "cleanup" => s.stopping /\ i = n
                 /\ s.posts[i].what # "start"
      <3>1. s.posts[i] = c.posts[i + 1] /\ i + 1 \in 1 .. Len(c.posts) /\ i + 1 # 1
        BY <1>3, <1>6
      <3>2. c.posts[i + 1].what = "cleanup" => i + 1 = n + 1
        BY <1>3, <3>1 DEF Life
      <3>3. i + 1 = n + 1 => i = n
        BY <1>3, SMT
      <3> QED
        BY <1>4, <3>1, <3>2, <3>3 DEF Life
    <2>3. ~s.cleanup_finished /\ ~s.cleanup_done /\ s.run # 0
      BY <1>4, <1>8 DEF Life
    <2>4. s.stopping => \A w \in Writes : s.req[w].st \in Over
      BY <1>4 DEF Life
    <2>5. Life(s)
      BY <1>4, <2>1, <2>2, <2>3, <2>4 DEF Life, n
    <2> QED
      BY <2>3, <2>5 DEF Finished
  <1> QED
    BY <1>2, <1>3, <1>5, <1>7, <1>8, <1>9, <1>10, <1>11 DEF s

\* An operation that has completed is no longer outstanding.
LEMMA Drops ==
  ASSUME Typed(c), Life(c), NEW o \in c.io, NEW s, s = Drop(c, o)
  PROVE  /\ Typed(s) /\ Life(s) /\ Agree(c, s, {"io"}) /\ s.io = c.io \ {o} /\ c.run > 0
         /\ OpType(o) /\ o.run = s.run
  <1>1. DOMAIN c = Fields /\ c.run \in Nat
    BY DEF Typed
  <1>2. Agree(c, s, {"io"}) /\ s.io = c.io \ {o}
    BY <1>1 DEF Drop, Agree, Fields
  <1>3. /\ s.cleanup_done = c.cleanup_done /\ s.cleanup_finished = c.cleanup_finished
        /\ s.posts = c.posts /\ s.stopping = c.stopping /\ s.run = c.run /\ s.req = c.req
        /\ s.conn = c.conn /\ s.stop_seq = c.stop_seq /\ DOMAIN s = Fields
        /\ s.pending = c.pending /\ s.active = c.active /\ s.tx = c.tx
        /\ s.queue = c.queue /\ s.pend = c.pend /\ s.inflight = c.inflight
        /\ s.connected = c.connected /\ s.open = c.open
    BY <1>2 DEF Agree, Fields
  <1>4. Typed(s) /\ OpType(o) /\ o.run = s.run
    BY <1>2, <1>3 DEF Typed
  <1>5. c.run # 0 /\ ~c.cleanup_done
    BY DEF Life
  <1>6. Wound(c) => Wound(s)
    BY <1>2, <1>3 DEF Wound
  <1>7. Life(s)
    BY <1>3, <1>5, <1>6, SMT DEF Life, Posted
  <1> QED
    BY <1>1, <1>2, <1>4, <1>5, <1>7, SMT

\* The last completion of a stopped run completes the stop.
LEMMA Completes ==
  ASSUME NEW s, Typed(s), Life(s), NEW t, t = Complete(s)
  PROVE  Typed(t) /\ Life(t) /\ Finished(t) /\ Agree(s, t, {"cleanup_done"})
  <1>1. CASE ~(s.io = {} /\ s.cleanup_finished)
    BY <1>1 DEF Complete, Finished, Agree, Typed
  <1>2. CASE s.io = {} /\ s.cleanup_finished
    <2>1. DOMAIN s = Fields /\ t = [s EXCEPT !.cleanup_done = TRUE]
      BY <1>2 DEF Complete, Typed
    <2>2. Agree(s, t, {"cleanup_done"}) /\ t.cleanup_done
      BY <2>1 DEF Agree, Fields
    <2>3. /\ s.io = t.io /\ s.cleanup_finished = t.cleanup_finished
          /\ s.posts = t.posts /\ s.stopping = t.stopping /\ s.run = t.run /\ s.req = t.req
          /\ s.conn = t.conn /\ s.stop_seq = t.stop_seq /\ DOMAIN t = Fields
          /\ s.pending = t.pending /\ s.active = t.active /\ s.tx = t.tx
          /\ s.queue = t.queue /\ s.pend = t.pend /\ s.inflight = t.inflight
          /\ s.connected = t.connected /\ s.open = t.open
      BY <2>2 DEF Agree, Fields
    <2>4. Typed(t)
      BY <2>3 DEF Typed
    <2>5. Wound(s) => Wound(t)
      BY <2>3 DEF Wound
    <2>6. Life(t)
      BY <1>2, <2>2, <2>3, <2>5, SMT DEF Life, Posted
    <2> QED
      BY <2>2, <2>4, <2>6 DEF Finished
  <1> QED
    BY <1>1, <1>2

\* The cleanup of a stop closes, cancels and empties everything
\* (perform_stop_cleanup).
LEMMA TcpCleans ==
  ASSUME NEW s, Typed(s), s.posts = <<>>, s.stopping, ~s.cleanup_finished, ~s.cleanup_done,
         \A w \in Writes : s.req[w].st \in Over, s.run = 0 => s.io = {},
         NEW t, t = perform_stop_cleanup(s)
  PROVE  /\ Typed(t) /\ Life(t) /\ Finished(t)
         /\ t.stopping /\ t.run = s.run /\ t.stop_seq = s.stop_seq /\ t.kind = s.kind
  <1> DEFINE a == Cancel(s, {"retry", "timer", "idle", "resolve"})
             d == close_socket(a)
             e == ClearQueues(d)
             m == mark_disconnected(e)
             b == [m EXCEPT !.active = <<>>, !.backpressure = FALSE]
             k == transition_to(b, "Closed")
             f == [k EXCEPT !.cleanup_finished = TRUE]
  <1>1. t = Complete(f)
    BY DEF perform_stop_cleanup
  <1>2. Moves(s, a) /\ a.io = {Cancelled(o, {"retry", "timer", "idle", "resolve"}) : o \in s.io}
    <2>1. a = Cancel(s, {"retry", "timer", "idle", "resolve"})
      OBVIOUS
    <2> HIDE DEF a
    <2> QED
      BY <2>1, Cancels
  <1> HIDE DEF a
  <1>3. Moves(a, d) /\ ~d.open /\ d.io = {Cancelled(o, OnSocket) : o \in a.io}
    BY <1>2, TcpCloses DEF Moves
  <1>4. \A o \in d.io : o.end # "open"
    <2>1. ASSUME NEW o \in s.io
          PROVE  Cancelled(Cancelled(o, {"retry", "timer", "idle", "resolve"}), OnSocket).end # "open"
      <3>1. OpType(o)
        BY DEF Typed
      <3> QED
        BY <3>1 DEF OpType, OpFields, Kinds, Cancelled, OnSocket
    <2> QED
      BY <1>2, <1>3, <2>1
  <1> HIDE DEF d
  <1>5. Moves(d, e) /\ e.tx = <<>> /\ e.pending = <<>> /\ e.queue = 0 /\ e.pend = 0
    <2>1. Typed(d) /\ DOMAIN d = Fields
      BY <1>3 DEF Moves, Typed
    <2>2. Moves(d, e)
      BY <2>1, Clears
    <2> QED
      BY <2>1, <2>2 DEF ClearQueues, Fields
  <1> HIDE DEF e
  <1>6. Moves(e, m) /\ ~m.connected
    BY <1>5, TcpMarks DEF Moves
  <1> HIDE DEF m
  <1>7. Moves(m, b)
    <2>1. Typed(m) /\ DOMAIN m = Fields /\ <<>> \in Seq(Writes)
      BY <1>6, SMT DEF Moves, Typed
    <2>2. Agree(m, b, Aside) /\ b.active = <<>>
      BY <2>1 DEF Agree, Fields, Aside
    <2> HIDE DEF b
    <2> QED
      BY <2>1, <2>2, SetsAside
  <1> HIDE DEF b
  <1>8. Moves(b, k)
    BY <1>7, TcpTransitions DEF Moves
  <1> HIDE DEF k
  <1>9. Moves(s, k) /\ Moves(d, k) /\ Moves(e, k) /\ Moves(m, k)
    BY <1>2, <1>3, <1>5, <1>6, <1>7, <1>8, MovesOn
  <1>10. s.stopping /\ d.stopping /\ e.stopping /\ m.stopping
    BY <1>2, <1>3, <1>5, <1>6 DEF Moves, Same
  <1>11. Wound(k)
    BY <1>3, <1>4, <1>5, <1>6, <1>9, <1>10 DEF Moves, Winds, Wound
  <1>12. Typed(k) /\ Same(s, k) /\ (\A w \in Writes : k.req[w].st \in Over) /\ (k.io = {} <=> s.io = {})
    BY <1>9, <1>10 DEF Moves, Winds
  <1>13. Agree(k, f, {"cleanup_finished"}) /\ f.cleanup_finished
    BY <1>12 DEF Agree, Fields, Typed
  <1> HIDE DEF f
  <1>14. /\ k.io = f.io /\ k.cleanup_done = f.cleanup_done /\ k.kind = f.kind
         /\ k.posts = f.posts /\ k.stopping = f.stopping /\ k.run = f.run /\ k.req = f.req
         /\ k.conn = f.conn /\ k.stop_seq = f.stop_seq /\ DOMAIN f = Fields
         /\ k.pending = f.pending /\ k.active = f.active /\ k.tx = f.tx
         /\ k.queue = f.queue /\ k.pend = f.pend /\ k.inflight = f.inflight
         /\ k.connected = f.connected /\ k.open = f.open
    BY <1>13 DEF Agree, Fields
  <1>15. Typed(f)
    BY <1>12, <1>14 DEF Typed
  <1>16. Wound(f)
    BY <1>11, <1>14 DEF Wound
  <1>17. f.posts = <<>> /\ f.stopping /\ ~f.cleanup_done /\ f.run = s.run /\ f.stop_seq = s.stop_seq
         /\ f.kind = s.kind
    BY <1>10, <1>12, <1>14 DEF Same
  <1>18. Life(f)
    BY <1>12, <1>13, <1>14, <1>16, <1>17, SMT DEF Life
  <1>19. Typed(t) /\ Life(t) /\ Finished(t) /\ Agree(f, t, {"cleanup_done"})
    BY <1>1, <1>15, <1>18, Completes
  <1>20. t.stopping = f.stopping /\ t.run = f.run /\ t.stop_seq = f.stop_seq /\ t.kind = f.kind
    BY <1>19 DEF Agree, Fields
  <1> QED
    BY <1>17, <1>19, <1>20

\* An accepted write is posted (Admit, TryAdmit).
LEMMA Accepts ==
  ASSUME Numbers, Typed(c), Life(c), Admissible(c), Used(c) < MaxWrites, NEW n \in Nat,
         NEW what \in {"write", "try"},
         NEW s, Agree(c, s, {"queue", "inflight"}), s.queue \in Nat, s.inflight \in Nat,
         NEW t, t = Accept(s, what, n)
  PROVE  /\ Typed(t) /\ Life(t) /\ Finished(t)
         /\ t.stopping = c.stopping /\ t.run = c.run /\ t.stop_seq = c.stop_seq /\ t.kind = c.kind
  <1> DEFINE w == Used(c) + 1
             q == [st |-> "queued", run |-> c.run, conn |-> c.conn, n |-> n]
             d == [s EXCEPT !.req[w] = q]
  <1>1. w \in Writes
    <2> DEFINE U == {v \in Writes : c.req[v].st # "unused"}
    <2>1. U \in SUBSET Writes
      OBVIOUS
    <2>2. Cardinality(U) \in Nat
      BY <2>1 DEF Numbers
    <2>3. Used(c) \in Nat /\ MaxWrites \in Nat
      BY <2>2, ClientAssumption DEF Used
    <2> QED
      BY <2>3, SMT DEF Writes
  <1>2. /\ c.io = s.io /\ c.cleanup_done = s.cleanup_done /\ c.kind = s.kind
        /\ c.posts = s.posts /\ c.stopping = s.stopping /\ c.run = s.run /\ c.req = s.req
        /\ c.conn = s.conn /\ c.stop_seq = s.stop_seq /\ DOMAIN s = Fields
        /\ c.pending = s.pending /\ c.active = s.active /\ c.tx = s.tx
        /\ c.pend = s.pend /\ c.cleanup_finished = s.cleanup_finished
    BY DEF Agree, Fields
  <1>3. q \in Requests
    BY DEF Typed, Requests
  <1>4. t = Post(d, what, w)
    BY <1>2 DEF Accept, Used
  <1> HIDE DEF w, q
  <1>5. Agree(s, d, {"req"}) /\ d.req = [s.req EXCEPT ![w] = q]
    BY <1>2 DEF Agree, Fields
  <1> HIDE DEF d
  <1>6. /\ d.io = s.io /\ d.cleanup_done = s.cleanup_done /\ d.kind = s.kind
        /\ d.posts = s.posts /\ d.stopping = s.stopping /\ d.run = s.run
        /\ d.conn = s.conn /\ d.stop_seq = s.stop_seq /\ DOMAIN d = Fields
        /\ d.pending = s.pending /\ d.active = s.active /\ d.tx = s.tx
        /\ d.queue = s.queue /\ d.pend = s.pend /\ d.inflight = s.inflight
        /\ d.cleanup_finished = s.cleanup_finished
    BY <1>5 DEF Agree, Fields
  <1>7. d.req \in [Writes -> Requests]
    BY <1>1, <1>2, <1>3, <1>5, SMT DEF Typed
  <1>8. Typed(d)
    BY <1>2, <1>6, <1>7 DEF Typed
  <1>9. ~d.stopping /\ d.run > 0
    BY <1>2, <1>6 DEF Admissible
  <1>10. ~c.cleanup_finished /\ ~c.cleanup_done /\ ~c.stopping
    BY DEF Life, Admissible
  <1>11. Life(d)
    BY <1>2, <1>6, <1>9, <1>10, SMT DEF Life, Posted
  <1>12. Typed(t) /\ Agree(d, t, {"posts"}) /\ Life(t) /\ Finished(t)
    BY <1>1, <1>4, <1>8, <1>9, <1>11, PostsOn
  <1>13. t.stopping = d.stopping /\ t.run = d.run /\ t.stop_seq = d.stop_seq /\ t.kind = d.kind
    BY <1>12 DEF Agree, Fields
  <1> QED
    BY <1>2, <1>6, <1>12, <1>13

\* The life cycle of the TCP client.  stop_seq_ keeps the handler of a start() that
\* a stop() overtook from doing anything.
TcpLife(s) ==
    /\ Typed(s) /\ Life(s) /\ Finished(s)
    /\ s.stopping => s.stop_seq = s.run
    /\ s.kind = "tcp"

\* A handler keeps it, whether it was posted or completes an operation.
LEMMA TcpHandles ==
  ASSUME NEW s, Typed(s), Life(s), s.run > 0, s.stopping => s.stop_seq = s.run, s.kind = "tcp",
         NEW t, Handles(s, t)
  PROVE  /\ Typed(t) /\ Life(t) /\ (Finished(s) => Finished(t))
         /\ t.stopping => t.stop_seq = t.run
         /\ t.kind = "tcp"
  <1>1. ASSUME NEW u, Moves(s, u)
        PROVE  /\ Typed(u) /\ Life(u) /\ (Finished(s) => Finished(u))
               /\ u.stopping = s.stopping /\ u.run = s.run /\ u.stop_seq = s.stop_seq
               /\ u.kind = s.kind
    BY <1>1, LifeGoesOn DEF Moves, Same
  <1>2. CASE Moves(s, t)
    BY <1>1, <1>2
  <1>3. CASE ~s.stopping /\ \E u : Moves(s, u) /\ t = Post(u, "kick", 0)
    <2>1. PICK u : Moves(s, u) /\ t = Post(u, "kick", 0)
      BY <1>3
    <2>2. /\ Typed(u) /\ Life(u) /\ ~u.stopping /\ u.run > 0 /\ u.kind = s.kind
          /\ 0 \in Writes \cup {0}
      BY <1>1, <1>3, <2>1
    <2>3. Typed(t) /\ Agree(u, t, {"posts"}) /\ Life(t) /\ Finished(t)
      BY <2>1, <2>2, PostsOn
    <2>4. t.stopping = u.stopping /\ t.kind = u.kind
      BY <2>3 DEF Agree, Fields
    <2> QED
      BY <2>2, <2>3, <2>4
  <1> QED
    BY <1>2, <1>3 DEF Handles

\* start() begins a run, and posts its handler.
LEMMA TcpStarts ==
  ASSUME TcpLife(c), start
  PROVE  TcpLife(c') /\ c'.posts = <<[what |-> "start", w |-> 0, run |-> c'.run, conn |-> c'.conn]>>
         /\ c'.io = {} /\ c'.tx = c.tx /\ c'.pending = <<>> /\ c'.queue = 0 /\ c'.pend = 0
         /\ c'.inflight = 0 /\ ~c'.connected /\ ~c'.retrying /\ ~c'.stopping /\ c'.state = "Idle"
         /\ c'.run = c.run + 1 /\ ~c'.terminal /\ c'.active = c.active
         /\ (c.connected => \A w \in Writes : c'.req[w].st \in Over)
         /\ (~c.connected => c'.req = c.req /\ c'.conn = c.conn)
  <1> DEFINE a == [c EXCEPT !.run = @ + 1]
             m == mark_disconnected(a)
             d == reset_start_state(a)
  <1>1. Typed(c) /\ Life(c) /\ c.posts = <<>> /\ c.io = {} /\ c.run \in Nat /\ DOMAIN c = Fields
    BY DEF TcpLife, Life, start, Typed
  <1>2. Agree(c, a, {"run"}) /\ a.run = c.run + 1
    BY <1>1 DEF Agree, Fields
  <1>3. c' = Post(d, "start", 0)
    BY DEF start
  <1> HIDE DEF a
  <1>4. /\ c.io = a.io /\ c.kind = a.kind /\ c.connected = a.connected
        /\ c.posts = a.posts /\ c.req = a.req
        /\ c.conn = a.conn /\ c.stop_seq = a.stop_seq /\ DOMAIN a = Fields
        /\ c.pending = a.pending /\ c.active = a.active /\ c.tx = a.tx
        /\ c.queue = a.queue /\ c.pend = a.pend /\ c.inflight = a.inflight
    BY <1>2 DEF Agree, Fields
  <1>5. Typed(a)
    <2>1. a.run \in Nat
      BY <1>1, <1>2, SMT
    <2> QED
      BY <1>1, <1>4, <2>1 DEF Typed
  <1>6. Moves(a, m) /\ Agree(a, m, {"req", "connected", "conn"}) /\ ~m.connected
    BY <1>5, TcpMarks
  <1>7. /\ a.connected => \A w \in Writes : m.req[w].st \in Over
        /\ ~a.connected => m.req = a.req /\ m.conn = a.conn
    <2>1. CASE ~a.connected
      BY <2>1 DEF mark_disconnected
    <2>2. CASE a.connected
      <3> DEFINE e == LedgerEnd(a)
      <3>1. Moves(a, e) /\ \A w \in Writes : e.req[w].st \in Over
        BY <1>5, LedgerMoves
      <3>2. m = [e EXCEPT !.connected = FALSE, !.conn = @ + 1]
        BY <2>2 DEF mark_disconnected
      <3> HIDE DEF e
      <3>3. DOMAIN e = Fields
        BY <3>1 DEF Moves, Typed
      <3>4. m.req = e.req
        BY <3>2, <3>3 DEF Fields
      <3> QED
        BY <2>2, <3>1, <3>4
    <2> QED
      BY <2>1, <2>2
  <1>8. d = [ClearQueues(m) EXCEPT
                !.cleanup_finished = FALSE, !.cleanup_done = FALSE,
                !.inflight = 0, !.stopping = FALSE, !.terminal = FALSE, !.retrying = FALSE,
                !.attempts = 0, !.tx = a.tx, !.backpressure = FALSE, !.state = "Idle"]
    BY DEF reset_start_state
  <1> HIDE DEF m, d
  <1>9. Typed(m) /\ DOMAIN m = Fields
    BY <1>6 DEF Moves, Typed
  <1>10. /\ DOMAIN d = Fields /\ d.io = m.io /\ d.kind = m.kind /\ d.connected = m.connected
         /\ d.posts = m.posts /\ d.req = m.req /\ d.conn = m.conn /\ d.stop_seq = m.stop_seq
         /\ d.run = m.run /\ d.active = m.active
    BY <1>8, <1>9 DEF ClearQueues, Fields
  <1>11. /\ d.pending = <<>> /\ d.tx = a.tx /\ d.queue = 0 /\ d.pend = 0
         /\ d.inflight = 0 /\ ~d.cleanup_finished /\ ~d.cleanup_done /\ ~d.stopping
         /\ ~d.retrying /\ ~d.terminal /\ d.state = "Idle"
    BY <1>8, <1>9 DEF ClearQueues, Fields
  <1>12. /\ m.io = a.io /\ m.kind = a.kind /\ m.posts = a.posts /\ m.stop_seq = a.stop_seq
         /\ m.run = a.run /\ m.active = a.active
    BY <1>6 DEF Agree, Fields
  <1>13. Typed(d)
    <2>1. <<>> \in Seq(Writes) /\ a.tx \in Seq(Writes)
      BY <1>5, SMT DEF Typed
    <2> QED
      BY <1>9, <1>10, <1>11, <2>1, SMT DEF Typed
  <1>14. Len(d.posts) = 0
    <2>1. d.posts = <<>>
      BY <1>1, <1>4, <1>10, <1>12
    <2> QED
      BY <2>1, SMT
  <1> DEFINE h == [what |-> "start", w |-> 0, run |-> d.run, conn |-> d.conn]
  <1>15. /\ Typed(c') /\ Agree(d, c', {"posts"}) /\ Len(c'.posts) = 1 /\ c'.posts[1] = h
    <2>1. 0 \in Writes \cup {0} /\ "start" \in {"start", "write", "try", "kick", "cleanup"}
      OBVIOUS
    <2>2. /\ Typed(c') /\ Agree(d, c', {"posts"}) /\ Len(c'.posts) = Len(d.posts) + 1
          /\ c'.posts[Len(d.posts) + 1] = h
      BY <1>3, <1>13, <2>1, Posts, SMT
    <2> QED
      BY <1>14, <2>2, SMT
  <1>16. /\ c'.io = d.io /\ c'.kind = d.kind /\ c'.connected = d.connected
         /\ c'.req = d.req /\ c'.conn = d.conn /\ c'.stop_seq = d.stop_seq /\ c'.run = d.run
         /\ c'.pending = d.pending /\ c'.active = d.active /\ c'.tx = d.tx
         /\ c'.queue = d.queue /\ c'.pend = d.pend /\ c'.inflight = d.inflight
         /\ c'.cleanup_finished = d.cleanup_finished /\ c'.cleanup_done = d.cleanup_done
         /\ c'.stopping = d.stopping /\ c'.retrying = d.retrying /\ c'.terminal = d.terminal
         /\ c'.state = d.state
    BY <1>15 DEF Agree, Fields
  <1>17. c'.posts = <<h>>
    <2>1. c'.posts \in Seq(Handlers)
      BY <1>15 DEF Typed
    <2> HIDE DEF h
    <2> QED
      BY <1>15, <2>1, SMT
  <1>18. c'.run = c.run + 1 /\ c'.run # 0 /\ c'.kind = "tcp"
    BY <1>1, <1>2, <1>4, <1>10, <1>12, <1>16, SMT DEF TcpLife
  <1>19. \A i \in 1 .. Len(c'.posts) : i = 1 /\ c'.posts[i].run = c'.run
                                       /\ c'.posts[i].what # "cleanup"
    BY <1>15, <1>16, SMT
  <1>20. Life(c') /\ Finished(c')
    BY <1>11, <1>16, <1>18, <1>19 DEF Life, Finished
  <1>21. TcpLife(c')
    BY <1>11, <1>15, <1>16, <1>18, <1>20 DEF TcpLife
  <1> QED
    BY <1>1, <1>4, <1>6, <1>7, <1>10, <1>11, <1>12, <1>16, <1>17, <1>18, <1>21, SMT

\* stop() ends the requests and posts its cleanup; before the first start() it runs
\* the cleanup itself.
LEMMA TcpStopsNow ==
  ASSUME TcpLife(c), stop
  PROVE  TcpLife(c') /\ c'.stopping
  <1> DEFINE e == LedgerEnd(c)
             d == [e EXCEPT !.stopping = TRUE, !.stop_seq = c.run]
  <1>1. Typed(c) /\ Life(c) /\ ~c.stopping /\ c.kind = "tcp" /\ c.run \in Nat
    BY DEF TcpLife, stop, Typed
  <1>2. c' = IF c.run = 0 THEN perform_stop_cleanup(d) ELSE Post(d, "cleanup", 0)
    BY DEF stop
  <1>3. Moves(c, e) /\ Agree(c, e, {"req"}) /\ \A w \in Writes : e.req[w].st \in Over
    BY <1>1, LedgerMoves
  <1> HIDE DEF e
  <1>4. Typed(e) /\ DOMAIN e = Fields
    BY <1>3 DEF Moves, Typed
  <1>5. /\ DOMAIN d = Fields /\ d.stopping /\ d.stop_seq = c.run /\ d.req = e.req
        /\ d.io = e.io /\ d.kind = e.kind /\ d.connected = e.connected
        /\ d.posts = e.posts /\ d.conn = e.conn /\ d.run = e.run
        /\ d.pending = e.pending /\ d.active = e.active /\ d.tx = e.tx
        /\ d.queue = e.queue /\ d.pend = e.pend /\ d.inflight = e.inflight
        /\ d.cleanup_finished = e.cleanup_finished /\ d.cleanup_done = e.cleanup_done
    BY <1>4 DEF Fields
  <1> HIDE DEF d
  <1>6. /\ e.io = c.io /\ e.kind = c.kind /\ e.posts = c.posts /\ e.run = c.run
        /\ e.cleanup_finished = c.cleanup_finished /\ e.cleanup_done = c.cleanup_done
    BY <1>3 DEF Agree, Fields
  <1>7. Typed(d)
    BY <1>1, <1>4, <1>5 DEF Typed
  <1>8. ~d.cleanup_finished /\ ~d.cleanup_done /\ d.run = c.run /\ d.kind = "tcp"
    BY <1>1, <1>5, <1>6 DEF Life
  <1>9. \A w \in Writes : d.req[w].st \in Over
    BY <1>3, <1>5
  <1>10. CASE c.run = 0
    <2>1. d.posts = <<>> /\ d.io = {}
      BY <1>1, <1>5, <1>6, <1>10 DEF Life
    <2>2. c' = perform_stop_cleanup(d)
      BY <1>2, <1>10
    <2>3. /\ Typed(c') /\ Life(c') /\ Finished(c')
          /\ c'.stopping /\ c'.run = d.run /\ c'.stop_seq = d.stop_seq /\ c'.kind = d.kind
      BY <1>5, <1>7, <1>8, <1>9, <2>1, <2>2, TcpCleans
    <2> QED
      BY <1>5, <1>8, <2>3 DEF TcpLife
  <1>11. CASE c.run # 0
    <2> DEFINE h == [what |-> "cleanup", w |-> 0, run |-> d.run, conn |-> d.conn]
    <2>1. c' = Post(d, "cleanup", 0)
      BY <1>2, <1>11
    <2>2. 0 \in Writes \cup {0} /\ "cleanup" \in {"start", "write", "try", "kick", "cleanup"}
      OBVIOUS
    <2>3. /\ Typed(c') /\ Agree(d, c', {"posts"})
          /\ Len(d.posts) \in Nat /\ Len(c'.posts) = Len(d.posts) + 1
          /\ \A i \in 1 .. Len(d.posts) : c'.posts[i] = d.posts[i]
          /\ c'.posts[Len(d.posts) + 1] = h
      BY <1>7, <2>1, <2>2, Posts, SMT
    <2>4. /\ c'.io = d.io /\ c'.kind = d.kind /\ c'.req = d.req /\ c'.stop_seq = d.stop_seq
          /\ c'.run = d.run /\ c'.cleanup_finished = d.cleanup_finished
          /\ c'.cleanup_done = d.cleanup_done /\ c'.stopping = d.stopping
      BY <2>3 DEF Agree, Fields
    <2>5. ASSUME NEW i \in 1 .. Len(c'.posts)
          PROVE  /\ c'.posts[i].run = c'.run
                 /\ c'.posts[i].what = "cleanup" => i = Len(c'.posts)
                 /\ c'.posts[i].what = "start" => i = 1
      <3>1. i \in 1 .. Len(d.posts) \/ i = Len(d.posts) + 1
        BY <2>3, SMT
      <3>2. d.posts = c.posts /\ d.run = c.run
        BY <1>5, <1>6
      <3> QED
        BY <1>1, <2>3, <2>4, <3>1, <3>2, SMT DEF Life
    <2>6. Posted(c', {"cleanup"})
      <3>1. Len(d.posts) + 1 \in DOMAIN c'.posts
        BY <2>3, SMT DEF Typed
      <3> QED
        BY <2>3, <3>1, SMT DEF Posted
    <2>7. Life(c') /\ Finished(c')
      BY <1>5, <1>8, <1>9, <1>11, <2>4, <2>5, <2>6 DEF Life, Finished
    <2> QED
      BY <1>5, <1>8, <2>3, <2>4, <2>7 DEF TcpLife
  <1> QED
    BY <1>10, <1>11

\* A handler that was posted runs.
LEMMA TcpRuns ==
  ASSUME TcpLife(c), RunPosted
  PROVE  TcpLife(c')
  <1> DEFINE h == Head(c.posts)
  <1>1. Typed(c) /\ Life(c) /\ c.posts # <<>> /\ c.kind = "tcp" /\ (c.stopping => c.stop_seq = c.run)
    BY DEF TcpLife, RunPosted, First
  <1>2. /\ Typed(Pop) /\ Agree(c, Pop, {"posts"})
        /\ h \in Handlers /\ h.run = c.run /\ c.run > 0
        /\ h.what = "cleanup" => Pop.posts = <<>> /\ c.stopping /\ ~c.cleanup_finished
        /\ h.what # "cleanup" => Life(Pop) /\ Finished(Pop)
    BY <1>1, Pops
  <1>3. /\ Pop.run = c.run /\ Pop.stop_seq = c.stop_seq /\ Pop.stopping = c.stopping
        /\ Pop.kind = c.kind /\ Pop.io = c.io /\ Pop.req = c.req
        /\ Pop.cleanup_finished = c.cleanup_finished /\ Pop.cleanup_done = c.cleanup_done
    BY <1>2 DEF Agree, Fields
  <1>4. CASE h.what = "cleanup"
    <2>1. c' = perform_stop_cleanup(Pop)
      BY <1>4 DEF RunPosted, First
    <2>2. /\ ~Pop.cleanup_finished /\ ~Pop.cleanup_done /\ Pop.stopping /\ Pop.posts = <<>>
          /\ \A w \in Writes : Pop.req[w].st \in Over
          /\ Pop.run = 0 => Pop.io = {}
      BY <1>1, <1>2, <1>3, <1>4 DEF Life
    <2>3. /\ Typed(c') /\ Life(c') /\ Finished(c')
          /\ c'.stopping /\ c'.run = Pop.run /\ c'.stop_seq = Pop.stop_seq /\ c'.kind = Pop.kind
      BY <1>2, <2>1, <2>2, TcpCleans
    <2> QED
      BY <1>1, <1>2, <1>3, <1>4, <2>3 DEF TcpLife
  <1>5. CASE h.what # "cleanup"
    <2>1. Handles(Pop, c')
      <3>1. CASE h.what \in {"start", "kick"}
        <4>1. c' \in {on_start(Pop, h), on_kick(Pop, h)}
          BY <3>1 DEF RunPosted, First
        <4>2. Moves(Pop, on_start(Pop, h)) /\ Moves(Pop, on_kick(Pop, h))
          BY <1>1, <1>2, <1>3, TcpPosted
        <4> QED
          BY <4>1, <4>2 DEF Handles
      <3>2. CASE h.what \in {"write", "try"}
        <4>1. c' \in {on_write_posted(Pop, h), on_try_posted(Pop, h)}
          BY <3>2 DEF RunPosted, First
        <4>2. h.w \in Writes
          BY <1>2, <3>2 DEF Handlers
        <4>3. Moves(Pop, on_write_posted(Pop, h)) /\ Moves(Pop, on_try_posted(Pop, h))
          BY <1>1, <1>2, <1>3, <4>2, TcpPosted
        <4> QED
          BY <4>1, <4>3 DEF Handles
      <3> QED
        BY <1>2, <1>5, <3>1, <3>2 DEF Handlers
    <2>2. Pop.run > 0 /\ Pop.kind = "tcp" /\ (Pop.stopping => Pop.stop_seq = Pop.run)
      BY <1>1, <1>2, <1>3
    <2>3. /\ Typed(c') /\ Life(c') /\ (Finished(Pop) => Finished(c'))
          /\ c'.stopping => c'.stop_seq = c'.run
          /\ c'.kind = "tcp"
      BY <1>2, <1>5, <2>1, <2>2, TcpHandles
    <2> QED
      BY <1>2, <1>5, <2>3 DEF TcpLife
  <1> QED
    BY <1>4, <1>5

\* An operation completes.
LEMMA TcpCompletes ==
  ASSUME Numbers, TcpLife(c), RunCompletion
  PROVE  TcpLife(c')
  <1>1. PICK o \in c.io : \E r \in Results(c, o) :
            LET s == Drop(c, o)
            IN  \/ o.kind = "retry" /\ c' = Complete(on_retry(s, o, r))
                \/ \E willing \in BOOLEAN :
                    \/ o.kind = "resolve"   /\ c' = Complete(on_resolve(s, o, r, willing))
                    \/ o.kind = "timer"     /\ c' = Complete(on_connect_timer(s, o, r, willing))
                    \/ o.kind = "handshake" /\ c' = Complete(on_handshake(s, o, r, willing))
                    \/ o.kind = "write"     /\ c' = Complete(on_write(s, o, r, willing))
                    \/ \E choice \in BOOLEAN :
                        \/ o.kind = "read" /\ c' = Complete(on_read(s, o, r, choice, willing))
                        \/ o.kind = "idle" /\ c' = Complete(on_idle_timer(s, o, r, choice, willing))
                        \/ o.kind = "connect" /\ c' = Complete(on_connect(s, o, r, choice, willing))
    BY SMT DEF RunCompletion
  <1> DEFINE s == Drop(c, o)
  <1>2. Typed(c) /\ Life(c) /\ c.kind = "tcp" /\ (c.stopping => c.stop_seq = c.run)
    BY DEF TcpLife
  <1>3. /\ Typed(s) /\ Life(s) /\ Agree(c, s, {"io"}) /\ c.run > 0
        /\ OpType(o) /\ o.run = s.run
    BY <1>2, Drops
  <1>4. PICK r \in Results(c, o) :
            \/ o.kind = "retry" /\ c' = Complete(on_retry(s, o, r))
            \/ \E willing \in BOOLEAN :
                \/ o.kind = "resolve"   /\ c' = Complete(on_resolve(s, o, r, willing))
                \/ o.kind = "timer"     /\ c' = Complete(on_connect_timer(s, o, r, willing))
                \/ o.kind = "handshake" /\ c' = Complete(on_handshake(s, o, r, willing))
                \/ o.kind = "write"     /\ c' = Complete(on_write(s, o, r, willing))
                \/ \E choice \in BOOLEAN :
                    \/ o.kind = "read" /\ c' = Complete(on_read(s, o, r, choice, willing))
                    \/ o.kind = "idle" /\ c' = Complete(on_idle_timer(s, o, r, choice, willing))
                    \/ o.kind = "connect" /\ c' = Complete(on_connect(s, o, r, choice, willing))
    BY <1>1
  <1> HIDE DEF s
  <1>5. r \in {"ok", "err", "aborted"}
    BY DEF Results
  <1>6. /\ s.run > 0 /\ s.kind = "tcp" /\ (s.stopping => s.stop_seq = s.run)
    <2>1. s.run = c.run /\ s.kind = c.kind /\ s.stopping = c.stopping /\ s.stop_seq = c.stop_seq
      BY <1>3 DEF Agree, Fields
    <2> QED
      BY <1>2, <1>3, <2>1
  <1>7. \E t : Handles(s, t) /\ c' = Complete(t)
    <2>1. CASE o.kind = "retry" /\ c' = Complete(on_retry(s, o, r))
      BY <1>3, <2>1, TcpReads DEF Handles
    <2>2. ASSUME NEW willing \in BOOLEAN,
                 \/ o.kind = "resolve"   /\ c' = Complete(on_resolve(s, o, r, willing))
                 \/ o.kind = "timer"     /\ c' = Complete(on_connect_timer(s, o, r, willing))
                 \/ o.kind = "handshake" /\ c' = Complete(on_handshake(s, o, r, willing))
                 \/ o.kind = "write"     /\ c' = Complete(on_write(s, o, r, willing))
          PROVE  \E t : Handles(s, t) /\ c' = Complete(t)
      <3>1. /\ Handles(s, on_resolve(s, o, r, willing))
            /\ Handles(s, on_connect_timer(s, o, r, willing))
            /\ Handles(s, on_handshake(s, o, r, willing))
        BY <1>3, <1>5, TcpAttempts, SMT DEF Handles
      <3>2. Handles(s, on_write(s, o, r, willing))
        BY <1>3, TcpWritten DEF Handles
      <3> QED
        BY <2>2, <3>1, <3>2
    <2>3. ASSUME NEW willing \in BOOLEAN, NEW choice \in BOOLEAN,
                 \/ o.kind = "read" /\ c' = Complete(on_read(s, o, r, choice, willing))
                 \/ o.kind = "idle" /\ c' = Complete(on_idle_timer(s, o, r, choice, willing))
                 \/ o.kind = "connect" /\ c' = Complete(on_connect(s, o, r, choice, willing))
          PROVE  \E t : Handles(s, t) /\ c' = Complete(t)
      <3>1. /\ Handles(s, on_read(s, o, r, choice, willing))
            /\ Handles(s, on_idle_timer(s, o, r, choice, willing))
        BY <1>3, TcpReads DEF Handles
      <3>2. Handles(s, on_connect(s, o, r, choice, willing))
        BY <1>3, TcpAttempts
      <3> QED
        BY <2>3, <3>1, <3>2
    <2> QED
      BY <1>4, <2>1, <2>2, <2>3
  <1>8. PICK t : Handles(s, t) /\ c' = Complete(t)
    BY <1>7
  <1>9. Typed(t) /\ Life(t) /\ (t.stopping => t.stop_seq = t.run) /\ t.kind = "tcp"
    BY <1>3, <1>6, <1>8, TcpHandles
  <1>10. Typed(c') /\ Life(c') /\ Finished(c') /\ Agree(t, c', {"cleanup_done"})
    BY <1>8, <1>9, Completes
  <1>11. c'.stopping = t.stopping /\ c'.stop_seq = t.stop_seq /\ c'.run = t.run /\ c'.kind = t.kind
    BY <1>10 DEF Agree, Fields
  <1> QED
    BY <1>9, <1>10, <1>11 DEF TcpLife

\* Every step keeps the life cycle.
LEMMA TcpSteps ==
  ASSUME Numbers, TcpLife(c), Next
  PROVE  TcpLife(c')
  <1>1. CASE start
    BY <1>1, TcpStarts
  <1>2. CASE stop
    BY <1>2, TcpStopsNow
  <1>3. ASSUME NEW n \in Sizes, Admit(n) \/ TryAdmit(n) PROVE TcpLife(c')
    <2>1. /\ Typed(c) /\ Life(c) /\ Admissible(c) /\ Used(c) < MaxWrites /\ n \in Nat
          /\ DOMAIN c = Fields /\ c.queue + n \in Nat /\ c.inflight + n \in Nat
      <3>1. n \in Nat
        BY ClientAssumption
      <3>2. Typed(c) /\ Life(c) /\ Admissible(c) /\ Used(c) < MaxWrites
        BY <1>3 DEF TcpLife, Admit, TryAdmit
      <3>3. DOMAIN c = Fields /\ c.queue \in Nat /\ c.inflight \in Nat
        BY <3>2 DEF Typed
      <3> QED
        BY <3>1, <3>2, <3>3, SMT
    <2>2. \E what \in {"write", "try"} : \E s :
              /\ Agree(c, s, {"queue", "inflight"}) /\ s.queue \in Nat /\ s.inflight \in Nat
              /\ c' = Accept(s, what, n)
      <3>1. CASE Admit(n)
        <4> DEFINE s == [c EXCEPT !.inflight = @ + n]
        <4>1. Agree(c, s, {"queue", "inflight"}) /\ s.queue = c.queue /\ s.inflight = c.inflight + n
          BY <2>1 DEF Agree, Fields
        <4>2. c' = Accept(s, "write", n)
          BY <3>1 DEF Admit
        <4> HIDE DEF s
        <4> QED
          BY <2>1, <4>1, <4>2 DEF Typed
      <3>2. CASE TryAdmit(n)
        <4> DEFINE s == [c EXCEPT !.queue = @ + n]
        <4>1. Agree(c, s, {"queue", "inflight"}) /\ s.queue = c.queue + n /\ s.inflight = c.inflight
          BY <2>1 DEF Agree, Fields
        <4>2. c' = Accept(s, "try", n)
          BY <3>2 DEF TryAdmit
        <4> HIDE DEF s
        <4> QED
          BY <2>1, <4>1, <4>2 DEF Typed
      <3> QED
        BY <1>3, <3>1, <3>2
    <2>3. /\ Typed(c') /\ Life(c') /\ Finished(c')
          /\ c'.stopping = c.stopping /\ c'.run = c.run /\ c'.stop_seq = c.stop_seq
          /\ c'.kind = c.kind
      BY <2>1, <2>2, Accepts, SMT
    <2> QED
      BY <2>3 DEF TcpLife
  <1>4. CASE RunPosted
    BY <1>4, TcpRuns
  <1>5. CASE RunCompletion
    BY <1>5, TcpCompletes
  <1> QED
    BY <1>1, <1>2, <1>3, <1>4, <1>5
       DEF Next, Call, write_copy, write_move, write_shared, try_write_copy, try_write_move,
           try_write_shared

\* The constructor's Impl.
LEMMA TcpBegins ==
  ASSUME Init
  PROVE  TcpLife(c)
  <1>1. PICK tls \in BOOLEAN, max \in MaxRetries : c = Fresh("tcp", tls, max)
    BY SMT DEF Init
  <1>2. DOMAIN c = Fields
    BY <1>1 DEF Fresh, Fields
  <1>3. /\ c.kind = "tcp" /\ c.run = 0 /\ c.stop_seq = 0 /\ c.conn = 0 /\ ~c.stopping
        /\ ~c.cleanup_finished /\ ~c.cleanup_done /\ c.io = {} /\ c.posts = <<>>
        /\ c.tx = <<>> /\ c.pending = <<>> /\ c.active = <<>>
        /\ c.queue = 0 /\ c.pend = 0 /\ c.inflight = 0
        /\ c.req = [w \in Writes |-> NoRequest]
    BY <1>1 DEF Fresh
  <1>4. NoRequest \in Requests /\ <<>> \in Seq(Writes) /\ <<>> \in Seq(Handlers) /\ Len(<<>>) = 0
    BY SMT DEF NoRequest, Requests
  <1>5. Typed(c)
    BY <1>2, <1>3, <1>4, SMT DEF Typed
  <1>6. Life(c) /\ Finished(c)
    BY <1>3, <1>4, SMT DEF Life, Finished
  <1> QED
    BY <1>3, <1>5, <1>6 DEF TcpLife

\* The library on sums, for its facts; the names of both modules stay apart.
Lib == INSTANCE SumProofs

\* What the proofs above use of sums and of sets of writes is true.
LEMMA Counted == Numbers
  <1>1. \A b : Total(b) = Lib!Total(b)
    BY DEF Total, Lib!Total
  <1>2. \A U : Cardinality(U) = Lib!Cardinality(U)
    BY DEF Cardinality, Lib!Cardinality
  <1>3. \A b \in Seq(Nat) : Total(b) \in Nat
    BY <1>1, Lib!TotalType
  <1>4. MaxWrites \in Nat /\ Writes = 1 .. MaxWrites
    BY ClientAssumption DEF Writes
  <1>5. \A U \in SUBSET Writes : Cardinality(U) \in Nat
    BY <1>2, <1>4, Lib!Subsets
  <1> QED
    BY <1>3, <1>5 DEF Numbers

\* The invariant, of the state.
TcpLifeInv == TcpLife(c)

\* The TCP client's life cycle holds of every state.
THEOREM TcpLives == Spec => []TcpLifeInv
  <1>1. Init => TcpLifeInv
    BY TcpBegins DEF TcpLifeInv
  <1>2. TcpLifeInv /\ [Next]_c => TcpLifeInv'
    BY Counted, TcpSteps DEF TcpLifeInv
  <1> QED
    BY <1>1, <1>2, PTL DEF Spec

\* stop() of the TCP client ends, and leaves nothing (stop, perform_stop_cleanup and
\* the counting of pending_io_), whatever was outstanding when it was called.
THEOREM TcpStopEnds == Spec => []StopEnds
  <1>1. TcpLifeInv => StopEnds
    BY DEF TcpLifeInv, TcpLife, Life, Finished, Wound, StopEnds, Over
  <1> QED
    BY <1>1, TcpLives, PTL
=============================================================================
