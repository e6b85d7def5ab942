------------------------ MODULE ServerChannelProofs ------------------------
(***************************************************************************)
(* The inductive invariant of the two stream servers, and the properties   *)
(* of ServerChannel that follow from it, for any number of clients,        *)
(* sessions and runs.                                                      *)
(*                                                                         *)
(* The invariant is a predicate on the server's record, so that it can be  *)
(* stated of the records between the calls a handler makes.  Its parts:    *)
(* what a field holds (Typed), how the flags of the life cycle go together *)
(* (Life, Dispatched), each session (Sessions), what is on the way to the  *)
(* strands (Retires, Cleans), the accept loop (Armed, Listens), the        *)
(* current client (Current) and the totals (Sum).                          *)
(***************************************************************************)
EXTENDS TcpServer, UdsServer, TLAPS

\* Most steps are first-order; those that need arithmetic, sequences or records of
\* numbers cite SMT.
USE Zenon

-----------------------------------------------------------------------------
(* Queues of posted handlers.                                              *)

\* q holds a member of X; and at most one.
In(q, X) == \E i \in 1 .. Len(q) : q[i] \in X
Once(q, X) == \A i, j \in 1 .. Len(q) : q[i] \in X /\ q[j] \in X => i = j

\* A handler that is posted goes to the end.
LEMMA AppendIn ==
  ASSUME NEW S, NEW q \in Seq(S), NEW e \in S, NEW X
  PROVE  /\ In(Append(q, e), X) <=> In(q, X) \/ e \in X
         /\ Once(q, X) /\ (e \in X => ~In(q, X)) => Once(Append(q, e), X)
         /\ q # <<>> => Head(Append(q, e)) = Head(q)
  <1> DEFINE t == Append(q, e)
             n == Len(q)
  <1>1. /\ n \in Nat /\ Len(t) = n + 1 /\ t[n + 1] = e
        /\ \A i \in 1 .. n : t[i] = q[i]
    BY SMT
  <1>2. q # <<>> => n > 0
    BY SMT
  <1>3. q # <<>> => Head(t) = Head(q)
    BY <1>1, <1>2, SMT
  <1> HIDE DEF t, n
  <1>4. \A i : i \in 1 .. n + 1 <=> i \in 1 .. n \/ i = n + 1
    BY <1>1, SMT
  <1>5. In(t, X) <=> In(q, X) \/ e \in X
    BY <1>1, <1>4 DEF In, n
  <1>6. ASSUME Once(q, X), e \in X => ~In(q, X)  PROVE Once(t, X)
    BY <1>1, <1>4, <1>6 DEF Once, In, n
  <1> QED
    BY <1>3, <1>5, <1>6 DEF t

\* The handler that runs was the first.
LEMMA TailIn ==
  ASSUME NEW S, NEW q \in Seq(S), q # <<>>, NEW X
  PROVE  /\ Tail(q) \in Seq(S) /\ Head(q) \in S
         /\ In(q, X) <=> In(Tail(q), X) \/ Head(q) \in X
         /\ Once(q, X) => Once(Tail(q), X) /\ (Head(q) \in X => ~In(Tail(q), X))
  <1> DEFINE t == Tail(q)
             n == Len(t)
  <1>1. /\ n \in Nat /\ Len(q) = n + 1 /\ t \in Seq(S) /\ Head(q) = q[1] /\ q[1] \in S
        /\ \A i \in 1 .. n : t[i] = q[i + 1]
    BY SMT
  <1> HIDE DEF t, n
  <1>2. \A i \in 1 .. n + 1 : i = 1 \/ (i - 1 \in 1 .. n /\ (i - 1) + 1 = i)
    BY <1>1, SMT
  <1>3. \A i \in 1 .. n : i + 1 \in 1 .. n + 1 /\ i + 1 # 1
    BY <1>1, SMT
  <1>4. 1 \in 1 .. n + 1
    BY <1>1, SMT
  <1>5. In(q, X) <=> In(t, X) \/ q[1] \in X
    <2>1. ASSUME In(q, X) PROVE In(t, X) \/ q[1] \in X
      <3>1. PICK i \in 1 .. n + 1 : q[i] \in X
        BY <2>1, <1>1 DEF In
      <3> QED
        BY <3>1, <1>1, <1>2 DEF In, n
    <2>2. ASSUME In(t, X) PROVE In(q, X)
      BY <2>2, <1>1, <1>3 DEF In, n
    <2>3. ASSUME q[1] \in X PROVE In(q, X)
      BY <2>3, <1>1, <1>4 DEF In
    <2> QED
      BY <2>1, <2>2, <2>3
  <1>6. ASSUME Once(q, X) PROVE Once(t, X) /\ (q[1] \in X => ~In(t, X))
    <2>1. \A i, j \in 1 .. n + 1 : q[i] \in X /\ q[j] \in X => i = j
      BY <1>6, <1>1 DEF Once
    <2>2. \A i, j \in 1 .. n : t[i] \in X /\ t[j] \in X => i + 1 = j + 1
      BY <2>1, <1>1, <1>3
    <2>3. Once(t, X)
      BY <2>2, <1>1, SMT DEF Once, n
    <2>4. ASSUME q[1] \in X, In(t, X) PROVE FALSE
      BY <2>4, <2>1, <1>1, <1>3, <1>4 DEF In, n
    <2> QED
      BY <2>3, <2>4
  <1> QED
    BY <1>1, <1>5, <1>6 DEF t

\* An empty queue.
LEMMA EmptyIn == ASSUME NEW X PROVE ~In(<<>>, X) /\ Once(<<>>, X)
  BY SMT DEF In, Once

-----------------------------------------------------------------------------
(* The invariant.                                                          *)

Fields ==
    {"kind", "run", "state", "stopping", "run_dispatched", "cleanup_started",
     "cleanup_done", "acceptor", "accepting", "timers", "publishing", "posts", "next",
     "sessions", "retiring", "current", "remaining", "sess", "absorbed", "counted", "writer"}

SessionFields ==
    {"run", "alive", "closing", "cleanup_done", "on_close", "reading", "callback", "told",
     "posts", "count"}

Items == {"start", "close", "stop"}
Handler ==
    [what : {"bind", "connected", "gone", "retired", "request", "cleanup", "accept"},
     k : Ids \cup {0}, run : Nat]

\* The handlers of one kind, of a session or of the server itself (0); the ones that
\* begin to accept in a run; and the ones that clean up.
Of(what, k) == {p \in Handler : p.what = what /\ p.k = k}
Accepts(run) == {p \in Handler : p.what = "accept" /\ p.run = run}
Cleaning == {p \in Handler : p.what = "cleanup"}

\* The handlers that bind in a run, and the ones of later runs.
Binds(run) == {p \in Handler : p.what = "bind" /\ p.run = run}
Later(run) == {p \in Handler : p.run > run}

SessionType(q) ==
    /\ DOMAIN q = SessionFields /\ q.run \in Nat /\ q.count \in Nat /\ q.posts \in Seq(Items)
    /\ q.callback \in {"none", "data", "connect", "disconnect"}

Typed(s) ==
    /\ DOMAIN s = Fields
    /\ s.run \in Nat /\ s.next \in Nat \ {0} /\ s.writer \in Ids \cup {0}
    /\ s.sessions \subseteq Ids /\ s.retiring \subseteq Ids /\ s.remaining \in Nat
    /\ s.absorbed \in Nat /\ s.counted \in Nat
    /\ s.posts \in Seq(Handler)
    /\ DOMAIN s.sess = Ids /\ \A k \in Ids : SessionType(s.sess[k])

\* Before its cleanup a server retires no session, and after it the server has no
\* other.  Until a run is dispatched to the strand nothing has been accepted.
Life(s) ==
    /\ s.cleanup_done => s.cleanup_started /\ s.retiring = {}
    /\ s.cleanup_started =>
        /\ s.stopping /\ s.sessions = {} /\ s.publishing = 0 /\ ~s.acceptor
        /\ s.remaining = Cardinality(s.retiring)
        /\ s.retiring = {} => s.cleanup_done
    /\ ~s.cleanup_started => s.retiring = {}
    /\ s.publishing # 0 => s.publishing = s.run /\ s.next \in Ids
    /\ ~s.run_dispatched =>
        s.sessions = {} /\ s.retiring = {} /\ s.publishing = 0 /\ ~s.acceptor
    /\ s.run = 0 => ~s.run_dispatched

\* Handlers and timers are of this run or an earlier one, and the ones that bind
\* only of a run that was dispatched.  What goes or retires is a session.
Dispatched(s) ==
    /\ ~In(s.posts, Later(s.run)) /\ (In(s.posts, Binds(s.run)) => s.run_dispatched)
    /\ ~In(s.posts, Of("gone", 0)) /\ ~In(s.posts, Of("retired", 0))
    /\ \A t \in s.timers :
        t.run \in 0 .. s.run /\ (t.what = "bind" /\ t.run = s.run => s.run_dispatched)

\* A session that is closed and calls nobody any more.
Dead(q) == q.cleanup_done /\ q.callback = "none"

\* A session by itself.  Until its start has run nothing else has happened to it.
Single(q) ==
    /\ q.cleanup_done => ~q.alive
    /\ q.on_close => q.alive
    /\ q.callback = "disconnect" => q.cleanup_done
    /\ In(q.posts, {"start"}) =>
        /\ Head(q.posts) = "start" /\ Once(q.posts, {"start"})
        /\ q.alive /\ q.told = "nothing" /\ ~q.reading /\ q.callback = "none"
    /\ Once(q.posts, {"stop"})

\* Its user has been told of it, if it is open and its run goes on.
Informed(s, q) ==
    q.alive /\ ~Fenced(s, q.run) =>
        ~q.closing /\ (~In(q.posts, {"start"}) => q.told = "connected")

\* The sessions that are not held are dead or not accepted yet.
Sessions(s) ==
    \A k \in Ids :
        /\ Single(s.sess[k]) /\ Informed(s, s.sess[k]) /\ s.sess[k].run <= s.run
        /\ k >= s.next => s.sess[k] = NoSession
        /\ k \in Held(s) => k < s.next /\ s.sess[k].run = s.run
        /\ k \notin Held(s) => s.sess[k] = NoSession \/ Dead(s.sess[k])

\* A session that is retired has its stop posted, or the answer to it: one of the
\* two, once.  Nothing is announced of a session before it is dead.
Retires(s) ==
    \A k \in Ids :
        /\ In(s.sess[k].posts, {"stop"}) =>
              k \in s.retiring /\ ~In(s.posts, Of("retired", k))
        /\ k \in s.retiring =>
              In(s.sess[k].posts, {"stop"}) \/ In(s.posts, Of("retired", k))
        /\ In(s.posts, Of("retired", k)) => k \in s.retiring /\ Dead(s.sess[k])
        /\ Once(s.posts, Of("retired", k))
        /\ In(s.posts, Of("gone", k)) => Dead(s.sess[k])

\* A server that is stopping has its cleanup posted, once, or begun.  It is posted
\* when the run was dispatched.
Cleans(s) ==
    /\ In(s.posts, Cleaning) <=> s.stopping /\ ~s.cleanup_started
    /\ Once(s.posts, Cleaning)
    /\ s.stopping /\ ~s.cleanup_started => s.run_dispatched

\* An accept is outstanding or about to be.
Armed(s) ==
    s.acceptor /\ ~s.stopping =>
        \/ s.run \in s.accepting \/ s.publishing = s.run
        \/ \E t \in s.timers : t.what = "accept" /\ t.run = s.run
        \/ In(s.posts, Accepts(s.run))

Listens(s) ==
    /\ \/ s.state \in {"Listening", "Connected"} \/ s.sessions # {} \/ s.publishing # 0
       => s.acceptor \/ s.stopping
    /\ s.cleanup_done \/ s.run = 0 => s.state \notin {"Listening", "Connected"}

\* The current client is one of the clients, if there is any.
Current(s) ==
    /\ s.kind = "tcp" => s.current \in s.sessions \/ (s.sessions = {} /\ s.current = 0)
    /\ s.kind = "uds" => s.current = 0 /\ s.state # "Connected"
    /\ s.kind \in {"tcp", "uds"}
    /\ s.state = "Connected" /\ ~s.stopping => s.sessions # {}

\* What is used of sums and of the number of sessions in a set.  Theorem Numbers, in the
\* last section, proves it: until there the provers need no theory of either.
Arithmetic ==
    /\ \A q \in Seq(Nat) : Total(q) \in Nat
    /\ \A q \in Seq(Nat) : (\A i \in 1 .. Len(q) : q[i] = 0) => Total(q) = 0
    /\ \A q, r, u \in Seq(Nat) :
          Len(r) = Len(q) /\ Len(u) = Len(q) /\ (\A i \in 1 .. Len(q) : u[i] = q[i] + r[i])
          => Total(u) = Total(q) + Total(r)
    /\ \A q \in Seq(Nat) : \A i \in 1 .. Len(q) :
          [q EXCEPT ![i] = 0] \in Seq(Nat) /\ Total(q) = Total([q EXCEPT ![i] = 0]) + q[i]
    /\ \A X \in SUBSET Ids :
          /\ Cardinality(X) \in Nat /\ (Cardinality(X) = 0 <=> X = {})
          /\ \A k \in X : Cardinality(X \ {k}) = Cardinality(X) - 1
          /\ Total([k \in Ids |-> IF k \in X THEN 1 ELSE 0]) = Cardinality(X)

\* What the held sessions counted, and that nothing is missing from the totals.
Counts(s) == [k \in Ids |-> IF k \in Held(s) THEN s.sess[k].count ELSE 0]
Sum(s) == Arithmetic /\ s.absorbed + Total(Counts(s)) = s.counted

Base(s) ==
    /\ Typed(s) /\ Life(s) /\ Dispatched(s) /\ Sessions(s) /\ Retires(s)
    /\ Listens(s) /\ Current(s) /\ Sum(s)
Good(s) == Base(s) /\ Cleans(s) /\ Armed(s)

\* t has the fields of s and differs from it at most in fs; at most in session k.
Agree(s, t, fs) == DOMAIN t = Fields /\ \A f \in Fields \ fs : t[f] = s[f]
Beside(s, t, k) == DOMAIN t.sess = Ids /\ \A j \in Ids : j # k => t.sess[j] = s.sess[j]

\* The fields that each part of the invariant is about.
OfTyped ==
    {"run", "next", "writer", "sessions", "retiring", "remaining", "absorbed", "counted",
     "posts", "sess"}
OfLife ==
    {"run", "stopping", "run_dispatched", "cleanup_started", "cleanup_done", "acceptor",
     "publishing", "next", "sessions", "retiring", "remaining"}
OfDispatched == {"run", "run_dispatched", "posts", "timers"}
OfSessions == {"run", "stopping", "sess", "next", "sessions", "retiring"}
OfRetires == {"sess", "retiring", "posts"}
OfCleans == {"posts", "stopping", "cleanup_started", "run_dispatched"}
OfArmed == {"acceptor", "stopping", "run", "accepting", "publishing", "timers", "posts"}
OfListens == {"state", "sessions", "publishing", "acceptor", "stopping", "cleanup_done", "run"}
OfCurrent == {"kind", "sessions", "current", "state", "stopping"}
OfSum == {"absorbed", "counted", "sess", "sessions", "retiring"}

\* A change of other fields leaves a part true.
LEMMA Frames ==
  ASSUME NEW s, NEW t, NEW fs, Agree(s, t, fs)
  PROVE  /\ Typed(s) /\ fs \cap OfTyped = {} => Typed(t)
         /\ Life(s) /\ fs \cap OfLife = {} => Life(t)
         /\ Dispatched(s) /\ fs \cap OfDispatched = {} => Dispatched(t)
         /\ Sessions(s) /\ fs \cap OfSessions = {} => Sessions(t)
         /\ Retires(s) /\ fs \cap OfRetires = {} => Retires(t)
         /\ Cleans(s) /\ fs \cap OfCleans = {} => Cleans(t)
         /\ Armed(s) /\ fs \cap OfArmed = {} => Armed(t)
         /\ Listens(s) /\ fs \cap OfListens = {} => Listens(t)
         /\ Current(s) /\ fs \cap OfCurrent = {} => Current(t)
         /\ Sum(s) /\ fs \cap OfSum = {} => Sum(t)
  <1>1. ASSUME Typed(s), fs \cap OfTyped = {} PROVE Typed(t)
    <2>1. /\ t.run = s.run /\ t.next = s.next /\ t.writer = s.writer /\ t.sessions = s.sessions
          /\ t.retiring = s.retiring /\ t.remaining = s.remaining /\ t.absorbed = s.absorbed
          /\ t.counted = s.counted /\ t.posts = s.posts /\ t.sess = s.sess /\ DOMAIN t = Fields
      BY <1>1 DEF Agree, OfTyped, Fields
    <2> QED
      BY <1>1, <2>1 DEF Typed
  <1>2. ASSUME Life(s), fs \cap OfLife = {} PROVE Life(t)
    <2>1. /\ t.run = s.run /\ t.stopping = s.stopping /\ t.run_dispatched = s.run_dispatched
          /\ t.cleanup_started = s.cleanup_started /\ t.cleanup_done = s.cleanup_done
          /\ t.acceptor = s.acceptor /\ t.publishing = s.publishing /\ t.next = s.next
          /\ t.sessions = s.sessions /\ t.retiring = s.retiring /\ t.remaining = s.remaining
      BY <1>2 DEF Agree, OfLife, Fields
    <2> QED
      BY <1>2, <2>1 DEF Life
  <1>3. ASSUME Sessions(s), fs \cap OfSessions = {} PROVE Sessions(t)
    <2>1. /\ t.run = s.run /\ t.stopping = s.stopping /\ t.sess = s.sess /\ t.next = s.next
          /\ t.sessions = s.sessions /\ t.retiring = s.retiring
      BY <1>3 DEF Agree, OfSessions, Fields
    <2> QED
      BY <1>3, <2>1 DEF Sessions, Informed, Fenced, Held
  <1>4. ASSUME Retires(s), fs \cap OfRetires = {} PROVE Retires(t)
    <2>1. t.sess = s.sess /\ t.retiring = s.retiring /\ t.posts = s.posts
      BY <1>4 DEF Agree, OfRetires, Fields
    <2> QED
      BY <1>4, <2>1 DEF Retires
  <1>5. ASSUME Cleans(s), fs \cap OfCleans = {} PROVE Cleans(t)
    <2>1. /\ t.posts = s.posts /\ t.stopping = s.stopping
          /\ t.cleanup_started = s.cleanup_started /\ t.run_dispatched = s.run_dispatched
      BY <1>5 DEF Agree, OfCleans, Fields
    <2> QED
      BY <1>5, <2>1 DEF Cleans
  <1>6. ASSUME Armed(s), fs \cap OfArmed = {} PROVE Armed(t)
    <2>1. /\ t.acceptor = s.acceptor /\ t.stopping = s.stopping /\ t.run = s.run
          /\ t.accepting = s.accepting /\ t.publishing = s.publishing /\ t.timers = s.timers
          /\ t.posts = s.posts
      BY <1>6 DEF Agree, OfArmed, Fields
    <2> QED
      BY <1>6, <2>1 DEF Armed
  <1>7. ASSUME Listens(s), fs \cap OfListens = {} PROVE Listens(t)
    <2>1. /\ t.state = s.state /\ t.sessions = s.sessions /\ t.publishing = s.publishing
          /\ t.acceptor = s.acceptor /\ t.stopping = s.stopping
          /\ t.cleanup_done = s.cleanup_done /\ t.run = s.run
      BY <1>7 DEF Agree, OfListens, Fields
    <2> QED
      BY <1>7, <2>1 DEF Listens
  <1>8. ASSUME Current(s), fs \cap OfCurrent = {} PROVE Current(t)
    <2>1. /\ t.kind = s.kind /\ t.sessions = s.sessions /\ t.current = s.current
          /\ t.state = s.state /\ t.stopping = s.stopping
      BY <1>8 DEF Agree, OfCurrent, Fields
    <2> QED
      BY <1>8, <2>1 DEF Current
  <1>9. ASSUME Sum(s), fs \cap OfSum = {} PROVE Sum(t)
    <2>1. /\ t.absorbed = s.absorbed /\ t.counted = s.counted /\ t.sess = s.sess
          /\ t.sessions = s.sessions /\ t.retiring = s.retiring
      BY <1>9 DEF Agree, OfSum, Fields
    <2> QED
      BY <1>9, <2>1 DEF Sum, Counts, Held
  <1>10. ASSUME Dispatched(s), fs \cap OfDispatched = {} PROVE Dispatched(t)
    <2>1. /\ t.run = s.run /\ t.run_dispatched = s.run_dispatched /\ t.posts = s.posts
          /\ t.timers = s.timers
      BY <1>10 DEF Agree, OfDispatched, Fields
    <2> QED
      BY <1>10, <2>1 DEF Dispatched
  <1> QED
    BY <1>1, <1>2, <1>3, <1>4, <1>5, <1>6, <1>7, <1>8, <1>9, <1>10, SMT

-----------------------------------------------------------------------------
(* The accept loop.                                                        *)

\* Accepts and timers come and go.
LEMMA LooseFields ==
  ASSUME NEW s, NEW t, Base(s), Cleans(s), Agree(s, t, {"accepting", "timers"}),
         \A x \in t.timers : x \in s.timers \/ (x.run = s.run /\ x.what = "accept")
                                \/ (x.run = s.run /\ s.run_dispatched)
  PROVE  Base(t) /\ Cleans(t)
  <1>1. /\ t.run = s.run /\ t.run_dispatched = s.run_dispatched /\ t.posts = s.posts
        /\ s.run \in Nat
    BY DEF Agree, Fields, Base, Typed
  <1>2. Dispatched(t)
    BY <1>1, SMT DEF Base, Dispatched
  <1> QED
    BY <1>2, Frames, SMT
    DEF Base, OfTyped, OfLife, OfSessions, OfRetires, OfCleans, OfListens, OfCurrent, OfSum

\* do_accept arms the loop.
LEMMA DoAccept ==
  ASSUME NEW s, Base(s), Cleans(s)
  PROVE  Good(do_accept(s))
  <1> DEFINE t == do_accept(s)
  <1>1. DOMAIN s = Fields
    BY DEF Base, Typed
  <1>2. Agree(s, t, {"accepting", "timers"}) /\ t.timers = s.timers
    BY <1>1 DEF do_accept, Agree, Fields
  <1>3. Armed(t)
    BY <1>1 DEF do_accept, Armed, Fields
  <1> QED
    BY <1>2, <1>3, LooseFields DEF Good

\* A connection that arrives, for a run that goes on or for an earlier one.
LEMMA OnAccepted ==
  ASSUME NEW s, Good(s), NEW run, s.publishing = 0, s.acceptor,
         s.next <= MaxSessions \/ Cardinality(s.sessions) >= MaxClients
  PROVE  Good(on_accepted(s, run))
  <1> DEFINE d == [s EXCEPT !.accepting = @ \ {run}]
             t == [d EXCEPT !.publishing = run]
  <1>1. DOMAIN s = Fields /\ s.next \in Nat \ {0} /\ s.run \in Nat
    BY DEF Good, Base, Typed
  <1>2. /\ Agree(s, d, {"accepting", "timers"}) /\ d.timers = s.timers
        /\ d.accepting = s.accepting \ {run}
    BY <1>1 DEF Agree, Fields
  <1>3. Base(d) /\ Cleans(d)
    BY <1>2, LooseFields DEF Good
  <1>4. /\ d.run = s.run /\ d.stopping = s.stopping /\ d.acceptor = s.acceptor
        /\ d.publishing = 0 /\ d.posts = s.posts /\ d.sessions = s.sessions /\ d.next = s.next
        /\ DOMAIN d = Fields
    BY <1>2 DEF Agree, Fields
  <1> HIDE DEF d
  <1>5. CASE Fenced(d, run)
    <2>1. Armed(d)
      BY <1>2, <1>4, <1>5 DEF Armed, Fenced, Good
    <2> QED
      BY <1>3, <1>5, <2>1 DEF on_accepted, Good, d
  <1>6. CASE ~Fenced(d, run) /\ Cardinality(d.sessions) >= MaxClients
    BY <1>3, <1>6, DoAccept DEF on_accepted, d
  <1>7. CASE ~Fenced(d, run) /\ ~(Cardinality(d.sessions) >= MaxClients)
    <2>1. run = s.run /\ ~s.stopping /\ d.next \in Ids
      BY <1>1, <1>4, <1>7, ServerAssumption, SMT DEF Fenced, Ids
    <2>2. Agree(d, t, {"publishing"}) /\ t.publishing = run
      BY <1>4 DEF Agree, Fields
    <2>3. /\ t.run = s.run /\ t.stopping = s.stopping /\ t.acceptor = s.acceptor
          /\ t.run_dispatched = d.run_dispatched /\ t.cleanup_started = d.cleanup_started
          /\ t.cleanup_done = d.cleanup_done /\ t.sessions = d.sessions
          /\ t.retiring = d.retiring /\ t.remaining = d.remaining /\ t.next = d.next
          /\ t.state = d.state
      BY <2>2, <1>4 DEF Agree, Fields
    <2> HIDE DEF t
    <2>4. Life(t)
      BY <1>3, <1>4, <2>1, <2>2, <2>3 DEF Life, Base
    <2>5. Listens(t) /\ Armed(t)
      BY <1>3, <1>4, <2>1, <2>2, <2>3 DEF Listens, Base, Armed
    <2>6. Good(t)
      BY <1>3, <2>2, <2>4, <2>5, Frames, SMT
      DEF Good, Base, OfTyped, OfDispatched, OfSessions, OfRetires, OfCleans, OfCurrent, OfSum
    <2> QED
      BY <1>7, <2>6 DEF on_accepted, d, t
  <1> QED
    BY <1>5, <1>6, <1>7

\* An accept that fails, and the timer that repeats it.
LEMMA OnAcceptFailed ==
  ASSUME NEW s, Good(s), NEW run
  PROVE  Good(on_accept_failed(s, run))
  <1> DEFINE d == [s EXCEPT !.accepting = @ \ {run}]
             t == Arm(d, "accept", 0)
  <1>1. DOMAIN s = Fields
    BY DEF Good, Base, Typed
  <1>2. /\ Agree(s, d, {"accepting", "timers"}) /\ d.timers = s.timers
        /\ d.accepting = s.accepting \ {run}
    BY <1>1 DEF Agree, Fields
  <1>3. /\ Agree(d, t, {"accepting", "timers"}) /\ DOMAIN d = Fields
        /\ t.timers = d.timers \cup {[what |-> "accept", n |-> 0, run |-> d.run]}
    BY <1>2 DEF Agree, Fields, Arm
  <1>4. /\ d.run = s.run /\ d.stopping = s.stopping /\ d.acceptor = s.acceptor
        /\ d.publishing = s.publishing /\ d.posts = s.posts /\ t.run = d.run
    BY <1>2, <1>3 DEF Agree, Fields
  <1> HIDE DEF d, t
  <1>5. Base(d) /\ Cleans(d)
    BY <1>2, LooseFields DEF Good
  <1>6. CASE Fenced(d, run)
    <2>1. Armed(d)
      BY <1>2, <1>4, <1>6 DEF Armed, Fenced, Good
    <2> QED
      BY <1>5, <1>6, <2>1 DEF on_accept_failed, Good, d
  <1>7. CASE ~Fenced(d, run)
    <2>1. Base(t) /\ Cleans(t)
      BY <1>3, <1>5, LooseFields, SMT
    <2>2. [what |-> "accept", n |-> 0, run |-> d.run] \in t.timers
      BY <1>3
    <2>3. Armed(t)
      BY <1>4, <2>2 DEF Armed
    <2> QED
      BY <1>7, <2>1, <2>3 DEF on_accept_failed, Good, d, t
  <1> QED
    BY <1>6, <1>7

\* A timer that has expired is gone; the loop does not miss one of another run.
LEMMA TimerGone ==
  ASSUME NEW s, Good(s), NEW x \in s.timers, NEW d, d = [s EXCEPT !.timers = @ \ {x}]
  PROVE  /\ Base(d) /\ Cleans(d) /\ d.run = s.run /\ d.stopping = s.stopping
         /\ d.run_dispatched = s.run_dispatched
         /\ x.what # "accept" \/ Fenced(d, x.run) => Good(d)
  <1>1. DOMAIN s = Fields
    BY DEF Good, Base, Typed
  <1>2. Agree(s, d, {"accepting", "timers"}) /\ d.timers = s.timers \ {x}
    BY <1>1 DEF Agree, Fields
  <1>3. /\ d.run = s.run /\ d.stopping = s.stopping /\ d.acceptor = s.acceptor
        /\ d.publishing = s.publishing /\ d.posts = s.posts /\ d.accepting = s.accepting
        /\ d.run_dispatched = s.run_dispatched
    BY <1>1 DEF Fields
  <1>4. Base(d) /\ Cleans(d)
    BY <1>2, LooseFields DEF Good
  <1>5. x.what # "accept" \/ Fenced(d, x.run) => Armed(d)
    BY <1>2, <1>3 DEF Armed, Fenced, Good
  <1> QED
    BY <1>3, <1>4, <1>5 DEF Good

\* attempt_port_binding opens the acceptor, arms a retry or gives up.
LEMMA Attempt ==
  ASSUME NEW s, Good(s), s.run_dispatched, NEW n, NEW r
  PROVE  Good(attempt_port_binding(s, n, r))
  <1> DEFINE e == [s EXCEPT !.acceptor = TRUE, !.state = "Listening"]
             t == Arm(s, "bind", n + 1)
             f == [s EXCEPT !.state = "Error"]
  <1>1. DOMAIN s = Fields
    BY DEF Good, Base, Typed
  <1>2. CASE s.stopping
    BY <1>2 DEF attempt_port_binding
  <1>3. ASSUME ~s.stopping PROVE Good(do_accept(e))
    <2>1. Agree(s, e, {"acceptor", "state"}) /\ e.acceptor /\ e.state = "Listening"
      BY <1>1 DEF Agree, Fields
    <2>2. /\ e.run = s.run /\ e.stopping = s.stopping /\ e.run_dispatched = s.run_dispatched
          /\ e.cleanup_started = s.cleanup_started /\ e.cleanup_done = s.cleanup_done
          /\ e.publishing = s.publishing /\ e.next = s.next /\ e.sessions = s.sessions
          /\ e.retiring = s.retiring /\ e.remaining = s.remaining /\ e.kind = s.kind
          /\ e.current = s.current
      BY <1>1 DEF Fields
    <2> HIDE DEF e
    <2>3. Life(e)
      BY <1>3, <2>2 DEF Life, Good, Base
    <2>4. Listens(e) /\ Current(e)
      BY <1>3, <2>1, <2>2 DEF Listens, Current, Life, Good, Base
    <2>5. Base(e) /\ Cleans(e)
      BY <2>1, <2>3, <2>4, Frames, SMT
      DEF Good, Base, OfTyped, OfDispatched, OfSessions, OfRetires, OfCleans, OfSum
    <2> QED
      BY <2>5, DoAccept
  <1>4. Good(t)
    <2>1. /\ Agree(s, t, {"accepting", "timers"})
          /\ t.timers = s.timers \cup {[what |-> "bind", n |-> n + 1, run |-> s.run]}
      BY <1>1 DEF Agree, Fields, Arm
    <2>2. /\ t.run = s.run /\ t.stopping = s.stopping /\ t.acceptor = s.acceptor
          /\ t.publishing = s.publishing /\ t.posts = s.posts /\ t.accepting = s.accepting
      BY <1>1 DEF Fields, Arm
    <2> HIDE DEF t
    <2>3. Base(t) /\ Cleans(t)
      BY <2>1, LooseFields, SMT DEF Good
    <2>4. Armed(t)
      BY <2>1, <2>2 DEF Armed, Good
    <2> QED
      BY <2>3, <2>4 DEF Good
  <1>5. Good(f)
    <2>1. Agree(s, f, {"state"}) /\ f.state = "Error"
      BY <1>1 DEF Agree, Fields
    <2>2. /\ f.run = s.run /\ f.stopping = s.stopping /\ f.cleanup_done = s.cleanup_done
          /\ f.publishing = s.publishing /\ f.sessions = s.sessions /\ f.kind = s.kind
          /\ f.current = s.current /\ f.acceptor = s.acceptor
      BY <1>1 DEF Fields
    <2> HIDE DEF f
    <2>3. Listens(f) /\ Current(f)
      BY <2>1, <2>2 DEF Listens, Current, Good, Base
    <2> QED
      BY <2>1, <2>3, Frames, SMT
      DEF Good, Base, OfTyped, OfLife, OfDispatched, OfSessions, OfRetires, OfCleans, OfArmed, OfSum
  <1>6. attempt_port_binding(s, n, r) \in {s, do_accept(e), t, f}
    BY DEF attempt_port_binding
  <1> QED
    BY <1>2, <1>3, <1>4, <1>5, <1>6 DEF attempt_port_binding

\* A session enters the map.
LEMMA Publishes ==
  ASSUME Good(v), Publish
  PROVE  Good(v')
  <1> DEFINE k == v.next
             new == [NoSession EXCEPT !.run = v.publishing, !.alive = TRUE,
                                      !.on_close = TRUE, !.posts = <<"start">>]
             d == [v EXCEPT !.next = @ + 1, !.sessions = @ \cup {k}, !.publishing = 0,
                            !.current = IF v.kind = "tcp" THEN k ELSE 0, !.sess[k] = new]
  <1>1. /\ DOMAIN v = Fields /\ k \in Nat \ {0} /\ v.run \in Nat /\ DOMAIN v.sess = Ids
        /\ Typed(v) /\ Life(v) /\ Sessions(v) /\ Retires(v) /\ Listens(v) /\ Current(v) /\ Sum(v)
    BY DEF Good, Base, Typed
  <1>2. /\ v.publishing = v.run /\ k \in Ids /\ v.run_dispatched /\ ~v.cleanup_started
        /\ v.retiring = {} /\ v.publishing # 0
    <2>1. v.publishing # 0
      BY SMT DEF Publish
    <2> QED
      BY <1>1, <2>1 DEF Life
  <1>3. v' = do_accept(d)
    BY DEF Publish
  <1>4. /\ Agree(v, d, {"next", "sessions", "publishing", "current", "sess"})
        /\ d.next = k + 1 /\ d.sessions = v.sessions \cup {k} /\ d.publishing = 0
        /\ d.current = (IF v.kind = "tcp" THEN k ELSE 0)
        /\ d.sess = [v.sess EXCEPT ![k] = new]
    BY <1>1 DEF Agree, Fields
  <1>5. /\ d.run = v.run /\ d.stopping = v.stopping /\ d.run_dispatched = v.run_dispatched
        /\ d.cleanup_started = v.cleanup_started /\ d.cleanup_done = v.cleanup_done
        /\ d.acceptor = v.acceptor /\ d.retiring = v.retiring /\ d.remaining = v.remaining
        /\ d.kind = v.kind /\ d.state = v.state /\ d.posts = v.posts
        /\ d.absorbed = v.absorbed /\ d.counted = v.counted /\ d.writer = v.writer
    BY <1>1 DEF Fields
  <1> HIDE DEF d
  <1>6. /\ d.sess[k] = new /\ DOMAIN d.sess = Ids
        /\ \A j \in Ids : j # k => d.sess[j] = v.sess[j]
    BY <1>1, <1>2, <1>4
  <1>7. /\ new.run = v.run /\ new.alive = TRUE /\ new.closing = FALSE /\ new.cleanup_done = FALSE
        /\ new.on_close = TRUE /\ new.reading = FALSE /\ new.callback = "none"
        /\ new.told = "nothing" /\ new.posts = <<"start">> /\ new.count = 0
        /\ DOMAIN new = SessionFields
    BY <1>2 DEF NoSession, SessionFields
  <1> HIDE DEF new
  <1>8. SessionType(new)
    BY <1>1, <1>7, SMT DEF SessionType, Items
  <1>9. Typed(d)
    BY <1>1, <1>2, <1>4, <1>5, <1>6, <1>8, SMT DEF Typed, Agree
  <1>10. Life(d)
    BY <1>1, <1>2, <1>4, <1>5 DEF Life
  <1>11. /\ In(new.posts, {"start"}) /\ Head(new.posts) = "start" /\ Once(new.posts, {"start"})
         /\ ~In(new.posts, {"stop"}) /\ Once(new.posts, {"stop"})
    <2>1. Len(new.posts) = 1 /\ new.posts[1] = "start"
      BY <1>7, SMT
    <2>2. \A i : i \in 1 .. 1 <=> i = 1
      BY SMT
    <2> QED
      BY <1>7, <2>1, <2>2, SMT DEF In, Once
  <1>12. k \notin Held(v) /\ v.sess[k] = NoSession
    BY <1>1, <1>2, SMT DEF Sessions
  <1>13. Held(d) = Held(v) \cup {k}
    BY <1>4, <1>5 DEF Held
  <1>14. Sessions(d)
    <2>1. Single(new) /\ Informed(d, new)
      BY <1>7, <1>11 DEF Single, Informed
    <2>2. \A j \in Ids : Informed(v, v.sess[j]) => Informed(d, v.sess[j])
      BY <1>5 DEF Informed, Fenced
    <2>3. \A j \in Ids : j >= k + 1 => j >= k /\ j # k
      BY <1>1, SMT DEF Ids
    <2>4. \A j \in Ids : j < k => j < k + 1
      BY <1>1, SMT DEF Ids
    <2>5. ASSUME NEW j \in Ids, j # k
          PROVE  /\ Single(d.sess[j]) /\ Informed(d, d.sess[j]) /\ d.sess[j].run <= d.run
                 /\ j >= d.next => d.sess[j] = NoSession
                 /\ j \in Held(d) => j < d.next /\ d.sess[j].run = d.run
                 /\ j \notin Held(d) => d.sess[j] = NoSession \/ Dead(d.sess[j])
      BY <1>1, <1>4, <1>5, <1>6, <1>13, <2>2, <2>3, <2>4, <2>5, SMT DEF Sessions
    <2>6. k < d.next /\ ~(k >= d.next) /\ d.run <= d.run
      BY <1>1, <1>4, <1>5, SMT
    <2> QED
      BY <1>5, <1>6, <1>7, <1>13, <2>1, <2>5, <2>6, SMT DEF Sessions
  <1>15. Retires(d)
    <2>1. ~Dead(NoSession)
      BY DEF Dead, NoSession
    <2>2. ~In(v.posts, Of("retired", k)) /\ ~In(v.posts, Of("gone", k))
      BY <1>1, <1>2, <1>12, <2>1 DEF Retires
    <2> QED
      BY <1>1, <1>2, <1>5, <1>6, <1>11, <2>2 DEF Retires
  <1>16. Listens(d) /\ Current(d)
    BY <1>1, <1>2, <1>4, <1>5 DEF Listens, Current
  <1>17. Counts(d) = Counts(v)
    BY <1>6, <1>7, <1>12, <1>13 DEF Counts
  <1>18. Sum(d)
    BY <1>1, <1>5, <1>17 DEF Sum
  <1>19. Dispatched(d) /\ Cleans(d)
    BY <1>4, Frames, SMT DEF Good, Base, OfDispatched, OfCleans
  <1> QED
    BY <1>3, <1>9, <1>10, <1>14, <1>15, <1>16, <1>18, <1>19, DoAccept DEF Base

-----------------------------------------------------------------------------
(* The sessions' strands.                                                  *)

\* All of the invariant but Retires.
Rest(s) ==
    /\ Typed(s) /\ Life(s) /\ Dispatched(s) /\ Sessions(s) /\ Cleans(s)
    /\ Armed(s) /\ Listens(s) /\ Current(s) /\ Sum(s)

\* A step of one session, which keeps its run, its count and its death.
LEMMA OneSession ==
  ASSUME NEW s, Rest(s), NEW t, NEW k \in Ids, NEW q, Agree(s, t, {"sess"}),
         Beside(s, t, k), t.sess[k] = q, s.sess[k] # NoSession,
         SessionType(q), q.run = s.sess[k].run, q.count = s.sess[k].count,
         Dead(s.sess[k]) => Dead(q), Single(q), Informed(s, q)
  PROVE  /\ Rest(t)
         /\ /\ Retires(s)
            /\ In(q.posts, {"stop"}) <=> In(s.sess[k].posts, {"stop"})
            => Good(t)
  <1>1. /\ Typed(s) /\ Sessions(s) /\ DOMAIN s.sess = Ids /\ Sum(s)
    BY DEF Rest, Typed
  <1>2. DOMAIN t.sess = Ids /\ t.sess[k] = q /\ \A j \in Ids : j # k => t.sess[j] = s.sess[j]
    BY DEF Beside
  <1>3. /\ t.run = s.run /\ t.stopping = s.stopping /\ t.next = s.next /\ t.posts = s.posts
        /\ t.sessions = s.sessions /\ t.retiring = s.retiring /\ DOMAIN t = Fields
        /\ t.writer = s.writer /\ t.remaining = s.remaining /\ t.absorbed = s.absorbed
        /\ t.counted = s.counted
    BY DEF Agree, Fields
  <1>4. Held(t) = Held(s)
    BY <1>3 DEF Held
  <1>5. Typed(t)
    BY <1>1, <1>2, <1>3 DEF Typed
  <1>6. Sessions(t)
    <2>1. \A j \in Ids : Informed(s, s.sess[j]) => Informed(t, s.sess[j])
      BY <1>3 DEF Informed, Fenced
    <2>2. Informed(t, q)
      BY <1>3 DEF Informed, Fenced
    <2>3. ASSUME NEW j \in Ids, j # k
          PROVE  /\ Single(t.sess[j]) /\ Informed(t, t.sess[j]) /\ t.sess[j].run <= t.run
                 /\ j >= t.next => t.sess[j] = NoSession
                 /\ j \in Held(t) => j < t.next /\ t.sess[j].run = t.run
                 /\ j \notin Held(t) => t.sess[j] = NoSession \/ Dead(t.sess[j])
      BY <1>1, <1>2, <1>3, <1>4, <2>1, <2>3 DEF Sessions
    <2>4. /\ q.run <= t.run
          /\ ~(k >= t.next)
          /\ k \in Held(t) => k < t.next /\ q.run = t.run
          /\ k \notin Held(t) => Dead(q)
      BY <1>1, <1>3, <1>4 DEF Sessions
    <2> QED
      BY <1>2, <2>2, <2>3, <2>4 DEF Sessions
  <1>7. Sum(t)
    <2>1. Counts(t) = Counts(s)
      BY <1>2, <1>4 DEF Counts
    <2> QED
      BY <1>1, <1>3, <2>1 DEF Sum
  <1>8. Rest(t)
    BY <1>5, <1>6, <1>7, Frames, SMT
    DEF Rest, OfLife, OfDispatched, OfCleans, OfArmed, OfListens, OfCurrent
  <1>9. ASSUME Retires(s), In(q.posts, {"stop"}) <=> In(s.sess[k].posts, {"stop"})
        PROVE  Good(t)
    <2>1. Retires(t)
      BY <1>2, <1>3, <1>9, SMT DEF Retires
    <2> QED
      BY <1>8, <2>1 DEF Rest, Good, Base
  <1> QED
    BY <1>8, <1>9

\* What do_close does to a session.
LEMMA DoClose ==
  ASSUME NEW s, DOMAIN s = Fields, DOMAIN s.sess = Ids, NEW k \in Ids,
         DOMAIN s.sess[k] = SessionFields
  PROVE  LET t == do_close(s, k)
             p == s.sess[k]
             q == t.sess[k]
         IN  /\ Agree(s, t, {"sess"}) /\ Beside(s, t, k)
             /\ DOMAIN q = SessionFields /\ q.run = p.run /\ q.count = p.count
             /\ q.posts = p.posts /\ q.reading = p.reading
             /\ p.cleanup_done => q = p
             /\ ~p.cleanup_done =>
                   /\ q.cleanup_done /\ ~q.alive /\ ~q.on_close
                   /\ \/ q.callback = p.callback /\ q.told = p.told
                      \/ /\ q.callback = "disconnect" /\ q.told = "disconnected"
                         /\ p.on_close /\ ~Fenced(s, p.run)
  <1> DEFINE p == s.sess[k]
             d == [p EXCEPT !.alive = FALSE, !.closing = TRUE, !.cleanup_done = TRUE,
                            !.on_close = FALSE]
             e == [d EXCEPT !.callback = "disconnect", !.told = "disconnected"]
             x == IF ~p.on_close \/ Fenced(s, p.run) THEN d ELSE e
             u == [s EXCEPT !.sess[k] = x]
  <1>1. CASE p.cleanup_done
    <2>1. do_close(s, k) = s
      BY <1>1 DEF do_close
    <2> QED
      BY <1>1, <2>1 DEF Agree, Beside
  <1>2. CASE ~p.cleanup_done
    <2>1. do_close(s, k) = u
      BY <1>2 DEF do_close
    <2>2. /\ DOMAIN d = SessionFields /\ d.run = p.run /\ d.count = p.count
          /\ d.posts = p.posts /\ d.reading = p.reading /\ d.cleanup_done /\ ~d.alive
          /\ ~d.on_close /\ d.callback = p.callback /\ d.told = p.told
      BY DEF SessionFields
    <2> HIDE DEF d
    <2>3. /\ DOMAIN e = SessionFields /\ e.run = p.run /\ e.count = p.count
          /\ e.posts = p.posts /\ e.reading = p.reading /\ e.cleanup_done /\ ~e.alive
          /\ ~e.on_close /\ e.callback = "disconnect" /\ e.told = "disconnected"
      BY <2>2 DEF SessionFields
    <2> HIDE DEF e
    <2>4. /\ DOMAIN x = SessionFields /\ x.run = p.run /\ x.count = p.count
          /\ x.posts = p.posts /\ x.reading = p.reading /\ x.cleanup_done /\ ~x.alive
          /\ ~x.on_close
          /\ \/ x.callback = p.callback /\ x.told = p.told
             \/ /\ x.callback = "disconnect" /\ x.told = "disconnected"
                /\ p.on_close /\ ~Fenced(s, p.run)
      BY <2>2, <2>3
    <2> HIDE DEF x
    <2>5. /\ DOMAIN u = Fields /\ u.sess = [s.sess EXCEPT ![k] = x] /\ u.sess[k] = x
          /\ \A f \in Fields \ {"sess"} : u[f] = s[f]
      BY DEF Fields
    <2> HIDE DEF u, p
    <2> QED
      BY <1>2, <2>1, <2>4, <2>5 DEF Agree, Beside, p
  <1> QED
    BY <1>1, <1>2

\* From s to t the user hears of a client only what NotificationsFenced allows.
Tells(s, t) ==
    \A k \in Ids : t.sess[k].told # s.sess[k].told =>
        /\ ~s.stopping /\ s.sess[k].run = s.run
        /\ <<s.sess[k].told, t.sess[k].told>> \in
              {<<"nothing", "connected">>, <<"connected", "disconnected">>}

\* do_close on the strand of session k, whose record in s differs from the one in
\* v in what is posted only.
LEMMA Closes ==
  ASSUME Good(v), NEW k \in Ids, NEW s, Agree(v, s, {"sess"}), Beside(v, s, k),
         v.sess[k] # NoSession, v.sess[k].callback = "none", ~In(v.sess[k].posts, {"start"}),
         \A f \in SessionFields \ {"posts"} : s.sess[k][f] = v.sess[k][f],
         DOMAIN s.sess[k] = SessionFields, s.sess[k].posts \in Seq(Items),
         ~In(s.sess[k].posts, {"start"}), Once(s.sess[k].posts, {"stop"}),
         In(s.sess[k].posts, {"stop"}) <=> In(v.sess[k].posts, {"stop"})
  PROVE  Good(do_close(s, k)) /\ Tells(v, do_close(s, k))
  <1> DEFINE p == v.sess[k]
             r == s.sess[k]
             t == do_close(s, k)
             q == t.sess[k]
  <1>1. /\ Typed(v) /\ Single(p) /\ Informed(v, p) /\ SessionType(p) /\ Rest(v) /\ Retires(v)
        /\ DOMAIN s.sess = Ids /\ DOMAIN s = Fields /\ p.run \in Nat /\ p.count \in Nat
    BY DEF Good, Base, Rest, Sessions, Typed, SessionType, Beside, Agree
  <1>2. /\ r.run = p.run /\ r.count = p.count /\ r.alive = p.alive /\ r.closing = p.closing
        /\ r.cleanup_done = p.cleanup_done /\ r.on_close = p.on_close /\ r.told = p.told
        /\ r.callback = p.callback /\ r.reading = p.reading
    BY DEF SessionFields
  <1>3. s.run = v.run /\ s.stopping = v.stopping
    BY DEF Agree, Fields
  <1>4. /\ Agree(s, t, {"sess"}) /\ Beside(s, t, k)
        /\ DOMAIN q = SessionFields /\ q.run = r.run /\ q.count = r.count
        /\ q.posts = r.posts /\ q.reading = r.reading
        /\ r.cleanup_done => q = r
        /\ ~r.cleanup_done =>
              /\ q.cleanup_done /\ ~q.alive /\ ~q.on_close
              /\ \/ q.callback = r.callback /\ q.told = r.told
                 \/ /\ q.callback = "disconnect" /\ q.told = "disconnected"
                    /\ r.on_close /\ ~Fenced(s, r.run)
    BY <1>1, DoClose, SMT
  <1> HIDE DEF p, r, t, q
  <1>5. Agree(v, t, {"sess"}) /\ Beside(v, t, k) /\ t.sess[k] = q
    BY <1>4, SMT DEF Agree, Beside, q
  <1>6. SessionType(q)
    BY <1>1, <1>2, <1>4 DEF SessionType, r
  <1>7. ~In(q.posts, {"start"}) /\ Once(q.posts, {"stop"})
    BY <1>4 DEF r
  <1>8. Single(q)
    BY <1>1, <1>2, <1>4, <1>7 DEF Single
  <1>9. ~q.alive \/ (q.alive = p.alive /\ q.closing = p.closing /\ q.told = p.told)
    BY <1>2, <1>4
  <1>10. ~In(p.posts, {"start"})
    BY DEF p
  <1>11. Informed(v, q)
    BY <1>1, <1>2, <1>4, <1>9, <1>10 DEF Informed
  <1>12. Dead(p) => Dead(q)
    BY <1>2, <1>4 DEF Dead
  <1>13. In(q.posts, {"stop"}) <=> In(p.posts, {"stop"})
    BY <1>4 DEF p, r
  <1>14. q.run = p.run /\ q.count = p.count /\ p # NoSession
    BY <1>2, <1>4 DEF p
  <1>15. Good(t)
    BY <1>1, <1>5, <1>6, <1>8, <1>11, <1>12, <1>13, <1>14, OneSession DEF p
  <1>16. ASSUME q.told # p.told
         PROVE  ~v.stopping /\ p.run = v.run /\ p.told = "connected" /\ q.told = "disconnected"
    BY <1>1, <1>2, <1>3, <1>4, <1>10, <1>16 DEF Informed, Single, Fenced
  <1>17. Tells(v, t)
    BY <1>5, <1>16 DEF Tells, Beside, p
  <1> QED
    BY <1>15, <1>17 DEF t

\* The first handler of a session's strand is taken off it.
LEMMA PopSession ==
  ASSUME Good(v), NEW k \in Ids, NEW what, FirstOf(k, what)
  PROVE  LET s == PopOf(k)
             p == v.sess[k]
             q == s.sess[k]
         IN  /\ Agree(v, s, {"sess"}) /\ Beside(v, s, k) /\ p # NoSession
             /\ \A f \in SessionFields \ {"posts"} : q[f] = p[f]
             /\ DOMAIN q = SessionFields /\ q.posts \in Seq(Items)
             /\ p.callback = "none" /\ Head(p.posts) = what
             /\ \A X : /\ In(p.posts, X) <=> In(q.posts, X) \/ what \in X
                       /\ Once(p.posts, X) =>
                             Once(q.posts, X) /\ (what \in X => ~In(q.posts, X))
  <1> DEFINE s == PopOf(k)
             p == v.sess[k]
             q == s.sess[k]
  <1>1. /\ DOMAIN v = Fields /\ DOMAIN v.sess = Ids /\ DOMAIN p = SessionFields
        /\ p.posts \in Seq(Items)
    BY DEF Good, Base, Typed, SessionType
  <1>2. /\ s.sess[k].posts = Tail(p.posts) /\ DOMAIN s.sess[k] = SessionFields
        /\ \A f \in SessionFields \ {"posts"} : s.sess[k][f] = p[f]
    BY <1>1 DEF PopOf, Fields, SessionFields
  <1>3. Agree(v, s, {"sess"}) /\ Beside(v, s, k)
    BY <1>1 DEF PopOf, Agree, Beside, Fields
  <1>4. p.posts # <<>> /\ Head(p.posts) = what /\ p.callback = "none"
    BY DEF FirstOf, Idle
  <1>5. p # NoSession
    BY <1>4, SMT DEF NoSession
  <1> HIDE DEF s, p
  <1>6. \A X : /\ Tail(p.posts) \in Seq(Items)
               /\ In(p.posts, X) <=> In(Tail(p.posts), X) \/ what \in X
               /\ Once(p.posts, X) =>
                     Once(Tail(p.posts), X) /\ (what \in X => ~In(Tail(p.posts), X))
    BY <1>1, <1>4, TailIn
  <1> QED
    BY <1>2, <1>3, <1>4, <1>5, <1>6 DEF s, p

\* The close that fail_receive posted.
LEMMA ClosePosted ==
  ASSUME Good(v), NEW k \in Ids, FirstOf(k, "close"), v' = do_close(PopOf(k), k)
  PROVE  Good(v') /\ Tells(v, v')
  <1> DEFINE s == PopOf(k)
             p == v.sess[k]
             q == s.sess[k]
  <1>1. /\ Agree(v, s, {"sess"}) /\ Beside(v, s, k) /\ p # NoSession
        /\ \A f \in SessionFields \ {"posts"} : q[f] = p[f]
        /\ DOMAIN q = SessionFields /\ q.posts \in Seq(Items)
        /\ p.callback = "none" /\ Head(p.posts) = "close"
        /\ \A X : /\ In(p.posts, X) <=> In(q.posts, X) \/ "close" \in X
                  /\ Once(p.posts, X) =>
                        Once(q.posts, X) /\ ("close" \in X => ~In(q.posts, X))
    BY PopSession
  <1>2. Single(p)
    BY DEF Good, Base, Sessions
  <1> HIDE DEF s
  <1>3. ~In(p.posts, {"start"}) /\ Once(p.posts, {"stop"})
    BY <1>1, <1>2 DEF Single
  <1>4. /\ ~In(q.posts, {"start"}) /\ Once(q.posts, {"stop"})
        /\ In(q.posts, {"stop"}) <=> In(p.posts, {"stop"})
    BY <1>1, <1>3
  <1> QED
    BY <1>1, <1>3, <1>4, Closes DEF s

\* A session that loses its connection.
LEMMA Loses ==
  ASSUME Good(v), NEW k \in Ids, Lose(k)
  PROVE  Good(v') /\ Tells(v, v')
  <1>1. /\ DOMAIN v = Fields /\ DOMAIN v.sess = Ids /\ SessionType(v.sess[k])
        /\ Single(v.sess[k])
    BY DEF Good, Base, Typed, Sessions
  <1>2. /\ v.sess[k].callback = "none" /\ v.sess[k].reading /\ v' = do_close(v, k)
        /\ v.sess[k].alive
    BY DEF Lose, Idle, Open
  <1>3. v.sess[k] # NoSession
    BY <1>2, SMT DEF NoSession
  <1>4. ~In(v.sess[k].posts, {"start"}) /\ Once(v.sess[k].posts, {"stop"})
    BY <1>1, <1>2 DEF Single
  <1>5. Agree(v, v, {"sess"}) /\ Beside(v, v, k)
    BY <1>1 DEF Agree, Beside
  <1> QED
    BY <1>1, <1>2, <1>3, <1>4, <1>5, Closes DEF SessionType

\* A handler is posted to the server's strand.
LEMMA Posts ==
  ASSUME NEW s, Rest(s), NEW what, what # "cleanup", NEW k \in Ids \cup {0},
         what \in {"bind", "connected", "gone", "retired", "request", "accept"},
         what = "bind" => k = 0 /\ s.run_dispatched, what \in {"gone", "retired"} => k \in Ids
  PROVE  LET t == Post(s, what, k)
         IN  /\ Agree(s, t, {"posts"}) /\ Rest(t)
             /\ \A X : In(s.posts, X) => In(t.posts, X)
             /\ \A w \in {"retired", "gone"}, j \in Ids :
                   /\ In(t.posts, Of(w, j)) <=> In(s.posts, Of(w, j)) \/ (w = what /\ j = k)
                   /\ Once(s.posts, Of(w, j)) /\ (w = what /\ j = k => ~In(s.posts, Of(w, j)))
                      => Once(t.posts, Of(w, j))
             /\ /\ Retires(s) /\ what # "retired"
                /\ what = "gone" => k \in Ids /\ Dead(s.sess[k])
                => Good(t)
  <1> DEFINE e == [what |-> what, k |-> k, run |-> IF k = 0 THEN s.run ELSE s.sess[k].run]
             t == Post(s, what, k)
  <1>1. /\ DOMAIN s = Fields /\ s.posts \in Seq(Handler) /\ s.run \in Nat
        /\ Typed(s) /\ Sessions(s) /\ Dispatched(s) /\ Cleans(s) /\ Armed(s)
    BY DEF Rest, Typed
  <1>2. Agree(s, t, {"posts"}) /\ t.posts = Append(s.posts, e)
    BY <1>1 DEF Post, Agree, Fields
  <1>3. e.run \in Nat /\ e.run <= s.run
    <2>1. CASE k = 0
      BY <1>1, <2>1, SMT
    <2>2. CASE k \in Ids
      <3>1. k # 0 /\ s.sess[k].run \in Nat /\ s.sess[k].run <= s.run
        BY <1>1, <2>2, SMT DEF Typed, SessionType, Sessions, Ids
      <3> QED
        BY <3>1
    <2> QED
      BY <2>1, <2>2
  <1>4. e \in Handler /\ e.what = what /\ e.k = k
    BY <1>3 DEF Handler
  <1> HIDE DEF e, t
  <1>5. \A X : /\ In(t.posts, X) <=> In(s.posts, X) \/ e \in X
               /\ Once(s.posts, X) /\ (e \in X => ~In(s.posts, X)) => Once(t.posts, X)
    BY <1>1, <1>2, <1>4, AppendIn, SMT
  <1>6. \A w, j : e \in Of(w, j) <=> w = what /\ j = k
    BY <1>4 DEF Of
  <1>7. /\ t.run = s.run /\ t.stopping = s.stopping /\ t.acceptor = s.acceptor
        /\ t.accepting = s.accepting /\ t.publishing = s.publishing /\ t.timers = s.timers
        /\ t.cleanup_started = s.cleanup_started /\ t.run_dispatched = s.run_dispatched
        /\ t.sess = s.sess /\ t.retiring = s.retiring /\ DOMAIN t = Fields
        /\ t.next = s.next /\ t.writer = s.writer /\ t.sessions = s.sessions
        /\ t.remaining = s.remaining /\ t.absorbed = s.absorbed /\ t.counted = s.counted
    BY <1>2 DEF Agree, Fields
  <1>8. Typed(t)
    <2>1. t.posts \in Seq(Handler)
      BY <1>1, <1>2, <1>4, SMT
    <2> QED
      BY <1>1, <1>7, <2>1 DEF Typed
  <1>9. Cleans(t)
    BY <1>1, <1>4, <1>5, <1>7 DEF Cleans, Cleaning
  <1>10. Armed(t)
    BY <1>1, <1>5, <1>7 DEF Armed
  <1>11. Dispatched(t)
    <2>1. e \notin Later(s.run)
      BY <1>1, <1>3, SMT DEF Later
    <2>2. e \in Binds(s.run) => s.run_dispatched
      BY <1>4 DEF Binds
    <2>3. e \notin Of("gone", 0) /\ e \notin Of("retired", 0)
      BY <1>6, SMT DEF Ids
    <2>4. /\ ~In(t.posts, Later(t.run)) /\ (In(t.posts, Binds(t.run)) => t.run_dispatched)
          /\ ~In(t.posts, Of("gone", 0)) /\ ~In(t.posts, Of("retired", 0))
      BY <1>1, <1>5, <1>7, <2>1, <2>2, <2>3 DEF Dispatched
    <2> QED
      BY <1>1, <1>7, <2>4 DEF Dispatched
  <1>12. Rest(t)
    BY <1>2, <1>8, <1>9, <1>10, <1>11, Frames, SMT
    DEF Rest, OfLife, OfSessions, OfListens, OfCurrent, OfSum
  <1>13. ASSUME Retires(s), what # "retired", what = "gone" => k \in Ids /\ Dead(s.sess[k])
         PROVE  Good(t)
    <2>1. /\ \A j \in Ids : e \notin Of("retired", j)
          /\ \A j \in Ids : e \in Of("gone", j) => Dead(s.sess[j])
      BY <1>6, <1>13
    <2>2. Retires(t)
      BY <1>5, <1>7, <1>13, <2>1 DEF Retires
    <2> QED
      BY <1>12, <2>2 DEF Good, Base, Rest
  <1> QED
    BY <1>2, <1>5, <1>6, <1>12, <1>13 DEF t

\* start_with_notification's handler: the user is told, unless the run is over.
LEMMA StartPosted ==
  ASSUME Good(v), NEW k \in Ids, FirstOf(k, "start"), v' = on_session_start(PopOf(k), k)
  PROVE  Good(v') /\ Tells(v, v')
  <1> DEFINE s == PopOf(k)
             p == v.sess[k]
             r == s.sess[k]
             a == [r EXCEPT !.reading = TRUE]
             b == [r EXCEPT !.reading = TRUE, !.callback = "connect", !.told = "connected"]
             q == v'.sess[k]
  <1>1. /\ Agree(v, s, {"sess"}) /\ Beside(v, s, k) /\ p # NoSession
        /\ \A f \in SessionFields \ {"posts"} : r[f] = p[f]
        /\ DOMAIN r = SessionFields /\ r.posts \in Seq(Items)
        /\ p.callback = "none" /\ Head(p.posts) = "start"
        /\ \A X : /\ In(p.posts, X) <=> In(r.posts, X) \/ "start" \in X
                  /\ Once(p.posts, X) =>
                        Once(r.posts, X) /\ ("start" \in X => ~In(r.posts, X))
    BY PopSession
  <1>2. /\ Single(p) /\ Informed(v, p) /\ SessionType(p) /\ Rest(v) /\ Retires(v)
        /\ DOMAIN s = Fields /\ DOMAIN s.sess = Ids /\ p.run \in Nat /\ p.count \in Nat
    BY <1>1 DEF Good, Base, Rest, Sessions, Typed, SessionType, Agree, Beside
  <1> HIDE DEF s
  <1>3. /\ r.run = p.run /\ r.count = p.count /\ r.alive = p.alive /\ r.closing = p.closing
        /\ r.cleanup_done = p.cleanup_done /\ r.on_close = p.on_close /\ r.told = p.told
        /\ r.callback = p.callback /\ r.reading = p.reading
    BY <1>1 DEF SessionFields
  <1>4. /\ In(p.posts, {"start"}) /\ p.alive /\ p.told = "nothing" /\ ~p.cleanup_done
        /\ ~In(r.posts, {"start"}) /\ Once(r.posts, {"stop"})
        /\ In(r.posts, {"stop"}) <=> In(p.posts, {"stop"})
    BY <1>1, <1>2 DEF Single
  <1>5. s.run = v.run /\ s.stopping = v.stopping
    BY <1>1 DEF Agree, Fields
  <1>6. v' = (IF ~(r.alive /\ ~r.closing) THEN s
              ELSE [s EXCEPT !.sess[k] = IF Fenced(s, r.run) THEN a ELSE b])
    BY DEF on_session_start, Open, s
  <1> HIDE DEF p, a, b
  <1>7. Agree(v, v', {"sess"}) /\ Beside(v, v', k)
    BY <1>1, <1>2, <1>6, SMT DEF Agree, Beside, Fields
  <1>8. \/ q = r /\ (p.closing \/ ~p.alive)
        \/ q = a /\ Fenced(v, p.run)
        \/ q = b /\ ~Fenced(v, p.run) /\ ~p.closing
    BY <1>2, <1>3, <1>5, <1>6, SMT DEF Fields, Fenced
  <1>9. /\ DOMAIN q = SessionFields /\ q.run = p.run /\ q.count = p.count /\ q.posts = r.posts
        /\ q.alive = p.alive /\ q.closing = p.closing /\ q.cleanup_done = p.cleanup_done
        /\ q.on_close = p.on_close
        /\ \/ q.callback = "none" /\ q.told = p.told /\ Fenced(v, p.run)
           \/ /\ q.callback = "connect" /\ q.told = "connected" /\ ~p.closing
              /\ ~Fenced(v, p.run)
    <2>1. CASE q = r /\ (p.closing \/ ~p.alive)
      BY <1>1, <1>2, <1>3, <1>4, <2>1 DEF Informed, p
    <2>2. CASE q = a /\ Fenced(v, p.run)
      BY <1>1, <1>3, <2>2, SMT DEF a, SessionFields, p
    <2>3. CASE q = b /\ ~Fenced(v, p.run) /\ ~p.closing
      BY <1>1, <1>3, <2>3, SMT DEF b, SessionFields
    <2> QED
      BY <1>8, <2>1, <2>2, <2>3
  <1> HIDE DEF r, q
  <1>10. SessionType(q)
    BY <1>1, <1>2, <1>9 DEF SessionType, r
  <1>11. Single(q) /\ Informed(v, q)
    BY <1>2, <1>4, <1>9 DEF Single, Informed
  <1>12. Dead(p) => Dead(q)
    BY <1>4 DEF Dead
  <1>13. In(q.posts, {"stop"}) <=> In(p.posts, {"stop"})
    BY <1>4, <1>9
  <1>14. Good(v')
    BY <1>1, <1>2, <1>7, <1>9, <1>10, <1>11, <1>12, <1>13, OneSession DEF p, q
  <1>15. Tells(v, v')
    BY <1>4, <1>7, <1>9, SMT DEF Tells, Beside, p, q, Fenced
  <1> QED
    BY <1>14, <1>15

\* async_stop's handler: the session closes in silence and the server's strand is
\* told.
LEMMA StopPosted ==
  ASSUME Good(v), NEW k \in Ids, FirstOf(k, "stop"), v' = on_session_stop(PopOf(k), k)
  PROVE  Good(v') /\ Tells(v, v')
  <1> DEFINE s == PopOf(k)
             p == v.sess[k]
             r == s.sess[k]
             u == [s EXCEPT !.sess[k].on_close = FALSE]
             w == u.sess[k]
             t == do_close(u, k)
             q == t.sess[k]
  <1>1. /\ Agree(v, s, {"sess"}) /\ Beside(v, s, k) /\ p # NoSession
        /\ \A f \in SessionFields \ {"posts"} : r[f] = p[f]
        /\ DOMAIN r = SessionFields /\ r.posts \in Seq(Items)
        /\ p.callback = "none" /\ Head(p.posts) = "stop"
        /\ \A X : /\ In(p.posts, X) <=> In(r.posts, X) \/ "stop" \in X
                  /\ Once(p.posts, X) =>
                        Once(r.posts, X) /\ ("stop" \in X => ~In(r.posts, X))
    BY PopSession
  <1>2. /\ Single(p) /\ Rest(v) /\ Retires(v) /\ Life(v) /\ SessionType(p)
        /\ DOMAIN s = Fields /\ DOMAIN s.sess = Ids /\ p.run \in Nat /\ p.count \in Nat
    BY <1>1 DEF Good, Base, Rest, Sessions, Typed, SessionType, Agree, Beside
  <1> HIDE DEF s
  <1>3. /\ ~In(p.posts, {"start"}) /\ Once(p.posts, {"stop"}) /\ In(p.posts, {"stop"})
        /\ ~In(r.posts, {"start"}) /\ ~In(r.posts, {"stop"}) /\ Once(r.posts, {"stop"})
    BY <1>1, <1>2 DEF Single
  <1>4. k \in v.retiring /\ ~In(v.posts, Of("retired", k)) /\ v.stopping
    BY <1>2, <1>3 DEF Retires, Life
  <1>5. /\ r.run = p.run /\ r.count = p.count /\ r.told = p.told /\ r.alive = p.alive
        /\ r.cleanup_done = p.cleanup_done /\ r.callback = "none"
    BY <1>1 DEF SessionFields
  <1>6. /\ DOMAIN w = SessionFields /\ w.run = r.run /\ w.count = r.count /\ w.told = r.told
        /\ w.cleanup_done = r.cleanup_done /\ w.callback = r.callback /\ w.posts = r.posts
        /\ w.alive = r.alive /\ w.on_close = FALSE
    BY <1>1, <1>2 DEF Fields, SessionFields
  <1>7. Agree(s, u, {"sess"}) /\ Beside(s, u, k) /\ DOMAIN u = Fields /\ DOMAIN u.sess = Ids
    BY <1>1, <1>2 DEF Agree, Beside, Fields
  <1> HIDE DEF r, u, p
  <1>8. /\ Agree(u, t, {"sess"}) /\ Beside(u, t, k)
        /\ DOMAIN q = SessionFields /\ q.run = w.run /\ q.count = w.count
        /\ q.posts = w.posts
        /\ w.cleanup_done => q = w
        /\ ~w.cleanup_done =>
              /\ q.cleanup_done /\ ~q.alive /\ ~q.on_close
              /\ \/ q.callback = w.callback /\ q.told = w.told
                 \/ w.on_close
    BY <1>6, <1>7, DoClose, SMT
  <1> HIDE DEF w, t, q
  <1>9. Agree(v, t, {"sess"}) /\ Beside(v, t, k) /\ t.sess[k] = q
    BY <1>1, <1>7, <1>8, SMT DEF Agree, Beside, q
  <1>10. /\ q.cleanup_done /\ q.callback = "none" /\ ~q.on_close /\ ~q.alive
         /\ q.told = p.told /\ q.posts = r.posts /\ q.run = p.run /\ q.count = p.count
    BY <1>2, <1>5, <1>6, <1>8 DEF Single
  <1>11. SessionType(q)
    BY <1>1, <1>2, <1>8, <1>10 DEF SessionType, r
  <1>12. Single(q) /\ Informed(v, q) /\ Dead(q)
    BY <1>3, <1>10 DEF Single, Informed, Dead
  <1>13. Rest(t)
    BY <1>1, <1>2, <1>9, <1>10, <1>11, <1>12, OneSession DEF p
  <1>14. v' = Post(t, "retired", k)
    BY DEF on_session_stop, s, u, t
  <1>15. /\ Agree(t, v', {"posts"}) /\ Rest(v')
         /\ \A c \in {"retired", "gone"}, j \in Ids :
              /\ In(v'.posts, Of(c, j)) <=>
                    In(t.posts, Of(c, j)) \/ (c = "retired" /\ j = k)
              /\ Once(t.posts, Of(c, j)) /\ (c = "retired" /\ j = k => ~In(t.posts, Of(c, j)))
                 => Once(v'.posts, Of(c, j))
    BY <1>13, <1>14, Posts, SMT
  <1>16. /\ t.posts = v.posts /\ t.retiring = v.retiring
         /\ v'.retiring = v.retiring /\ v'.sess = t.sess
    BY <1>9, <1>15 DEF Agree, Fields
  <1>17. Retires(v')
    <2>1. ASSUME NEW j \in Ids, j # k
          PROVE  /\ v'.sess[j] = v.sess[j]
                 /\ In(v'.posts, Of("retired", j)) <=> In(v.posts, Of("retired", j))
                 /\ In(v'.posts, Of("gone", j)) <=> In(v.posts, Of("gone", j))
                 /\ Once(v.posts, Of("retired", j)) => Once(v'.posts, Of("retired", j))
      BY <1>9, <1>15, <1>16, <2>1 DEF Beside
    <2>2. /\ v'.sess[k] = q /\ In(v'.posts, Of("retired", k)) /\ ~In(q.posts, {"stop"})
          /\ Once(v'.posts, Of("retired", k))
      BY <1>2, <1>3, <1>4, <1>9, <1>10, <1>15, <1>16 DEF Retires
    <2> QED
      BY <1>2, <1>4, <1>12, <1>16, <2>1, <2>2 DEF Retires
  <1>18. Good(v')
    BY <1>15, <1>17 DEF Rest, Good, Base
  <1>19. Tells(v, v')
    BY <1>9, <1>10, <1>16 DEF Tells, Beside, p
  <1> QED
    BY <1>18, <1>19

\* The start, close or stop of a session.
LEMMA RunsSession ==
  ASSUME Good(v), NEW k \in Ids, RunSession(k)
  PROVE  Good(v') /\ Tells(v, v')
  BY StartPosted, ClosePosted, StopPosted DEF RunSession

\* A callback has returned, and the session's strand is free.
LEMMA CallbackOver ==
  ASSUME Good(v), NEW k \in Ids, ~Idle(k)
  PROVE  LET d == [v EXCEPT !.sess[k].callback = "none"]
         IN  /\ Good(d) /\ Tells(v, d) /\ Agree(v, d, {"sess"}) /\ Beside(v, d, k)
             /\ v.sess[k] # NoSession
             /\ d.sess[k].run = v.sess[k].run /\ d.sess[k].told = v.sess[k].told
             /\ v.sess[k].callback = "disconnect" => Dead(d.sess[k])
  <1> DEFINE d == [v EXCEPT !.sess[k].callback = "none"]
             p == v.sess[k]
             q == d.sess[k]
  <1>1. /\ DOMAIN v = Fields /\ DOMAIN v.sess = Ids /\ SessionType(p) /\ Single(p)
        /\ Informed(v, p) /\ Rest(v) /\ Retires(v) /\ DOMAIN p = SessionFields
    BY DEF Good, Base, Rest, Typed, Sessions, SessionType
  <1>2. p.callback # "none" /\ p # NoSession
    BY SMT DEF Idle, NoSession
  <1>3. Agree(v, d, {"sess"}) /\ Beside(v, d, k)
    BY <1>1 DEF Agree, Beside, Fields
  <1>4. /\ DOMAIN q = SessionFields /\ q.callback = "none" /\ q.run = p.run
        /\ q.count = p.count /\ q.posts = p.posts /\ q.alive = p.alive
        /\ q.closing = p.closing /\ q.cleanup_done = p.cleanup_done
        /\ q.on_close = p.on_close /\ q.told = p.told /\ q.reading = p.reading
    BY <1>1 DEF Fields, SessionFields
  <1>5. d.sess[k] = q
    OBVIOUS
  <1> HIDE DEF d, p, q
  <1>6. SessionType(q) /\ Single(q) /\ Informed(v, q) /\ ~Dead(p)
    BY <1>1, <1>2, <1>4 DEF SessionType, Single, Informed, Dead
  <1>7. Good(d)
    BY <1>1, <1>2, <1>3, <1>4, <1>5, <1>6, OneSession DEF p
  <1>8. Tells(v, d)
    BY <1>3, <1>4, <1>5 DEF Tells, Beside, p
  <1>9. p.callback = "disconnect" => Dead(q)
    BY <1>1, <1>4 DEF Single, Dead
  <1> QED
    BY <1>2, <1>3, <1>4, <1>7, <1>8, <1>9 DEF d, p, q

\* The TCP server's callbacks post what follows them to the server's strand.
LEMMA Returns ==
  ASSUME Good(v), NEW k \in Ids, Return(k)
  PROVE  Good(v') /\ Tells(v, v')
  <1> DEFINE d == [v EXCEPT !.sess[k].callback = "none"]
  <1>1. /\ Good(d) /\ Tells(v, d) /\ (v.sess[k].callback = "disconnect" => Dead(d.sess[k]))
    BY CallbackOver DEF Return
  <1>2. SessionType(v.sess[k]) /\ v.sess[k].callback # "none"
    BY DEF Return, Idle, Good, Base, Typed
  <1>3. v' = CASE v.sess[k].callback = "data"       -> d
               [] v.sess[k].callback = "connect"    -> Post(d, "connected", k)
               [] v.sess[k].callback = "disconnect" -> Post(d, "gone", k)
    BY DEF Return
  <1> HIDE DEF d
  <1>4. Rest(d) /\ Retires(d)
    BY <1>1 DEF Good, Base, Rest
  <1>5. CASE v.sess[k].callback = "data"
    BY <1>1, <1>3, <1>5
  <1>6. CASE v.sess[k].callback = "connect"
    <2>1. v' = Post(d, "connected", k)
      BY <1>3, <1>6
    <2>2. Good(v') /\ Agree(d, v', {"posts"})
      BY <1>4, <2>1, Posts, SMT
    <2>3. v'.sess = d.sess
      BY <2>2 DEF Agree, Fields
    <2> QED
      BY <1>1, <2>2, <2>3 DEF Tells
  <1>7. CASE v.sess[k].callback = "disconnect"
    <2>1. v' = Post(d, "gone", k)
      BY <1>3, <1>7
    <2>2. Good(v') /\ Agree(d, v', {"posts"})
      BY <1>1, <1>4, <1>7, <2>1, Posts, SMT
    <2>3. v'.sess = d.sess
      BY <2>2 DEF Agree, Fields
    <2> QED
      BY <1>1, <2>2, <2>3 DEF Tells
  <1> QED
    BY <1>2, <1>5, <1>6, <1>7 DEF SessionType

\* A client that is given up has its close posted.
LEMMA FailsReceive ==
  ASSUME Good(v), NEW k \in Ids, fail_receive(k)
  PROVE  Good(v') /\ Tells(v, v')
  <1> DEFINE p == v.sess[k]
             q == v'.sess[k]
  <1>1. /\ DOMAIN v = Fields /\ DOMAIN v.sess = Ids /\ SessionType(p) /\ Single(p)
        /\ Informed(v, p) /\ Rest(v) /\ Retires(v) /\ DOMAIN p = SessionFields
        /\ p.posts \in Seq(Items) /\ Sessions(v)
    BY DEF Good, Base, Rest, Typed, Sessions, SessionType
  <1>2. k \in v.sessions /\ v.run > 0 /\ v' = [v EXCEPT !.sess[k].posts = Append(@, "close")]
    BY DEF fail_receive, target_state, PostTo
  <1>3. p # NoSession
    <2>1. p.run = v.run /\ v.run # 0
      BY <1>1, <1>2, SMT DEF Sessions, Held
    <2> QED
      BY <2>1, SMT DEF NoSession
  <1>4. Agree(v, v', {"sess"}) /\ Beside(v, v', k)
    BY <1>1, <1>2 DEF Agree, Beside, Fields
  <1>5. /\ DOMAIN q = SessionFields /\ q.callback = p.callback /\ q.run = p.run
        /\ q.count = p.count /\ q.posts = Append(p.posts, "close") /\ q.alive = p.alive
        /\ q.closing = p.closing /\ q.cleanup_done = p.cleanup_done
        /\ q.on_close = p.on_close /\ q.told = p.told /\ q.reading = p.reading
    BY <1>1, <1>2 DEF Fields, SessionFields
  <1>6. v'.sess[k] = q
    OBVIOUS
  <1> HIDE DEF p, q
  <1>7. /\ q.posts \in Seq(Items)
        /\ In(q.posts, {"start"}) <=> In(p.posts, {"start"})
        /\ In(q.posts, {"stop"}) <=> In(p.posts, {"stop"})
        /\ Once(p.posts, {"start"}) => Once(q.posts, {"start"})
        /\ Once(p.posts, {"stop"}) => Once(q.posts, {"stop"})
        /\ p.posts # <<>> => Head(q.posts) = Head(p.posts)
    <2>1. "close" \in Items /\ "close" \notin {"start"} /\ "close" \notin {"stop"}
      BY DEF Items
    <2> QED
      BY <1>1, <1>5, <2>1, AppendIn, SMT
  <1>8. In(p.posts, {"start"}) => p.posts # <<>>
    BY EmptyIn
  <1>9. SessionType(q) /\ Single(q) /\ Informed(v, q) /\ (Dead(p) => Dead(q))
    BY <1>1, <1>5, <1>7, <1>8 DEF SessionType, Single, Informed, Dead
  <1>10. Good(v')
    BY <1>1, <1>3, <1>4, <1>5, <1>6, <1>7, <1>9, OneSession DEF p
  <1>11. Tells(v, v')
    BY <1>4, <1>5, <1>6 DEF Tells, Beside, p
  <1> QED
    BY <1>10, <1>11

-----------------------------------------------------------------------------
(* The totals.                                                             *)

\* A total is a number.
LEMMA TotalType == ASSUME Arithmetic, NEW q \in Seq(Nat) PROVE Total(q) \in Nat
  BY DEF Arithmetic

\* What counts nothing adds up to nothing.
LEMMA TotalZero ==
  ASSUME Arithmetic, NEW q \in Seq(Nat), \A i \in 1 .. Len(q) : q[i] = 0
  PROVE  Total(q) = 0
  BY DEF Arithmetic

\* Sums add up place by place.
LEMMA TotalPlus ==
  ASSUME Arithmetic, NEW q \in Seq(Nat), NEW r \in Seq(Nat), NEW u \in Seq(Nat),
         Len(r) = Len(q), Len(u) = Len(q), \A i \in 1 .. Len(q) : u[i] = q[i] + r[i]
  PROVE  Total(u) = Total(q) + Total(r)
  BY DEF Arithmetic

\* There are finitely many sessions.
LEMMA FiniteIds ==
  ASSUME Arithmetic, NEW X, X \subseteq Ids
  PROVE  /\ Cardinality(X) \in Nat /\ (Cardinality(X) = 0 <=> X = {})
         /\ \A k \in X : Cardinality(X \ {k}) = Cardinality(X) - 1
         /\ Total([k \in Ids |-> IF k \in X THEN 1 ELSE 0]) = Cardinality(X)
  BY DEF Arithmetic

\* What the held sessions counted, as a sequence of numbers.
LEMMA CountsSeq ==
  ASSUME Arithmetic, NEW s, Typed(s)
  PROVE  /\ Counts(s) \in Seq(Nat) /\ Len(Counts(s)) = MaxSessions
         /\ DOMAIN Counts(s) = Ids /\ Ids = 1 .. MaxSessions /\ MaxSessions \in Nat
         /\ \A k \in Ids : Counts(s)[k] = IF k \in Held(s) THEN s.sess[k].count ELSE 0
         /\ Total(Counts(s)) \in Nat
  <1>1. MaxSessions \in Nat /\ Ids = 1 .. MaxSessions
    BY ServerAssumption DEF Ids
  <1>2. Counts(s) \in [1 .. MaxSessions -> Nat]
    BY <1>1 DEF Counts, Typed, SessionType
  <1>3. Counts(s) \in Seq(Nat) /\ Len(Counts(s)) = MaxSessions
    BY <1>1, <1>2, SMT
  <1>4. Total(Counts(s)) \in Nat
    BY <1>3, TotalType
  <1> QED
    BY <1>1, <1>3, <1>4 DEF Counts

\* A session that is open or not yet closed is held.
LEMMA AliveHeld ==
  ASSUME NEW s, Sessions(s), NEW k \in Ids, s.sess[k].alive
  PROVE  k \in Held(s) /\ s.sess[k] # NoSession
  BY SMT DEF Sessions, Single, Dead, NoSession

\* q is p with another count.
Recounted(p, q) ==
    /\ DOMAIN q = SessionFields /\ q.count \in Nat
    /\ \A f \in SessionFields \ {"count"} : q[f] = p[f]

\* A step that changes nothing but what is counted.
LEMMA Recounts ==
  ASSUME NEW s, Good(s), NEW t, Agree(s, t, {"absorbed", "counted", "sess"}),
         t.absorbed \in Nat, t.counted \in Nat, DOMAIN t.sess = Ids, Sum(t),
         \A k \in Ids : Recounted(s.sess[k], t.sess[k]),
         \A k \in Ids : s.sess[k] = NoSession => t.sess[k] = NoSession
  PROVE  Good(t) /\ Tells(s, t)
  <1>1. /\ t.run = s.run /\ t.stopping = s.stopping /\ t.next = s.next /\ t.posts = s.posts
        /\ t.sessions = s.sessions /\ t.retiring = s.retiring /\ DOMAIN t = Fields
        /\ t.writer = s.writer /\ t.remaining = s.remaining
    BY DEF Agree, Fields
  <1>2. \A k \in Ids :
          LET p == s.sess[k]
              q == t.sess[k]
          IN  /\ q.run = p.run /\ q.alive = p.alive /\ q.closing = p.closing
              /\ q.cleanup_done = p.cleanup_done /\ q.on_close = p.on_close
              /\ q.reading = p.reading /\ q.callback = p.callback /\ q.told = p.told
              /\ q.posts = p.posts /\ q.count \in Nat /\ DOMAIN q = SessionFields
    BY SMT DEF Recounted, SessionFields
  <1>3. Typed(s) /\ Sessions(s) /\ Retires(s)
    BY DEF Good, Base
  <1>4. \A k \in Ids : SessionType(t.sess[k])
    BY <1>2, <1>3 DEF Typed, SessionType
  <1>5. Typed(t)
    BY <1>1, <1>3, <1>4 DEF Typed
  <1>6. Held(t) = Held(s)
    BY <1>1 DEF Held
  <1>7. \A k \in Ids : /\ Single(s.sess[k]) => Single(t.sess[k])
                       /\ Informed(s, s.sess[k]) => Informed(t, t.sess[k])
                       /\ Dead(s.sess[k]) <=> Dead(t.sess[k])
    BY <1>1, <1>2, SMT DEF Single, Informed, Dead, Fenced
  <1>8. Sessions(t)
    BY <1>1, <1>2, <1>3, <1>6, <1>7 DEF Sessions
  <1>9. Retires(t)
    BY <1>1, <1>2, <1>3, <1>7 DEF Retires
  <1>10. Good(t)
    BY <1>5, <1>8, <1>9, Frames, SMT
    DEF Good, Base, OfLife, OfDispatched, OfCleans, OfArmed, OfListens, OfCurrent
  <1>11. Tells(s, t)
    BY <1>2 DEF Tells
  <1> QED
    BY <1>10, <1>11

\* Sessions that are open count one more each.
LEMMA Counted ==
  ASSUME NEW s, Good(s), NEW ks, ks \subseteq Ids, \A k \in ks : s.sess[k].alive
  PROVE  LET t == Count(s, ks)
         IN  /\ Good(t) /\ Tells(s, t) /\ Agree(s, t, {"absorbed", "counted", "sess"})
             /\ \A k \in Ids : Recounted(s.sess[k], t.sess[k])
  <1> DEFINE t == Count(s, ks)
             one == [k \in Ids |-> IF k \in ks THEN 1 ELSE 0]
             more(k) == [s.sess[k] EXCEPT !.count = @ + 1]
             f == [k \in Ids |-> IF k \in ks THEN more(k) ELSE s.sess[k]]
  <1>1. /\ Typed(s) /\ Sessions(s) /\ Sum(s) /\ DOMAIN s = Fields /\ DOMAIN s.sess = Ids
        /\ Arithmetic /\ s.counted \in Nat /\ s.absorbed \in Nat
        /\ \A k \in Ids : SessionType(s.sess[k]) /\ s.sess[k].count \in Nat
    BY DEF Good, Base, Sum, Typed, SessionType
  <1>2. /\ Agree(s, t, {"absorbed", "counted", "sess"}) /\ t.absorbed = s.absorbed
        /\ t.counted = s.counted + Cardinality(ks)
        /\ t.sess = f
    <2>1. t = [s EXCEPT !.counted = @ + Cardinality(ks), !.sess = f]
      BY <1>1 DEF Count
    <2> HIDE DEF t, f
    <2> QED
      BY <1>1, <2>1 DEF Agree, Fields
  <1>3. /\ t.sessions = s.sessions /\ t.retiring = s.retiring
    BY <1>2 DEF Agree, Fields
  <1> HIDE DEF t
  <1>4. \A k \in Ids : Recounted(s.sess[k], more(k)) /\ more(k).count = s.sess[k].count + 1
    BY <1>1, SMT DEF Recounted, SessionType, SessionFields
  <1>5. \A k \in Ids : Recounted(s.sess[k], s.sess[k])
    BY <1>1 DEF Recounted, SessionType
  <1> HIDE DEF more
  <1>6. /\ \A k \in Ids : Recounted(s.sess[k], t.sess[k])
        /\ \A k \in Ids : t.sess[k].count = s.sess[k].count + one[k]
        /\ DOMAIN t.sess = Ids
    BY <1>1, <1>2, <1>4, <1>5, SMT
  <1>7. \A k \in ks : k \in Held(s) /\ s.sess[k] # NoSession
    BY <1>1, AliveHeld
  <1>8. \A k \in Ids : s.sess[k] = NoSession => t.sess[k] = NoSession
    BY <1>2, <1>7
  <1>9. /\ Counts(s) \in Seq(Nat) /\ Len(Counts(s)) = MaxSessions
        /\ Ids = 1 .. MaxSessions /\ MaxSessions \in Nat /\ Total(Counts(s)) \in Nat
        /\ \A k \in Ids : Counts(s)[k] = IF k \in Held(s) THEN s.sess[k].count ELSE 0
    BY <1>1, CountsSeq
  <1>10. Held(t) = Held(s)
    BY <1>3 DEF Held
  <1>11. one \in Seq(Nat) /\ Len(one) = MaxSessions
    <2>1. one \in [1 .. MaxSessions -> Nat]
      BY <1>9
    <2> QED
      BY <1>9, <2>1, SMT
  <1>12. Total(one) = Cardinality(ks) /\ Cardinality(ks) \in Nat
    BY <1>1, FiniteIds
  <1>13. /\ Counts(t) \in Seq(Nat) /\ Len(Counts(t)) = MaxSessions
         /\ \A k \in 1 .. MaxSessions : Counts(t)[k] = Counts(s)[k] + one[k]
    <2>1. \A k \in Ids : (IF k \in Held(t) THEN t.sess[k].count ELSE 0) = Counts(s)[k] + one[k]
      <3>1. TAKE k \in Ids
      <3>2. CASE k \in ks
        <4>1. k \in Held(t) /\ one[k] = 1 /\ Counts(s)[k] = s.sess[k].count
          BY <1>7, <1>9, <1>10, <3>2
        <4> QED
          BY <1>6, <4>1
      <3>3. CASE k \notin ks
        <4>1. one[k] = 0 /\ t.sess[k].count = s.sess[k].count
          BY <1>1, <1>6, <3>3, SMT
        <4> QED
          BY <1>1, <1>9, <1>10, <4>1, SMT
      <3> QED
        BY <3>2, <3>3
    <2>2. \A k \in Ids : Counts(s)[k] + one[k] \in Nat
      BY <1>1, <1>9, SMT
    <2> HIDE DEF one
    <2>3. Counts(t) \in [1 .. MaxSessions -> Nat]
      BY <1>9, <2>1, <2>2, SMT DEF Counts
    <2>4. \A k \in 1 .. MaxSessions : Counts(t)[k] = Counts(s)[k] + one[k]
      BY <1>9, <2>1 DEF Counts
    <2> QED
      BY <1>9, <2>3, <2>4, SMT
  <1> HIDE DEF one
  <1>14. Total(Counts(t)) = Total(Counts(s)) + Cardinality(ks)
    <2> DEFINE a == Counts(s)
               c == Counts(t)
    <2>1. /\ a \in Seq(Nat) /\ c \in Seq(Nat) /\ one \in Seq(Nat)
          /\ Len(one) = Len(a) /\ Len(c) = Len(a)
          /\ \A i \in 1 .. Len(a) : c[i] = a[i] + one[i]
      BY <1>9, <1>11, <1>13
    <2> HIDE DEF a, c
    <2>2. Total(c) = Total(a) + Total(one)
      BY <1>1, <2>1, TotalPlus
    <2> QED
      BY <1>12, <2>2 DEF a, c
  <1>15. Sum(t)
    BY <1>1, <1>2, <1>9, <1>12, <1>14, SMT DEF Sum
  <1>16. t.absorbed \in Nat /\ t.counted \in Nat
    BY <1>1, <1>2, <1>12, SMT
  <1>17. Good(t) /\ Tells(s, t)
    BY <1>2, <1>6, <1>8, <1>15, <1>16, Recounts
  <1> QED
    BY <1>2, <1>6, <1>17 DEF t

\* reset_stats clears the totals and the counters of the sessions held.
LEMMA Resets ==
  ASSUME Good(v), ResetStats
  PROVE  Good(v') /\ Tells(v, v')
  <1> DEFINE zero(k) == [v.sess[k] EXCEPT !.count = 0]
  <1>1. /\ Typed(v) /\ Sessions(v) /\ DOMAIN v = Fields /\ DOMAIN v.sess = Ids
        /\ Arithmetic /\ \A k \in Ids : SessionType(v.sess[k])
    BY DEF Good, Base, Sum, Typed
  <1>2. /\ Agree(v, v', {"absorbed", "counted", "sess"}) /\ v'.absorbed = 0 /\ v'.counted = 0
        /\ v'.sess = [k \in Ids |-> IF k \in Held(v) THEN zero(k) ELSE v.sess[k]]
    BY <1>1 DEF ResetStats, Agree, Fields
  <1>3. v'.sessions = v.sessions /\ v'.retiring = v.retiring /\ DOMAIN v' = Fields
    BY <1>2 DEF Agree, Fields
  <1>4. \A k \in Ids : Recounted(v.sess[k], zero(k)) /\ zero(k).count = 0
    BY <1>1 DEF Recounted, SessionType, SessionFields
  <1>5. \A k \in Ids : Recounted(v.sess[k], v.sess[k])
    BY <1>1 DEF Recounted, SessionType
  <1>6. \A k \in Ids : v.sess[k] = NoSession => zero(k) = NoSession
    BY SMT DEF NoSession
  <1> HIDE DEF zero
  <1>7. /\ \A k \in Ids : Recounted(v.sess[k], v'.sess[k])
        /\ \A k \in Ids : v.sess[k] = NoSession => v'.sess[k] = NoSession
        /\ DOMAIN v'.sess = Ids /\ \A k \in Held(v) \cap Ids : v'.sess[k].count = 0
    BY <1>2, <1>4, <1>5, <1>6
  <1>8. Sum(v')
    <2>1. Held(v') = Held(v)
      BY <1>3 DEF Held
    <2>2. MaxSessions \in Nat /\ Ids = 1 .. MaxSessions
      BY ServerAssumption DEF Ids
    <2>3. Counts(v') = [k \in 1 .. MaxSessions |-> 0]
      BY <1>7, <2>1, <2>2 DEF Counts
    <2>4. Counts(v') \in Seq(Nat) /\ \A i \in 1 .. Len(Counts(v')) : Counts(v')[i] = 0
      BY <2>2, <2>3, SMT
    <2>5. Total(Counts(v')) = 0
      BY <1>1, <2>4, TotalZero
    <2> QED
      BY <1>1, <1>2, <2>5, SMT DEF Sum
  <1> QED
    BY <1>2, <1>7, <1>8, Recounts, SMT

-----------------------------------------------------------------------------
(* Traffic.                                                                *)

\* A step that leaves the sessions and the run alone tells nobody anything.
LEMMA Silent ==
  ASSUME NEW s, NEW d, NEW t, d.sess = s.sess, d.run = s.run, d.stopping = s.stopping
  PROVE  Tells(d, t) <=> Tells(s, t)
  BY DEF Tells

\* A read that succeeds.
LEMMA Receives ==
  ASSUME Good(v), NEW k \in Ids, Receive(k)
  PROVE  Good(v') /\ Tells(v, v')
  <1> DEFINE c == Count(v, {k})
             p == c.sess[k]
             b == IF Fenced(v, v.sess[k].run) THEN "none" ELSE "data"
             q == v'.sess[k]
  <1>1. /\ v.sess[k].alive /\ v.sess[k].reading /\ v' = [c EXCEPT !.sess[k].callback = b]
    BY DEF Receive, Open
  <1>2. /\ Good(c) /\ Tells(v, c) /\ Agree(v, c, {"absorbed", "counted", "sess"})
        /\ \A j \in Ids : Recounted(v.sess[j], c.sess[j])
    BY <1>1, Counted
  <1> HIDE DEF c
  <1>3. /\ DOMAIN c = Fields /\ DOMAIN c.sess = Ids /\ SessionType(p) /\ Single(p)
        /\ Informed(c, p) /\ Rest(c) /\ Retires(c) /\ DOMAIN p = SessionFields
    BY <1>2 DEF Good, Base, Rest, Typed, Sessions, SessionType
  <1>4. p.alive /\ p.reading
    BY <1>1, <1>2 DEF Recounted, SessionFields
  <1>5. ~In(p.posts, {"start"}) /\ p # NoSession /\ ~Dead(p)
    BY <1>3, <1>4, SMT DEF Single, Dead, NoSession
  <1>6. Agree(c, v', {"sess"}) /\ Beside(c, v', k)
    BY <1>1, <1>3 DEF Agree, Beside, Fields
  <1>7. /\ DOMAIN q = SessionFields /\ q.callback \in {"none", "data"} /\ q.run = p.run
        /\ q.count = p.count /\ q.posts = p.posts /\ q.alive = p.alive
        /\ q.closing = p.closing /\ q.cleanup_done = p.cleanup_done
        /\ q.on_close = p.on_close /\ q.told = p.told /\ q.reading = p.reading
    BY <1>1, <1>3 DEF Fields, SessionFields
  <1>8. v'.sess[k] = q
    OBVIOUS
  <1> HIDE DEF p, q
  <1>9. SessionType(q) /\ Single(q) /\ Informed(c, q)
    BY <1>3, <1>5, <1>7 DEF SessionType, Single, Informed
  <1>10. Good(v')
    BY <1>3, <1>5, <1>6, <1>7, <1>8, <1>9, OneSession DEF p
  <1>11. \A j \in Ids : v'.sess[j].told = c.sess[j].told
    BY <1>6, <1>7, <1>8 DEF Beside, p
  <1> QED
    BY <1>2, <1>10, <1>11 DEF Tells

\* A write to one client.
LEMMA WritesTarget ==
  ASSUME Good(v), NEW k \in Ids, write_target(k)
  PROVE  Good(v') /\ Tells(v, v')
  <1>1. v.sess[k].alive /\ v' = Count(v, {k})
    BY DEF write_target, Open
  <1> QED
    BY <1>1, Counted

\* A write to every client.
LEMMA Broadcasts ==
  ASSUME Good(v), broadcast
  PROVE  Good(v') /\ Tells(v, v')
  <1> DEFINE ks == {k \in v.sessions : Open(v, k) /\ Countable(k)}
  <1>1. ks \subseteq Ids /\ \A k \in ks : v.sess[k].alive
    BY DEF Good, Base, Typed, Open
  <1>2. v' = Count(v, ks)
    BY DEF broadcast
  <1> HIDE DEF ks
  <1> QED
    BY <1>1, <1>2, Counted

\* The client a write is for is another field of the server's.
LEMMA WriterChanges ==
  ASSUME Good(v), NEW w \in Ids \cup {0}
  PROVE  LET d == [v EXCEPT !.writer = w]
         IN  Good(d) /\ d.sess = v.sess /\ d.run = v.run /\ d.stopping = v.stopping
  <1> DEFINE d == [v EXCEPT !.writer = w]
  <1>1. DOMAIN v = Fields /\ Typed(v)
    BY DEF Good, Base, Typed
  <1>2. Agree(v, d, {"writer"}) /\ d.writer = w
    BY <1>1 DEF Agree, Fields
  <1> HIDE DEF d
  <1>3. /\ d.run = v.run /\ d.next = v.next /\ d.sessions = v.sessions
        /\ d.retiring = v.retiring /\ d.remaining = v.remaining /\ d.absorbed = v.absorbed
        /\ d.counted = v.counted /\ d.posts = v.posts /\ d.sess = v.sess /\ DOMAIN d = Fields
        /\ d.stopping = v.stopping
    BY <1>2 DEF Agree, Fields
  <1>4. Typed(d)
    BY <1>1, <1>2, <1>3 DEF Typed
  <1>5. Good(d)
    BY <1>2, <1>4, Frames, SMT
    DEF Good, Base, OfLife, OfDispatched, OfSessions, OfRetires, OfCleans, OfArmed, OfListens,
        OfCurrent, OfSum
  <1> QED
    BY <1>3, <1>5 DEF d

\* A write that names no client takes the current one, and goes to it later.
LEMMA Captures ==
  ASSUME Good(v), CaptureCurrent
  PROVE  Good(v') /\ Tells(v, v')
  <1>1. v' = [v EXCEPT !.writer = v.current] /\ v.current > 0
    BY DEF CaptureCurrent
  <1>2. v.current \in Ids
    BY <1>1, SMT DEF Good, Base, Current, Typed
  <1>3. Good(v') /\ v'.sess = v.sess
    BY <1>1, <1>2, WriterChanges
  <1> QED
    BY <1>3 DEF Tells

\* It is open still, or the write is dropped.
LEMMA WritesCaptured ==
  ASSUME Good(v), WriteCaptured
  PROVE  Good(v') /\ Tells(v, v')
  <1> DEFINE d == [v EXCEPT !.writer = 0]
             k == v.writer
  <1>1. k \in Ids
    BY SMT DEF WriteCaptured, Good, Base, Typed
  <1>2. v' = IF Open(v, k) /\ Countable(k) THEN Count(d, {k}) ELSE d
    BY DEF WriteCaptured
  <1>3. Good(d) /\ d.sess = v.sess /\ d.run = v.run /\ d.stopping = v.stopping
    BY WriterChanges
  <1> HIDE DEF d
  <1>4. CASE Open(v, k) /\ Countable(k)
    <2>1. d.sess[k].alive /\ v' = Count(d, {k})
      BY <1>2, <1>3, <1>4 DEF Open
    <2>2. Good(v') /\ Tells(d, v')
      BY <1>1, <1>3, <2>1, Counted
    <2> QED
      BY <1>3, <2>2, Silent
  <1>5. CASE ~(Open(v, k) /\ Countable(k))
    BY <1>2, <1>3, <1>5 DEF Tells
  <1> QED
    BY <1>4, <1>5

-----------------------------------------------------------------------------
(* The server's strand.                                                    *)

\* The first handler of the server's strand is taken off it.
LEMMA PopServer ==
  ASSUME Good(v), NEW what, First(what)
  PROVE  LET s == Pop
             h == Head(v.posts)
         IN  /\ Agree(v, s, {"posts"}) /\ h \in Handler /\ h.what = what /\ h.run <= v.run
             /\ In(v.posts, {h}) /\ v.publishing = 0
             /\ \A X : /\ In(v.posts, X) <=> In(s.posts, X) \/ h \in X
                       /\ Once(v.posts, X) => Once(s.posts, X) /\ (h \in X => ~In(s.posts, X))
             /\ Typed(s) /\ Life(s) /\ Dispatched(s) /\ Sessions(s) /\ Listens(s)
             /\ Current(s) /\ Sum(s)
             /\ what # "cleanup" => Cleans(s)
             /\ what # "retired" => Retires(s)
             /\ what # "accept" \/ Fenced(s, h.run) => Armed(s)
  <1> DEFINE s == Pop
             h == Head(v.posts)
  <1>1. /\ DOMAIN v = Fields /\ v.posts \in Seq(Handler) /\ v.posts # <<>> /\ h.what = what
        /\ v.publishing = 0 /\ v.run \in Nat
        /\ Typed(v) /\ Dispatched(v) /\ Cleans(v) /\ Retires(v) /\ Armed(v)
    BY DEF Good, Base, Typed, First
  <1>2. Agree(v, s, {"posts"}) /\ s.posts = Tail(v.posts)
    BY <1>1 DEF Pop, Agree, Fields
  <1>3. h \in Handler
    BY <1>1, SMT
  <1> HIDE DEF s, h
  <1>4. \A X : /\ s.posts \in Seq(Handler)
               /\ In(v.posts, X) <=> In(s.posts, X) \/ h \in X
               /\ Once(v.posts, X) => Once(s.posts, X) /\ (h \in X => ~In(s.posts, X))
    BY <1>1, <1>2, TailIn, SMT DEF h
  <1>5. /\ s.run = v.run /\ s.next = v.next /\ s.writer = v.writer /\ s.sessions = v.sessions
        /\ s.retiring = v.retiring /\ s.remaining = v.remaining /\ s.absorbed = v.absorbed
        /\ s.counted = v.counted /\ s.sess = v.sess /\ DOMAIN s = Fields
        /\ s.stopping = v.stopping /\ s.cleanup_started = v.cleanup_started
        /\ s.acceptor = v.acceptor /\ s.accepting = v.accepting /\ s.publishing = v.publishing
        /\ s.timers = v.timers /\ s.run_dispatched = v.run_dispatched
    BY <1>2 DEF Agree, Fields
  <1>6. Typed(s)
    BY <1>1, <1>4, <1>5 DEF Typed
  <1>7. In(v.posts, {h})
    BY <1>4
  <1>8. h.run <= v.run
    <2>1. h \notin Later(v.run) /\ h.run \in Nat
      BY <1>1, <1>3, <1>4 DEF Dispatched, Handler
    <2> QED
      BY <1>1, <1>3, <2>1, SMT DEF Later
  <1>9. Dispatched(s)
    BY <1>1, <1>4, <1>5 DEF Dispatched
  <1>10. ASSUME what # "cleanup" PROVE Cleans(s)
    <2>1. h \notin Cleaning
      BY <1>1, <1>10 DEF Cleaning
    <2> QED
      BY <1>1, <1>4, <1>5, <2>1 DEF Cleans
  <1>11. ASSUME what # "retired" PROVE Retires(s)
    <2>1. \A k \in Ids : h \notin Of("retired", k)
      BY <1>1, <1>11 DEF Of
    <2> QED
      BY <1>1, <1>4, <1>5, <2>1 DEF Retires
  <1>12. ASSUME what # "accept" \/ Fenced(s, h.run) PROVE Armed(s)
    <2>1. h \notin Accepts(s.run) \/ s.stopping
      BY <1>1, <1>12 DEF Accepts, Fenced
    <2> QED
      BY <1>1, <1>4, <1>5, <2>1 DEF Armed
  <1>13. Life(s) /\ Sessions(s) /\ Listens(s) /\ Current(s) /\ Sum(s)
    BY <1>2, Frames, SMT DEF Good, Base, OfLife, OfSessions, OfListens, OfCurrent, OfSum
  <1> QED
    BY <1>1, <1>2, <1>3, <1>4, <1>6, <1>7, <1>8, <1>9, <1>10, <1>11, <1>12, <1>13 DEF s, h

\* The handlers that neither accept, retire nor clean up.
LEMMA PopGood ==
  ASSUME Good(v), NEW what, First(what), what \notin {"cleanup", "retired", "accept"}
  PROVE  /\ Good(Pop) /\ Pop.sess = v.sess /\ Pop.run = v.run /\ Pop.stopping = v.stopping
         /\ Pop.kind = v.kind
  <1>1. Good(Pop) /\ Agree(v, Pop, {"posts"})
    BY PopServer DEF Good, Base
  <1> QED
    BY <1>1 DEF Agree, Fields

\* The port is bound, in the run that asked for it.
LEMMA BindPosted ==
  ASSUME Good(v), First("bind"), NEW r,
         v' = IF Fenced(Pop, Head(v.posts).run) THEN Pop ELSE attempt_port_binding(Pop, 0, r)
  PROVE  Good(v')
  <1> DEFINE s == Pop
             h == Head(v.posts)
  <1>1. Good(s) /\ s.run = v.run /\ s.stopping = v.stopping
    BY PopGood
  <1>2. /\ h \in Handler /\ h.what = "bind" /\ In(v.posts, {h}) /\ Agree(v, s, {"posts"})
        /\ \A X : In(v.posts, X) <=> In(s.posts, X) \/ h \in X
    BY PopServer
  <1>3. v' = IF Fenced(s, h.run) THEN s ELSE attempt_port_binding(s, 0, r)
    OBVIOUS
  <1> HIDE DEF s, h
  <1>4. ASSUME ~Fenced(s, h.run) PROVE s.run_dispatched
    <2>1. h \in Binds(v.run)
      BY <1>1, <1>2, <1>4 DEF Binds, Fenced
    <2>2. v.run_dispatched
      BY <1>2, <2>1 DEF Good, Base, Dispatched
    <2> QED
      BY <1>2, <2>2 DEF Agree, Fields
  <1> QED
    BY <1>1, <1>3, <1>4, Attempt

\* A session's count moves from the session to the totals.
LEMMA Absorbs ==
  ASSUME NEW s, Typed(s), Sum(s), NEW k \in Ids, k \in Held(s), NEW t,
         Held(t) = Held(s) \ {k}, t.sess = s.sess, t.counted = s.counted,
         t.absorbed = s.absorbed + s.sess[k].count
  PROVE  Sum(t) /\ t.absorbed \in Nat
  <1> DEFINE a == Counts(s)
             c == Counts(t)
             n == s.sess[k].count
  <1>1. /\ a \in Seq(Nat) /\ Len(a) = MaxSessions /\ DOMAIN a = Ids
        /\ Ids = 1 .. MaxSessions /\ Total(a) \in Nat /\ a[k] = n
        /\ \A j \in Ids : a[j] = IF j \in Held(s) THEN s.sess[j].count ELSE 0
    BY CountsSeq DEF Sum
  <1>2. s.absorbed \in Nat /\ n \in Nat
    BY DEF Typed, SessionType
  <1>3. c = [a EXCEPT ![k] = 0]
    <2>1. c = [j \in Ids |-> IF j \in Held(s) \ {k} THEN s.sess[j].count ELSE 0]
      BY DEF Counts
    <2>2. a = [j \in Ids |-> IF j \in Held(s) THEN s.sess[j].count ELSE 0]
      BY DEF Counts
    <2> HIDE DEF a, c
    <2> QED
      BY <2>1, <2>2
  <1>4. s.absorbed + Total(a) = s.counted
    BY DEF Sum
  <1> HIDE DEF a, c, n
  <1>5. c \in Seq(Nat) /\ Total(a) = Total(c) + n
    BY <1>1, <1>3 DEF Sum, Arithmetic
  <1>6. Total(c) \in Nat
    BY <1>5, TotalType DEF Sum
  <1>7. t.absorbed + Total(c) = t.counted
    BY <1>1, <1>2, <1>4, <1>5, <1>6, SMT DEF n
  <1> QED
    BY <1>2, <1>7, SMT DEF Sum, c, n

\* A closed session leaves the map of a server that is not stopping.
LEMMA Removes ==
  ASSUME NEW s, Good(s), NEW k \in s.sessions, Dead(s.sess[k]), ~s.stopping, NEW t,
         Agree(s, t, {"sessions", "absorbed", "current", "state"}),
         t.sessions = s.sessions \ {k}, t.absorbed = s.absorbed + s.sess[k].count,
         t.state \in {s.state, "Listening"}, Current(t)
  PROVE  Good(t)
  <1>1. /\ Typed(s) /\ Life(s) /\ Sessions(s) /\ Listens(s) /\ Sum(s) /\ k \in Ids
    BY DEF Good, Base, Typed
  <1>2. /\ t.run = s.run /\ t.stopping = s.stopping /\ t.next = s.next /\ t.posts = s.posts
        /\ t.retiring = s.retiring /\ DOMAIN t = Fields /\ t.writer = s.writer
        /\ t.remaining = s.remaining /\ t.counted = s.counted /\ t.sess = s.sess
        /\ t.run_dispatched = s.run_dispatched /\ t.cleanup_started = s.cleanup_started
        /\ t.cleanup_done = s.cleanup_done /\ t.acceptor = s.acceptor
        /\ t.publishing = s.publishing
    BY DEF Agree, Fields
  <1>3. ~s.cleanup_started /\ ~s.cleanup_done /\ s.retiring = {} /\ s.run_dispatched /\ s.run # 0
    BY <1>1 DEF Life
  <1>4. Held(t) = Held(s) \ {k} /\ k \in Held(s)
    BY <1>2, <1>3 DEF Held
  <1>5. Sum(t) /\ t.absorbed \in Nat
    BY <1>1, <1>2, <1>4, Absorbs
  <1>6. Typed(t)
    BY <1>1, <1>2, <1>5 DEF Typed
  <1>7. Life(t)
    BY <1>1, <1>2, <1>3 DEF Life
  <1>8. Sessions(t)
    <2>1. \A j \in Ids : Informed(s, s.sess[j]) => Informed(t, s.sess[j])
      BY <1>2 DEF Informed, Fenced
    <2> QED
      BY <1>1, <1>2, <1>4, <2>1 DEF Sessions
  <1>9. Listens(t)
    BY <1>1, <1>2, <1>3 DEF Listens
  <1> QED
    BY <1>5, <1>6, <1>7, <1>8, <1>9, Frames, SMT
    DEF Good, Base, OfDispatched, OfRetires, OfCleans, OfArmed

\* The state says that there are clients.
LEMMA OnConnected ==
  ASSUME NEW s, Good(s), s.kind = "tcp", NEW p
  PROVE  Good(on_connected(s, p))
  <1> DEFINE t == [s EXCEPT !.state = "Connected"]
  <1>1. DOMAIN s = Fields /\ Life(s) /\ Listens(s) /\ Current(s)
    BY DEF Good, Base, Typed
  <1>2. CASE Fenced(s, p.run) \/ p.k \notin s.sessions
    BY <1>2 DEF on_connected
  <1>3. CASE ~(Fenced(s, p.run) \/ p.k \notin s.sessions)
    <2>1. Agree(s, t, {"state"}) /\ t.state = "Connected"
      BY <1>1 DEF Agree, Fields
    <2>2. /\ t.run = s.run /\ t.stopping = s.stopping /\ t.cleanup_done = s.cleanup_done
          /\ t.publishing = s.publishing /\ t.sessions = s.sessions /\ t.kind = s.kind
          /\ t.current = s.current /\ t.acceptor = s.acceptor
      BY <1>1 DEF Fields
    <2> HIDE DEF t
    <2>3. s.sessions # {} /\ ~s.stopping
      BY <1>3 DEF Fenced
    <2>4. ~s.cleanup_done /\ s.run # 0
      BY <1>1, <2>3 DEF Life
    <2>5. Listens(t) /\ Current(t)
      BY <1>1, <2>1, <2>2, <2>3, <2>4 DEF Listens, Current
    <2>6. Good(t)
      BY <2>1, <2>5, Frames, SMT
      DEF Good, Base, OfTyped, OfLife, OfDispatched, OfSessions, OfRetires, OfCleans,
          OfArmed, OfSum
    <2> QED
      BY <1>3, <2>6 DEF on_connected, t
  <1> QED
    BY <1>2, <1>3

\* A client that has gone leaves the map, and another one becomes the current one.
LEMMA OnGone ==
  ASSUME NEW s, Good(s), s.kind = "tcp", NEW p, p.k \in Ids, Dead(s.sess[p.k]),
         NEW next, next \in (IF s.sessions \ {p.k} = {} THEN {0} ELSE s.sessions \ {p.k})
  PROVE  Good(on_gone(s, p, next))
  <1> DEFINE k == p.k
             a == absorb_session(s, k)
             d == [a EXCEPT !.sessions = @ \ {k}]
             e == [d EXCEPT !.current = next, !.state = "Listening"]
  <1>1. DOMAIN s = Fields /\ Current(s) /\ k # 0
    BY SMT DEF Good, Base, Typed, Ids
  <1>2. CASE Fenced(s, p.run)
    BY <1>2 DEF on_gone
  <1>3. CASE ~Fenced(s, p.run) /\ k \notin s.sessions
    <2>1. s.current # k
      BY <1>1, <1>3 DEF Current
    <2> QED
      BY <1>3, <2>1 DEF on_gone
  <1>4. CASE ~Fenced(s, p.run) /\ k \in s.sessions
    <2>1. /\ Agree(s, d, {"sessions", "absorbed", "current", "state"})
          /\ d.sessions = s.sessions \ {k} /\ d.absorbed = s.absorbed + s.sess[k].count
          /\ d.current = s.current /\ d.state = s.state /\ DOMAIN d = Fields
      BY <1>1 DEF absorb_session, Agree, Fields
    <2>2. /\ d.kind = s.kind /\ d.stopping = s.stopping /\ ~s.stopping
      BY <1>4, <2>1 DEF Agree, Fields, Fenced
    <2> HIDE DEF d
    <2>3. /\ Agree(s, e, {"sessions", "absorbed", "current", "state"})
          /\ e.sessions = s.sessions \ {k} /\ e.absorbed = s.absorbed + s.sess[k].count
          /\ e.current = next /\ e.state = "Listening" /\ e.kind = s.kind
      BY <2>1, <2>2 DEF Agree, Fields
    <2> HIDE DEF e
    <2>4. CASE s.current # k
      <3>1. s.sessions \ {k} # {} /\ s.current \in s.sessions \ {k}
        BY <1>1, <1>4, <2>4 DEF Current
      <3>2. Current(d)
        BY <1>1, <2>1, <2>2, <3>1 DEF Current
      <3>3. Good(d)
        BY <1>4, <2>1, <2>2, <3>2, Removes
      <3> QED
        BY <1>4, <2>4, <3>3 DEF on_gone, d
    <2>5. CASE s.current = k
      <3>1. Current(e)
        BY <2>3 DEF Current
      <3>2. Good(e)
        BY <1>4, <2>2, <2>3, <3>1, Removes
      <3> QED
        BY <1>4, <2>5, <3>2 DEF on_gone, d, e
    <2> QED
      BY <2>4, <2>5
  <1> QED
    BY <1>2, <1>3, <1>4

\* The UDS server takes a closed session out of the map on the session's strand.
LEMMA UdsReturns ==
  ASSUME Good(v), v.kind = "uds", NEW k \in Ids, UdsReturn(k)
  PROVE  Good(v') /\ Tells(v, v')
  <1> DEFINE d == [v EXCEPT !.sess[k].callback = "none"]
             a == absorb_session(d, k)
             t == [a EXCEPT !.sessions = @ \ {k}]
  <1>1. /\ Good(d) /\ Tells(v, d) /\ Agree(v, d, {"sess"})
        /\ v.sess[k].callback = "disconnect" => Dead(d.sess[k])
    BY CallbackOver DEF UdsReturn
  <1>2. v' = IF v.sess[k].callback = "disconnect" THEN Erase(d, k) ELSE d
    BY DEF UdsReturn
  <1> HIDE DEF d
  <1>3. DOMAIN d = Fields /\ d.kind = "uds" /\ Current(d)
    BY <1>1 DEF Agree, Fields, Good, Base
  <1>4. ASSUME v.sess[k].callback = "disconnect", ~Fenced(d, d.sess[k].run), k \in d.sessions
        PROVE  Good(t) /\ Tells(v, t)
    <2>1. /\ Agree(d, t, {"sessions", "absorbed", "current", "state"})
          /\ t.sessions = d.sessions \ {k} /\ t.absorbed = d.absorbed + d.sess[k].count
          /\ t.current = d.current /\ t.state = d.state
      BY <1>3 DEF absorb_session, Agree, Fields
    <2>2. t.kind = d.kind /\ t.stopping = d.stopping /\ t.sess = d.sess /\ ~d.stopping
      BY <1>4, <2>1, SMT DEF Agree, Fields, Fenced
    <2> HIDE DEF t
    <2>3. Current(t)
      BY <1>3, <2>1, <2>2 DEF Current
    <2>4. Good(t)
      BY <1>1, <1>4, <2>1, <2>2, <2>3, Removes
    <2> QED
      BY <1>1, <2>2, <2>4 DEF Tells
  <1>5. CASE v.sess[k].callback # "disconnect"
    BY <1>1, <1>2, <1>5
  <1>6. CASE v.sess[k].callback = "disconnect" /\ (Fenced(d, d.sess[k].run) \/ k \notin d.sessions)
    BY <1>1, <1>2, <1>6 DEF Erase
  <1>7. CASE v.sess[k].callback = "disconnect" /\ ~(Fenced(d, d.sess[k].run) \/ k \notin d.sessions)
    BY <1>2, <1>4, <1>7 DEF Erase
  <1> QED
    BY <1>5, <1>6, <1>7

\* The answer of a session that was stopped; the last one ends the cleanup.
LEMMA RetiredPosted ==
  ASSUME Good(v), First("retired"), NEW idle \in {"Closed", "Idle"},
         v' = on_retired(Pop, Head(v.posts).k, idle)
  PROVE  Good(v') /\ v'.sess = v.sess
  <1> DEFINE s == Pop
             h == Head(v.posts)
             k == h.k
             a == absorb_session(s, k)
             d == [a EXCEPT !.retiring = @ \ {k}]
             e == [d EXCEPT !.remaining = @ - 1]
             f == finish_cleanup(e, idle)
  <1>1. /\ Agree(v, s, {"posts"}) /\ h \in Handler /\ h.what = "retired"
        /\ Typed(s) /\ Life(s) /\ Dispatched(s) /\ Sessions(s) /\ Listens(s)
        /\ Current(s) /\ Sum(s) /\ Cleans(s)
        /\ \A X : /\ In(v.posts, X) <=> In(s.posts, X) \/ h \in X
                  /\ Once(v.posts, X) => Once(s.posts, X) /\ (h \in X => ~In(s.posts, X))
    BY PopServer, SMT
  <1>2. v' = on_retired(s, k, idle)
    OBVIOUS
  <1>3. Retires(v) /\ Dispatched(v)
    BY DEF Good, Base
  <1> HIDE DEF s, h
  <1>4. s.sess = v.sess /\ s.retiring = v.retiring /\ DOMAIN s = Fields
    BY <1>1 DEF Agree, Fields
  <1>5. h \in Of("retired", k) /\ In(v.posts, Of("retired", k))
    BY <1>1 DEF Of
  <1>6. k \in Ids
    BY <1>1, <1>3, <1>5 DEF Handler, Dispatched
  <1>7. /\ k \in s.retiring /\ Dead(s.sess[k]) /\ ~In(s.sess[k].posts, {"stop"})
        /\ ~In(s.posts, Of("retired", k))
    BY <1>1, <1>3, <1>4, <1>5, <1>6 DEF Retires
  <1>8. \A j \in Ids : j # k => h \notin Of("retired", j)
    BY DEF Of
  <1>9. \A j \in Ids : h \notin Of("gone", j)
    BY <1>1 DEF Of
  <1>10. /\ s.cleanup_started /\ s.stopping /\ s.sessions = {} /\ s.publishing = 0 /\ ~s.acceptor
         /\ s.remaining = Cardinality(s.retiring) /\ ~s.cleanup_done
    BY <1>1, <1>7 DEF Life
  <1>11. /\ Cardinality(s.retiring \ {k}) = s.remaining - 1
         /\ s.remaining - 1 \in Nat /\ (s.remaining - 1 = 0 <=> s.retiring \ {k} = {})
    <2>1. s.retiring \subseteq Ids /\ s.retiring \ {k} \subseteq Ids
      BY <1>1 DEF Typed
    <2>2. Arithmetic
      BY DEF Good, Base, Sum
    <2>3. /\ Cardinality(s.retiring \ {k}) \in Nat
          /\ Cardinality(s.retiring \ {k}) = 0 <=> s.retiring \ {k} = {}
      BY <2>1, <2>2, FiniteIds
    <2>4. Cardinality(s.retiring \ {k}) = Cardinality(s.retiring) - 1
      BY <1>7, <2>1, <2>2, FiniteIds
    <2> QED
      BY <1>10, <2>3, <2>4
  <1>12. /\ Agree(s, e, {"absorbed", "retiring", "remaining"})
         /\ e.absorbed = s.absorbed + s.sess[k].count /\ e.retiring = s.retiring \ {k}
         /\ e.remaining = s.remaining - 1
    BY <1>4 DEF absorb_session, Agree, Fields
  <1>13. v' = IF e.remaining = 0 THEN f ELSE e
    BY <1>2, <1>7 DEF on_retired
  <1> HIDE DEF e
  <1>14. /\ Agree(e, f, {"state", "cleanup_done"}) /\ f.state = idle /\ f.cleanup_done = TRUE
    BY <1>12 DEF finish_cleanup, Agree, Fields
  <1> HIDE DEF f
  <1> DEFINE t == v'
  <1>15. /\ Agree(s, t, {"absorbed", "retiring", "remaining", "state", "cleanup_done"})
         /\ t.absorbed = s.absorbed + s.sess[k].count /\ t.retiring = s.retiring \ {k}
         /\ t.remaining = s.remaining - 1
         /\ (s.retiring \ {k} = {} /\ t.cleanup_done /\ t.state = idle)
            \/ (s.retiring \ {k} # {} /\ t.cleanup_done = s.cleanup_done /\ t.state = s.state)
    <2>1. CASE e.remaining = 0
      BY <1>11, <1>12, <1>13, <1>14, <2>1, SMT DEF Agree, Fields
    <2>2. CASE e.remaining # 0
      BY <1>11, <1>12, <1>13, <2>2 DEF Agree, Fields
    <2> QED
      BY <2>1, <2>2
  <1> HIDE DEF t
  <1>16. /\ t.run = s.run /\ t.stopping = s.stopping /\ t.next = s.next /\ t.posts = s.posts
         /\ t.sessions = s.sessions /\ DOMAIN t = Fields /\ t.writer = s.writer
         /\ t.counted = s.counted /\ t.sess = s.sess
         /\ t.run_dispatched = s.run_dispatched /\ t.cleanup_started = s.cleanup_started
         /\ t.acceptor = s.acceptor /\ t.publishing = s.publishing /\ t.kind = s.kind
         /\ t.current = s.current
    BY <1>15, SMT DEF Agree, Fields
  <1>17. Held(t) = Held(s) \ {k} /\ k \in Held(s)
    BY <1>7, <1>10, <1>15, <1>16 DEF Held
  <1>18. Sum(t) /\ t.absorbed \in Nat
    BY <1>1, <1>6, <1>15, <1>16, <1>17, Absorbs, SMT
  <1>19. Typed(t)
    BY <1>1, <1>11, <1>15, <1>16, <1>18 DEF Typed
  <1>20. Life(t)
    BY <1>1, <1>10, <1>11, <1>15, <1>16 DEF Life
  <1>21. Sessions(t)
    <2>1. \A j \in Ids : Informed(s, s.sess[j]) => Informed(t, s.sess[j])
      BY <1>16 DEF Informed, Fenced
    <2> QED
      BY <1>1, <1>7, <1>16, <1>17, <2>1 DEF Sessions
  <1>22. Retires(t)
    BY <1>1, <1>3, <1>4, <1>7, <1>8, <1>9, <1>15, <1>16 DEF Retires
  <1>23. Listens(t) /\ Current(t) /\ Armed(t)
    BY <1>1, <1>10, <1>15, <1>16 DEF Listens, Current, Armed
  <1>24. Good(t)
    BY <1>1, <1>15, <1>18, <1>19, <1>20, <1>21, <1>22, <1>23, Frames, SMTT(30) DEF Good, Base, OfDispatched, OfCleans
  <1> QED
    BY <1>4, <1>16, <1>24 DEF t

\* The cleanup of a server that is stopping: its sessions are told to stop, and
\* without any it is over.
LEMMA Cleanup ==
  ASSUME NEW s, Base(s), s.stopping, ~s.cleanup_started, s.publishing = 0,
         ~In(s.posts, Cleaning), NEW idle \in {"Closed", "Idle"}
  PROVE  LET t == perform_cleanup(s, idle)
         IN  Good(t) /\ \A k \in Ids : t.sess[k].told = s.sess[k].told
  <1> DEFINE d == [s EXCEPT !.cleanup_started = TRUE, !.acceptor = FALSE, !.current = 0,
                            !.retiring = s.sessions, !.sessions = s.retiring,
                            !.remaining = Cardinality(s.sessions)]
             ended(q) == [q EXCEPT !.closing = TRUE, !.posts = Append(@, "stop")]
             g == [k \in Ids |-> IF k \in s.sessions THEN ended(s.sess[k]) ELSE s.sess[k]]
             e == [d EXCEPT !.sess = g]
             f == finish_cleanup(d, idle)
             t == perform_cleanup(s, idle)
  <1>1. /\ Typed(s) /\ Life(s) /\ Dispatched(s) /\ Sessions(s) /\ Retires(s) /\ Listens(s)
        /\ Current(s) /\ Sum(s) /\ DOMAIN s = Fields /\ DOMAIN s.sess = Ids
        /\ s.retiring = {} /\ s.sessions \subseteq Ids /\ ~s.cleanup_done
    BY DEF Base, Typed, Life
  <1>2. /\ Cardinality(s.sessions) \in Nat /\ (Cardinality(s.sessions) = 0 <=> s.sessions = {})
    BY <1>1, FiniteIds DEF Sum
  <1>3. /\ DOMAIN d = Fields /\ d.cleanup_started = TRUE /\ d.acceptor = FALSE /\ d.current = 0
        /\ d.retiring = s.sessions /\ d.sessions = {} /\ d.remaining = Cardinality(s.sessions)
        /\ \A x \in Fields \ {"cleanup_started", "acceptor", "current", "retiring",
                              "sessions", "remaining"} : d[x] = s[x]
    BY <1>1 DEF Fields
  <1> HIDE DEF d
  <1>4. d.sess = s.sess /\ d.retiring = s.sessions
    BY <1>3 DEF Fields
  <1>5. async_stop(d, d.retiring) = e
    BY <1>4 DEF async_stop
  <1>6. t = IF s.sessions = {} THEN f ELSE e
    BY <1>5 DEF perform_cleanup, d
  <1>7. \A k \in Ids :
          LET p == s.sess[k]
              q == ended(p)
          IN  /\ DOMAIN q = SessionFields /\ q.run = p.run /\ q.count = p.count
              /\ q.posts = Append(p.posts, "stop") /\ q.alive = p.alive /\ q.closing = TRUE
              /\ q.cleanup_done = p.cleanup_done /\ q.on_close = p.on_close
              /\ q.callback = p.callback /\ q.told = p.told /\ q.reading = p.reading
    <2>1. \A k \in Ids : DOMAIN s.sess[k] = SessionFields
      BY <1>1 DEF Typed, SessionType
    <2> QED
      BY <2>1 DEF SessionFields
  <1> HIDE DEF ended
  <1>8. \A k \in Ids : g[k] = IF k \in s.sessions THEN ended(s.sess[k]) ELSE s.sess[k]
    OBVIOUS
  <1>9. DOMAIN g = Ids
    OBVIOUS
  <1> HIDE DEF g
  <1>10. /\ DOMAIN e = Fields /\ e.sess = g /\ \A x \in Fields \ {"sess"} : e[x] = d[x]
    BY <1>3 DEF Fields
  <1>11. /\ DOMAIN f = Fields /\ f.state = idle /\ f.cleanup_done = TRUE
         /\ \A x \in Fields \ {"state", "cleanup_done"} : f[x] = d[x]
    BY <1>3 DEF Fields, finish_cleanup
  <1> HIDE DEF e, f, t
  <1>12. /\ DOMAIN t = Fields /\ t.cleanup_started /\ ~t.acceptor /\ t.current = 0
         /\ t.retiring = s.sessions /\ t.sessions = {} /\ t.remaining = Cardinality(s.sessions)
         /\ \A x \in Fields \ {"cleanup_started", "acceptor", "current", "retiring",
                               "sessions", "remaining", "sess", "state", "cleanup_done"} :
              t[x] = s[x]
    BY <1>3, <1>6, <1>10, <1>11, SMT DEF Fields
  <1>13. /\ s.sessions = {} => t.state = idle /\ t.cleanup_done /\ t.sess = s.sess
         /\ s.sessions # {} => t.state = s.state /\ ~t.cleanup_done /\ t.sess = g
    BY <1>1, <1>3, <1>4, <1>6, <1>10, <1>11, SMT DEF Fields
  <1>14. /\ t.run = s.run /\ t.stopping = s.stopping /\ t.next = s.next /\ t.posts = s.posts
         /\ t.writer = s.writer /\ t.counted = s.counted /\ t.absorbed = s.absorbed
         /\ t.run_dispatched = s.run_dispatched /\ t.publishing = 0 /\ t.kind = s.kind
         /\ t.timers = s.timers
    BY <1>12 DEF Fields
  <1>15. /\ DOMAIN t.sess = Ids
         /\ \A k \in Ids : t.sess[k] = IF k \in s.sessions THEN ended(s.sess[k]) ELSE s.sess[k]
    BY <1>1, <1>8, <1>9, <1>13
  <1>16. Held(t) = Held(s) /\ Held(s) = s.sessions
    BY <1>1, <1>12 DEF Held
  <1> DEFINE p(k) == s.sess[k]
             q(k) == t.sess[k]
  <1>17. \A k \in Ids :
           /\ DOMAIN q(k) = SessionFields /\ q(k).run = p(k).run /\ q(k).count = p(k).count
           /\ q(k).alive = p(k).alive /\ q(k).cleanup_done = p(k).cleanup_done
           /\ q(k).on_close = p(k).on_close /\ q(k).callback = p(k).callback
           /\ q(k).told = p(k).told /\ q(k).reading = p(k).reading
           /\ k \in s.sessions => q(k).posts = Append(p(k).posts, "stop")
           /\ k \notin s.sessions => q(k) = p(k)
    <2>1. TAKE k \in Ids
    <2>2. CASE k \in s.sessions
      <3>1. q(k) = ended(p(k))
        BY <1>15, <2>2
      <3>2. QED
        BY <1>7, <2>2, <3>1
    <2>3. CASE k \notin s.sessions
      BY <1>1, <1>15, <2>3 DEF Typed, SessionType
    <2> QED
      BY <2>2, <2>3
  <1>17a. /\ \A k \in Ids : SessionType(p(k)) /\ Single(p(k))
          /\ \A k \in Ids : ~In(p(k).posts, {"stop"})
    BY <1>1 DEF Typed, Sessions, Retires
  <1> HIDE DEF p, q
  <1>17b. ASSUME NEW k \in s.sessions
          PROVE  /\ q(k).posts \in Seq(Items) /\ In(q(k).posts, {"stop"})
                 /\ Once(q(k).posts, {"stop"})
                 /\ In(q(k).posts, {"start"}) <=> In(p(k).posts, {"start"})
                 /\ Once(p(k).posts, {"start"}) => Once(q(k).posts, {"start"})
                 /\ In(p(k).posts, {"start"}) => Head(q(k).posts) = Head(p(k).posts)
    <2> DEFINE x == p(k).posts
               y == q(k).posts
    <2>1. k \in Ids /\ y = Append(x, "stop") /\ x \in Seq(Items)
      BY <1>1, <1>17, <1>17a DEF SessionType
    <2>2. ~In(x, {"stop"}) /\ Once(x, {"stop"})
      BY <1>17a, <2>1 DEF Single
    <2>3. "stop" \in Items /\ "stop" \in {"stop"} /\ "stop" \notin {"start"}
      BY DEF Items
    <2>4. In(x, {"start"}) => x # <<>>
      BY EmptyIn
    <2> HIDE DEF x, y
    <2>5. y \in Seq(Items)
      BY ONLY <2>1, <2>3, SMT
    <2>6. /\ In(y, {"stop"}) /\ Once(y, {"stop"})
          /\ In(y, {"start"}) <=> In(x, {"start"})
          /\ Once(x, {"start"}) => Once(y, {"start"})
          /\ x # <<>> => Head(y) = Head(x)
      BY ONLY <2>1, <2>2, <2>3, AppendIn, Zenon
    <2> QED
      BY <2>4, <2>5, <2>6 DEF x, y
  <1>18. Typed(t)
    <2>1. \A k \in Ids : SessionType(q(k))
      BY <1>17, <1>17a, <1>17b DEF SessionType
    <2> QED
      BY <1>1, <1>2, <1>12, <1>14, <1>15, <2>1 DEF Typed, q
  <1>19. Life(t)
    BY <1>1, <1>2, <1>12, <1>13, <1>14 DEF Life
  <1>20. Dispatched(t)
    BY <1>1, <1>14 DEF Dispatched
  <1>21. \A k \in Ids : Single(q(k))
    <2>1. TAKE k \in Ids
    <2>2. CASE k \in s.sessions
      <3>1. Single(p(k))
        BY <1>17a
      <3>2. /\ q(k).alive = p(k).alive /\ q(k).cleanup_done = p(k).cleanup_done
            /\ q(k).on_close = p(k).on_close /\ q(k).callback = p(k).callback
            /\ q(k).told = p(k).told /\ q(k).reading = p(k).reading
        BY <1>17
      <3>3. /\ Once(q(k).posts, {"stop"})
            /\ In(q(k).posts, {"start"}) <=> In(p(k).posts, {"start"})
            /\ Once(p(k).posts, {"start"}) => Once(q(k).posts, {"start"})
            /\ In(p(k).posts, {"start"}) => Head(q(k).posts) = Head(p(k).posts)
        BY <1>17b, <2>2
      <3>4. QED
        BY ONLY <3>1, <3>2, <3>3, Zenon DEF Single
    <2>3. CASE k \notin s.sessions
      BY <1>17, <1>17a, <2>3
    <2> QED
      BY <2>2, <2>3
  <1>22. Sessions(t)
    <2>1. \A k \in Ids : Informed(t, q(k))
      BY <1>14 DEF Informed, Fenced
    <2>2. \A k \in Ids :
            /\ p(k).run <= s.run /\ (k >= s.next => p(k) = NoSession)
            /\ k \in Held(s) => k < s.next /\ p(k).run = s.run
            /\ k \notin Held(s) => p(k) = NoSession \/ Dead(p(k))
      BY <1>1 DEF Sessions, p
    <2>3. \A k \in s.sessions : k < s.next /\ ~(k >= s.next)
      <3>1. \A k \in Ids : k < s.next => ~(k >= s.next)
        BY <1>1, SMT DEF Ids, Typed
      <3>2. QED
        BY <1>1, <1>16, <2>2, <3>1
    <2>4. \A k \in Ids :
            /\ q(k).run <= t.run /\ (k >= t.next => q(k) = NoSession)
            /\ k \in Held(t) => k < t.next /\ q(k).run = t.run
            /\ k \notin Held(t) => q(k) = NoSession \/ Dead(q(k))
      <3>1. TAKE k \in Ids
      <3>2. q(k).run = p(k).run /\ (Dead(p(k)) => Dead(q(k)))
        BY <1>17 DEF Dead
      <3>3. k \notin s.sessions => q(k) = p(k)
        BY <1>17
      <3>4. QED
        BY <1>14, <1>16, <2>2, <2>3, <3>2, <3>3
    <2> QED
      BY <1>21, <2>1, <2>4 DEF Sessions, q
  <1>23. Retires(t)
    <2>1. \A k \in Ids : ~In(s.posts, Of("retired", k)) /\ Once(s.posts, Of("retired", k))
      BY <1>1 DEF Retires
    <2>2. \A k \in Ids : In(s.posts, Of("gone", k)) => Dead(q(k))
      <3>1. \A k \in Ids : In(s.posts, Of("gone", k)) => Dead(p(k))
        BY <1>1 DEF Retires, p
      <3>2. QED
        BY <1>17, <3>1 DEF Dead
    <2>3. \A k \in Ids : In(q(k).posts, {"stop"}) <=> k \in s.sessions
      BY <1>17, <1>17a, <1>17b
    <2> QED
      BY <1>12, <1>14, <2>1, <2>2, <2>3 DEF Retires, q
  <1>24. Listens(t) /\ Current(t)
    BY <1>1, <1>12, <1>13, <1>14 DEF Listens, Current
  <1>25. Cleans(t) /\ Armed(t)
    BY <1>12, <1>14 DEF Cleans, Armed, In, Once
  <1>26. Sum(t)
    <2>1. Counts(t) = Counts(s)
      BY <1>16, <1>17 DEF Counts, p, q
    <2> QED
      BY <1>1, <1>14, <2>1 DEF Sum
  <1>27. \A k \in Ids : t.sess[k].told = s.sess[k].told
    BY <1>17 DEF p, q
  <1> QED
    BY <1>18, <1>19, <1>20, <1>22, <1>23, <1>24, <1>25, <1>26, <1>27 DEF Good, Base, t

\* stop() marks the run and its sessions first.
LEMMA Marks ==
  ASSUME NEW s, Good(s), ~s.stopping
  PROVE  LET d == [s EXCEPT !.stopping = TRUE,
                            !.sess = [k \in Ids |-> IF k \in s.sessions
                                         THEN [s.sess[k] EXCEPT !.closing = TRUE] ELSE s.sess[k]]]
         IN  /\ Base(d) /\ d.stopping /\ ~d.cleanup_started /\ d.posts = s.posts
             /\ ~In(d.posts, Cleaning) /\ d.run_dispatched = s.run_dispatched
             /\ d.publishing = s.publishing /\ DOMAIN d = Fields
             /\ \A k \in Ids : d.sess[k].told = s.sess[k].told
  <1> DEFINE marked(q) == [q EXCEPT !.closing = TRUE]
             g == [k \in Ids |-> IF k \in s.sessions THEN marked(s.sess[k]) ELSE s.sess[k]]
             d == [s EXCEPT !.stopping = TRUE, !.sess = g]
  <1>1. /\ Typed(s) /\ Life(s) /\ Sessions(s) /\ Retires(s) /\ Listens(s)
        /\ Current(s) /\ Sum(s) /\ Cleans(s) /\ DOMAIN s = Fields /\ DOMAIN s.sess = Ids
        /\ s.sessions \subseteq Ids
    BY DEF Good, Base, Typed
  <1>2. \A k \in Ids :
          LET p == s.sess[k]
              q == marked(p)
          IN  /\ DOMAIN q = SessionFields /\ q.run = p.run /\ q.count = p.count
              /\ q.posts = p.posts /\ q.alive = p.alive
              /\ q.cleanup_done = p.cleanup_done /\ q.on_close = p.on_close
              /\ q.callback = p.callback /\ q.told = p.told /\ q.reading = p.reading
    <2>1. \A k \in Ids : DOMAIN s.sess[k] = SessionFields
      BY <1>1 DEF Typed, SessionType
    <2> QED
      BY <2>1 DEF SessionFields
  <1> HIDE DEF marked
  <1>3. DOMAIN g = Ids /\ \A k \in Ids : g[k] = IF k \in s.sessions THEN marked(s.sess[k]) ELSE s.sess[k]
    OBVIOUS
  <1> HIDE DEF g
  <1>4. Agree(s, d, {"stopping", "sess"}) /\ d.stopping = TRUE /\ d.sess = g
    BY <1>1 DEF Agree, Fields
  <1> HIDE DEF d
  <1>5. /\ d.run = s.run /\ d.next = s.next /\ d.posts = s.posts /\ d.retiring = s.retiring
        /\ d.sessions = s.sessions /\ DOMAIN d = Fields /\ d.writer = s.writer
        /\ d.remaining = s.remaining /\ d.counted = s.counted /\ d.absorbed = s.absorbed
        /\ d.run_dispatched = s.run_dispatched /\ d.cleanup_started = s.cleanup_started
        /\ d.cleanup_done = s.cleanup_done /\ d.acceptor = s.acceptor
        /\ d.publishing = s.publishing /\ d.kind = s.kind /\ d.current = s.current
        /\ d.state = s.state
    BY <1>4 DEF Agree, Fields
  <1>6. \A k \in Ids :
          LET p == s.sess[k]
              q == d.sess[k]
          IN  /\ q.run = p.run /\ q.count = p.count
              /\ q.posts = p.posts /\ q.alive = p.alive
              /\ q.cleanup_done = p.cleanup_done /\ q.on_close = p.on_close
              /\ q.callback = p.callback /\ q.told = p.told /\ q.reading = p.reading
    BY <1>2, <1>3, <1>4, SMT
  <1>7. Typed(d)
    <2>1. \A k \in Ids : SessionType(d.sess[k])
      BY <1>1, <1>2, <1>3, <1>4, SMT DEF Typed, SessionType
    <2> QED
      BY <1>1, <1>3, <1>4, <1>5, <2>1 DEF Typed
  <1>8. Life(d)
    BY <1>1, <1>4, <1>5 DEF Life
  <1>9. Held(d) = Held(s)
    BY <1>5 DEF Held
  <1>10. Sessions(d)
    <2>1. \A k \in Ids : Informed(d, d.sess[k])
      BY <1>4 DEF Informed, Fenced
    <2>2. \A k \in Ids : Single(s.sess[k]) => Single(d.sess[k])
      BY <1>6 DEF Single
    <2>3. \A k \in s.sessions : k < s.next /\ ~(k >= s.next) /\ k \in Held(s)
      BY <1>1, SMT DEF Sessions, Ids, Typed, Held
    <2>4. \A k \in Ids : k \notin s.sessions => d.sess[k] = s.sess[k]
      BY <1>3, <1>4
    <2> QED
      BY <1>1, <1>5, <1>6, <1>9, <2>1, <2>2, <2>3, <2>4, SMT DEF Sessions
  <1>11. Retires(d)
    <2>1. \A k \in Ids : Dead(d.sess[k]) <=> Dead(s.sess[k])
      BY <1>6 DEF Dead
    <2> QED
      BY <1>1, <1>5, <1>6, <2>1 DEF Retires
  <1>12. Listens(d) /\ Current(d)
    BY <1>1, <1>4, <1>5 DEF Listens, Current
  <1>13. Sum(d)
    <2>1. Counts(d) = Counts(s)
      BY <1>6, <1>9 DEF Counts
    <2> QED
      BY <1>1, <1>5, <2>1 DEF Sum
  <1>14. Base(d)
    BY <1>4, <1>7, <1>8, <1>10, <1>11, <1>12, <1>13, Frames, SMT DEF Good, Base, OfDispatched
  <1>15. ~d.cleanup_started /\ ~In(d.posts, Cleaning)
    BY <1>1, <1>5 DEF Life, Cleans
  <1> QED
    BY <1>4, <1>5, <1>6, <1>14, <1>15 DEF d, g, marked

\* Then the cleanup is posted, or done here when nothing runs on the strand.
LEMMA Stops ==
  ASSUME NEW s, Good(s), NEW idle \in {"Closed", "Idle"}
  PROVE  LET t == stop(s, idle)
         IN  Good(t) /\ \A k \in Ids : t.sess[k].told = s.sess[k].told
  <1> DEFINE d == [s EXCEPT !.stopping = TRUE,
                            !.sess = [k \in Ids |-> IF k \in s.sessions
                                         THEN [s.sess[k] EXCEPT !.closing = TRUE] ELSE s.sess[k]]]
             h == [what |-> "cleanup", k |-> 0, run |-> d.run]
             t == Post(d, "cleanup", 0)
  <1>1. CASE s.stopping
    BY <1>1 DEF stop
  <1>2. CASE ~s.stopping
    <2>1. /\ Base(d) /\ d.stopping /\ ~d.cleanup_started /\ d.posts = s.posts
          /\ ~In(d.posts, Cleaning) /\ d.run_dispatched = s.run_dispatched
          /\ d.publishing = s.publishing /\ DOMAIN d = Fields
          /\ \A k \in Ids : d.sess[k].told = s.sess[k].told
      BY <1>2, Marks
    <2>2. stop(s, idle) = IF s.run_dispatched THEN t ELSE perform_cleanup(d, idle)
      BY <1>2 DEF stop
    <2> HIDE DEF d
    <2>3. CASE ~s.run_dispatched
      <3>1. d.publishing = 0
        BY <2>1, <2>3 DEF Base, Life
      <3>2. /\ Good(perform_cleanup(d, idle))
            /\ \A k \in Ids : perform_cleanup(d, idle).sess[k].told = d.sess[k].told
        BY <2>1, <3>1, Cleanup
      <3> QED
        BY <2>1, <2>2, <2>3, <3>2
    <2>4. CASE s.run_dispatched
      <3>1. /\ Typed(d) /\ Dispatched(d) /\ Retires(d) /\ d.posts \in Seq(Handler)
            /\ d.run \in Nat
        BY <2>1 DEF Base, Typed
      <3>2. Agree(d, t, {"posts"}) /\ t.posts = Append(d.posts, h)
        BY <2>1 DEF Post, Agree, Fields
      <3>3. h \in Handler /\ h.what = "cleanup" /\ h.k = 0 /\ h.run = d.run
        BY <3>1 DEF Handler
      <3> HIDE DEF h, t
      <3>4. \A X : /\ In(t.posts, X) <=> In(d.posts, X) \/ h \in X
                   /\ Once(d.posts, X) /\ (h \in X => ~In(d.posts, X)) => Once(t.posts, X)
        BY <3>1, <3>2, <3>3, AppendIn, SMT
      <3>5. /\ h \in Cleaning /\ h \notin Later(d.run) /\ h \notin Binds(d.run)
            /\ \A k : h \notin Of("retired", k) /\ h \notin Of("gone", k)
        BY <3>1, <3>3, SMT DEF Of, Cleaning, Later, Binds
      <3>6. /\ t.run = d.run /\ t.next = d.next /\ t.writer = d.writer
            /\ t.sessions = d.sessions /\ t.retiring = d.retiring /\ t.remaining = d.remaining
            /\ t.absorbed = d.absorbed /\ t.counted = d.counted /\ t.sess = d.sess
            /\ DOMAIN t = Fields /\ t.stopping = d.stopping /\ t.timers = d.timers
            /\ t.cleanup_started = d.cleanup_started /\ t.run_dispatched = d.run_dispatched
        BY <3>2 DEF Agree, Fields
      <3>7. t.posts \in Seq(Handler)
        BY <3>1, <3>2, <3>3, SMT
      <3>8. Typed(t)
        BY <3>1, <3>6, <3>7 DEF Typed
      <3>9. Dispatched(t)
        BY <3>1, <3>4, <3>5, <3>6 DEF Dispatched
      <3>10. Retires(t)
        BY <3>1, <3>4, <3>5, <3>6 DEF Retires
      <3>11. Once(d.posts, Cleaning)
        BY <2>1 DEF In, Once
      <3>12. Cleans(t) /\ Armed(t)
        BY <2>1, <2>4, <3>4, <3>5, <3>6, <3>11 DEF Cleans, Armed
      <3>13. Good(t)
        BY <2>1, <3>2, <3>8, <3>9, <3>10, <3>12, Frames, SMTT(30) DEF Good, Base, OfLife, OfSessions, OfListens, OfCurrent, OfSum
      <3> QED
        BY <2>1, <2>2, <2>4, <3>6, <3>13, SMT
    <2> QED
      BY <2>3, <2>4
  <1> QED
    BY <1>1, <1>2

\* The cleanup that stop() posted.
LEMMA CleanupPosted ==
  ASSUME Good(v), First("cleanup"), NEW idle \in {"Closed", "Idle"},
         v' = perform_cleanup(Pop, idle)
  PROVE  Good(v') /\ \A k \in Ids : v'.sess[k].told = v.sess[k].told
  <1> DEFINE s == Pop
             h == Head(v.posts)
  <1>1. /\ Agree(v, s, {"posts"}) /\ h \in Handler /\ h.what = "cleanup" /\ v.publishing = 0
        /\ Base(s)
        /\ \A X : /\ In(v.posts, X) <=> In(s.posts, X) \/ h \in X
                  /\ Once(v.posts, X) => Once(s.posts, X) /\ (h \in X => ~In(s.posts, X))
    BY PopServer, SMT DEF Base
  <1>2. Cleans(v)
    BY DEF Good
  <1>3. v' = perform_cleanup(s, idle)
    OBVIOUS
  <1> HIDE DEF s, h
  <1>4. /\ s.sess = v.sess /\ s.stopping = v.stopping /\ s.publishing = v.publishing
        /\ s.cleanup_started = v.cleanup_started
    BY <1>1 DEF Agree, Fields
  <1>5. v.stopping /\ ~v.cleanup_started /\ ~In(s.posts, Cleaning)
    <2>1. h \in Cleaning
      BY <1>1 DEF Cleaning
    <2> QED
      BY <1>1, <1>2, <2>1 DEF Cleans
  <1>6. /\ Good(perform_cleanup(s, idle))
        /\ \A k \in Ids : perform_cleanup(s, idle).sess[k].told = s.sess[k].told
    BY <1>1, <1>4, <1>5, Cleanup
  <1> QED
    BY <1>3, <1>4, <1>6

-----------------------------------------------------------------------------
(* Starting and stopping.                                                  *)

\* What every start() keeps: between two runs there are no sessions, and those of
\* the run before are dead.
LEMMA Begins ==
  ASSUME Good(v), MayStart, NEW t, DOMAIN t = Fields, t.run = v.run + 1,
         t.next = v.next, t.kind = v.kind, t.writer = v.writer, t.timers = v.timers,
         t.posts = v.posts, t.sessions = {}, t.retiring = {}, t.remaining \in Nat,
         t.current = 0, t.absorbed = 0, t.counted = 0, t.state # "Connected",
         DOMAIN t.sess = Ids, \A k \in Ids : t.sess[k] = v.sess[k]
  PROVE  /\ Typed(t) /\ Sessions(t) /\ Retires(t) /\ Current(t) /\ Sum(t) /\ Dispatched(t)
         /\ ~In(t.posts, Cleaning) /\ Once(t.posts, Cleaning)
         /\ \A k \in Ids : t.sess[k].told = v.sess[k].told
  <1>1. /\ Typed(v) /\ Life(v) /\ Sessions(v) /\ Retires(v) /\ Current(v) /\ Dispatched(v)
        /\ Cleans(v) /\ v.run \in Nat
    BY DEF Good, Base, Typed
  <1>2. v.run = 0 \/ v.cleanup_done
    BY DEF MayStart
  <1>3. v.sessions = {} /\ v.retiring = {}
    BY <1>1, <1>2 DEF Life
  <1>4. Typed(t)
    BY <1>1, SMT DEF Typed
  <1>5. Held(v) = {} /\ Held(t) = {}
    BY <1>3 DEF Held
  <1>6. Sessions(t)
    <2>1. \A k \in Ids : Informed(t, t.sess[k])
      <3>1. TAKE k \in Ids
      <3>2. t.sess[k].run \in Nat /\ t.sess[k].run <= v.run
        BY <1>1 DEF Sessions, Typed, SessionType
      <3>3. t.sess[k].run # t.run
        BY <1>1, <3>2, SMT
      <3> QED
        BY <3>3 DEF Informed, Fenced
    <2>2. \A k \in Ids : t.sess[k].run <= t.run
      BY <1>1, SMT DEF Sessions, Typed, SessionType
    <2> QED
      BY <1>1, <1>5, <2>1, <2>2 DEF Sessions
  <1>7. Retires(t)
    BY <1>1, <1>3 DEF Retires
  <1>8. Current(t)
    BY <1>1 DEF Current
  <1>9. Sum(t)
    <2>1. /\ Counts(t) \in Seq(Nat) /\ Len(Counts(t)) = MaxSessions /\ Ids = 1 .. MaxSessions
          /\ \A k \in Ids : Counts(t)[k] = IF k \in Held(t) THEN t.sess[k].count ELSE 0
      BY <1>4, CountsSeq DEF Good, Base, Sum
    <2>2. \A i \in 1 .. Len(Counts(t)) : Counts(t)[i] = 0
      BY <1>5, <2>1
    <2>3. Total(Counts(t)) = 0
      BY <2>1, <2>2, TotalZero DEF Good, Base, Sum
    <2> QED
      BY <2>3, SMT DEF Good, Base, Sum
  <1>10. Dispatched(t)
    <2>1. Later(t.run) \subseteq Later(v.run) /\ Binds(t.run) \subseteq Later(v.run)
      BY <1>1, SMT DEF Later, Binds, Handler
    <2>2. ~In(t.posts, Later(t.run)) /\ ~In(t.posts, Binds(t.run))
      BY <1>1, <2>1 DEF Dispatched, In
    <2>3. \A x \in t.timers : x.run \in 0 .. t.run /\ x.run # t.run
      BY <1>1, SMT DEF Dispatched
    <2> QED
      BY <1>1, <2>2, <2>3 DEF Dispatched
  <1>11. ~In(t.posts, Cleaning) /\ Once(t.posts, Cleaning)
    <2>1. ~In(v.posts, Cleaning)
      BY <1>1, <1>2 DEF Cleans, Life
    <2> QED
      BY <2>1 DEF In, Once
  <1> QED
    BY <1>4, <1>6, <1>7, <1>8, <1>9, <1>10, <1>11

\* The fields of a server whose next run begins.
LEMMA StartedFields ==
  ASSUME Good(v), MayStart
  PROVE  LET b == Started(v)
         IN  /\ DOMAIN b = Fields /\ b.run = v.run + 1 /\ b.next = v.next /\ b.kind = v.kind
             /\ b.writer = v.writer /\ b.timers = v.timers /\ b.posts = v.posts
             /\ b.sessions = {} /\ b.retiring = {} /\ b.remaining \in Nat /\ b.current = 0
             /\ b.absorbed = 0 /\ b.counted = 0 /\ b.sess = v.sess /\ DOMAIN v.sess = Ids
             /\ b.publishing = 0 /\ ~b.acceptor /\ b.stopping = FALSE
             /\ b.cleanup_started = FALSE /\ b.cleanup_done = FALSE
             /\ b.run_dispatched = FALSE /\ b.run # 0
  <1>1. /\ Typed(v) /\ Life(v) /\ Current(v) /\ DOMAIN v = Fields /\ v.run \in Nat
        /\ v.run = 0 \/ v.cleanup_done
    BY DEF Good, Base, Typed, MayStart
  <1>2. v.sessions = {} /\ v.retiring = {} /\ v.publishing = 0 /\ ~v.acceptor
    BY <1>1 DEF Life
  <1>3. v.current = 0 /\ v.remaining \in Nat /\ DOMAIN v.sess = Ids
    BY <1>1, <1>2 DEF Current, Typed
  <1> QED
    BY <1>1, <1>2, <1>3, SMT DEF Started, Fields

\* start() of the TCP server: the binding is posted, or there is an error.
LEMMA Starts ==
  ASSUME Good(v), start
  PROVE  Good(v') /\ \A k \in Ids : v'.sess[k].told = v.sess[k].told
  <1> DEFINE b == Started(v)
             e == [b EXCEPT !.state = "Error"]
             d == [b EXCEPT !.run_dispatched = TRUE]
  <1>1. MayStart /\ v.state \notin {"Listening", "Connected"}
        /\ (v' = e \/ v' = Post(d, "bind", 0))
    BY DEF start
  <1>2. /\ DOMAIN b = Fields /\ b.run = v.run + 1 /\ b.next = v.next /\ b.kind = v.kind
        /\ b.writer = v.writer /\ b.timers = v.timers /\ b.posts = v.posts
        /\ b.sessions = {} /\ b.retiring = {} /\ b.remaining \in Nat /\ b.current = 0
        /\ b.absorbed = 0 /\ b.counted = 0 /\ b.sess = v.sess /\ DOMAIN v.sess = Ids
        /\ b.publishing = 0 /\ ~b.acceptor /\ b.stopping = FALSE
        /\ b.cleanup_started = FALSE /\ b.cleanup_done = FALSE
        /\ b.run_dispatched = FALSE /\ b.run # 0
    BY <1>1, StartedFields
  <1>3. b.state = v.state
    BY DEF Started, Good, Base, Typed, Fields
  <1> HIDE DEF b
  <1>4. ASSUME NEW t \in {e, d}
        PROVE  Good(t) /\ \A k \in Ids : t.sess[k].told = v.sess[k].told
    <2>1. /\ DOMAIN t = Fields /\ t.run = v.run + 1 /\ t.next = v.next /\ t.kind = v.kind
          /\ t.writer = v.writer /\ t.timers = v.timers /\ t.posts = v.posts
          /\ t.sessions = {} /\ t.retiring = {} /\ t.remaining \in Nat /\ t.current = 0
          /\ t.absorbed = 0 /\ t.counted = 0 /\ t.sess = v.sess
          /\ t.publishing = 0 /\ ~t.acceptor /\ t.stopping = FALSE
          /\ t.cleanup_started = FALSE /\ t.cleanup_done = FALSE /\ t.run # 0
          /\ t.state \in {v.state, "Error"}
      <3>1. CASE t = e
        BY <1>2, <1>3, <3>1 DEF Fields
      <3>2. CASE t = d
        BY <1>2, <1>3, <3>2 DEF Fields
      <3> QED
        BY <3>1, <3>2
    <2> HIDE DEF e, d
    <2>2. /\ Typed(t) /\ Sessions(t) /\ Retires(t) /\ Current(t) /\ Sum(t) /\ Dispatched(t)
          /\ ~In(t.posts, Cleaning) /\ Once(t.posts, Cleaning)
          /\ \A k \in Ids : t.sess[k].told = v.sess[k].told
      BY <1>1, <1>2, <2>1, Begins
    <2>3. Life(t) /\ Listens(t) /\ Cleans(t) /\ Armed(t)
      BY <1>1, <2>1, <2>2 DEF Life, Listens, Cleans, Armed
    <2> QED
      BY <2>2, <2>3 DEF Good, Base
  <1>5. CASE v' = e
    BY <1>4, <1>5
  <1>6. CASE v' = Post(d, "bind", 0)
    <2>1. Good(d) /\ (\A k \in Ids : d.sess[k].told = v.sess[k].told)
      BY <1>4
    <2>2. d.run_dispatched
      BY <1>2 DEF Fields
    <2> HIDE DEF d
    <2>3. Rest(d) /\ Retires(d)
      BY <2>1 DEF Good, Base, Rest
    <2>4. Good(v') /\ Agree(d, v', {"posts"})
      BY <1>6, <2>2, <2>3, Posts, SMT
    <2>5. v'.sess = d.sess
      BY <2>4 DEF Agree, Fields
    <2> QED
      BY <2>1, <2>4, <2>5
  <1> QED
    BY <1>1, <1>5, <1>6

\* start() of the UDS server: it listens and its first accept is posted, there is
\* an error, or the state callback stops it again.
LEMMA UdsStarts ==
  ASSUME Good(v), uds_start
  PROVE  Good(v') /\ \A k \in Ids : v'.sess[k].told = v.sess[k].told
  <1> DEFINE b == Started(v)
             e == [b EXCEPT !.state = "Error"]
             c == [b EXCEPT !.acceptor = TRUE, !.state = "Listening"]
             d == [c EXCEPT !.run_dispatched = TRUE]
             h == [what |-> "accept", k |-> 0, run |-> d.run]
             x == Post(d, "accept", 0)
             m == [c EXCEPT !.stopping = TRUE,
                            !.sess = [k \in Ids |-> IF k \in c.sessions
                                         THEN [c.sess[k] EXCEPT !.closing = TRUE] ELSE c.sess[k]]]
             n == [m EXCEPT !.cleanup_started = TRUE, !.acceptor = FALSE, !.current = 0,
                            !.retiring = m.sessions, !.sessions = m.retiring,
                            !.remaining = Cardinality(m.sessions)]
             y == finish_cleanup(n, "Idle")
  <1>1. MayStart /\ v.state # "Listening" /\ (v' = e \/ v' = x \/ v' = stop(c, "Idle"))
    BY DEF uds_start, Stopped
  <1>2. /\ DOMAIN b = Fields /\ b.run = v.run + 1 /\ b.next = v.next /\ b.kind = v.kind
        /\ b.writer = v.writer /\ b.timers = v.timers /\ b.posts = v.posts
        /\ b.sessions = {} /\ b.retiring = {} /\ b.remaining \in Nat /\ b.current = 0
        /\ b.absorbed = 0 /\ b.counted = 0 /\ b.sess = v.sess /\ DOMAIN v.sess = Ids
        /\ b.publishing = 0 /\ ~b.acceptor /\ b.stopping = FALSE
        /\ b.cleanup_started = FALSE /\ b.cleanup_done = FALSE
        /\ b.run_dispatched = FALSE /\ b.run # 0
    BY <1>1, StartedFields
  <1> HIDE DEF b
  <1> DEFINE Clear(t) ==
               /\ DOMAIN t = Fields /\ t.run = v.run + 1 /\ t.next = v.next /\ t.kind = v.kind
               /\ t.writer = v.writer /\ t.timers = v.timers /\ t.posts = v.posts
               /\ t.sessions = {} /\ t.retiring = {} /\ t.remaining \in Nat /\ t.current = 0
               /\ t.absorbed = 0 /\ t.counted = 0 /\ DOMAIN t.sess = Ids
               /\ t.publishing = 0 /\ t.run # 0 /\ t.state # "Connected"
               /\ \A k \in Ids : t.sess[k] = v.sess[k]
  <1>3. ASSUME NEW t, Clear(t)
        PROVE  /\ Typed(t) /\ Sessions(t) /\ Retires(t) /\ Current(t) /\ Sum(t)
               /\ Dispatched(t) /\ ~In(t.posts, Cleaning) /\ Once(t.posts, Cleaning)
               /\ \A k \in Ids : t.sess[k].told = v.sess[k].told
    BY <1>1, <1>3, Begins
  <1>4. /\ Clear(e) /\ e.state = "Error" /\ ~e.acceptor /\ e.stopping = FALSE
        /\ e.cleanup_started = FALSE /\ e.cleanup_done = FALSE
    BY <1>2 DEF Fields
  <1>5. /\ Clear(c) /\ c.state = "Listening" /\ c.acceptor /\ c.stopping = FALSE
        /\ c.cleanup_started = FALSE /\ c.cleanup_done = FALSE /\ c.run_dispatched = FALSE
    BY <1>2 DEF Fields
  <1> HIDE DEF e, c
  <1>6. CASE v' = e
    <2>1. Life(e) /\ Listens(e) /\ Cleans(e) /\ Armed(e)
      BY <1>3, <1>4 DEF Life, Listens, Cleans, Armed
    <2> QED
      BY <1>3, <1>4, <1>6, <2>1 DEF Good, Base
  <1>7. CASE v' = x
    <2>1. /\ Clear(d) /\ d.state = "Listening" /\ d.acceptor /\ d.stopping = FALSE
          /\ d.cleanup_started = FALSE /\ d.cleanup_done = FALSE /\ d.run_dispatched = TRUE
      BY <1>5 DEF Fields
    <2> HIDE DEF d
    <2>2. /\ Typed(d) /\ Sessions(d) /\ Retires(d) /\ Current(d) /\ Sum(d) /\ Dispatched(d)
          /\ ~In(d.posts, Cleaning) /\ Once(d.posts, Cleaning)
          /\ \A k \in Ids : d.sess[k].told = v.sess[k].told
      BY <1>3, <2>1
    <2>3. Life(d) /\ Listens(d) /\ Cleans(d)
      BY <2>1, <2>2 DEF Life, Listens, Cleans
    <2>4. Base(d)
      BY <2>2, <2>3 DEF Base
    <2>5. /\ Agree(d, x, {"posts"}) /\ x.posts = Append(d.posts, h)
      BY <2>1 DEF Post, Agree, Fields
    <2>6. d.posts \in Seq(Handler) /\ d.run \in Nat
      BY <2>2 DEF Typed
    <2>7. h \in Handler /\ h.what = "accept" /\ h.run = d.run /\ h.k = 0
      BY <2>6 DEF Handler
    <2>8. /\ h \notin Later(d.run) /\ h \notin Binds(d.run) /\ h \notin Cleaning
          /\ h \in Accepts(d.run)
          /\ \A k : h \notin Of("retired", k) /\ h \notin Of("gone", k)
      BY <2>6, <2>7, SMT DEF Of, Later, Binds, Cleaning, Accepts
    <2> HIDE DEF h, x
    <2>9. \A X : /\ In(x.posts, X) <=> In(d.posts, X) \/ h \in X
                 /\ Once(d.posts, X) /\ (h \in X => ~In(d.posts, X)) => Once(x.posts, X)
      BY <2>5, <2>6, <2>7, AppendIn, SMT
    <2>10. /\ x.run = d.run /\ x.next = d.next /\ x.writer = d.writer
           /\ x.sessions = d.sessions /\ x.retiring = d.retiring /\ x.remaining = d.remaining
           /\ x.absorbed = d.absorbed /\ x.counted = d.counted /\ x.sess = d.sess
           /\ DOMAIN x = Fields /\ x.stopping = d.stopping /\ x.timers = d.timers
           /\ x.cleanup_started = d.cleanup_started /\ x.run_dispatched = d.run_dispatched
      BY <2>5 DEF Agree, Fields
    <2>11. x.posts \in Seq(Handler)
      BY <2>5, <2>6, <2>7, SMT
    <2>12. Typed(x)
      BY <2>2, <2>10, <2>11 DEF Typed
    <2>13. Dispatched(x)
      BY <2>2, <2>8, <2>9, <2>10 DEF Dispatched
    <2>14. Retires(x)
      BY <2>2, <2>8, <2>9, <2>10 DEF Retires
    <2>15. Cleans(x) /\ Armed(x)
      BY <2>3, <2>8, <2>9, <2>10 DEF Cleans, Armed
    <2>16. Good(x)
      BY <2>4, <2>5, <2>12, <2>13, <2>14, <2>15, Frames, SMT
      DEF Good, Base, OfLife, OfSessions, OfListens, OfCurrent, OfSum
    <2> QED
      BY <1>7, <2>2, <2>10, <2>16
  <1>8. CASE v' = stop(c, "Idle")
    <2>1. stop(c, "Idle") = perform_cleanup(m, "Idle")
      BY <1>5 DEF stop
    <2> DEFINE g == [k \in Ids |-> IF k \in c.sessions
                                    THEN [c.sess[k] EXCEPT !.closing = TRUE] ELSE c.sess[k]]
    <2>2. DOMAIN g = Ids /\ \A k \in Ids : g[k] = v.sess[k]
      BY <1>5
    <2>3. m = [c EXCEPT !.stopping = TRUE, !.sess = g]
      OBVIOUS
    <2> HIDE DEF g, m
    <2>4. Clear(m) /\ m.stopping = TRUE /\ m.cleanup_started = FALSE
      BY <1>5, <2>2, <2>3 DEF Fields
    <2>5. v' = y
      BY <1>8, <2>1, <2>4 DEF perform_cleanup
    <2>6. Cardinality(m.sessions) = 0
      BY <2>4, FiniteIds DEF Good, Base, Sum
    <2>7. /\ Clear(n) /\ n.stopping = TRUE /\ n.cleanup_started = TRUE /\ n.acceptor = FALSE
          /\ n.remaining = 0
      BY <2>4, <2>6, SMT DEF Fields
    <2> HIDE DEF n
    <2>8. /\ Clear(y) /\ y.stopping = TRUE /\ y.cleanup_started = TRUE /\ y.acceptor = FALSE
          /\ y.remaining = 0 /\ y.state = "Idle" /\ y.cleanup_done = TRUE
      BY <2>7 DEF finish_cleanup, Fields
    <2> HIDE DEF y
    <2>9. /\ Typed(y) /\ Sessions(y) /\ Retires(y) /\ Current(y) /\ Sum(y) /\ Dispatched(y)
          /\ ~In(y.posts, Cleaning) /\ Once(y.posts, Cleaning)
          /\ \A k \in Ids : y.sess[k].told = v.sess[k].told
      BY <1>3, <2>8
    <2>10. Cardinality(y.retiring) = 0
      BY <2>8, FiniteIds DEF Good, Base, Sum
    <2>11. Life(y) /\ Listens(y) /\ Cleans(y) /\ Armed(y)
      BY <2>8, <2>9, <2>10 DEF Life, Listens, Cleans, Armed
    <2> QED
      BY <2>5, <2>9, <2>11 DEF Good, Base
  <1> QED
    BY <1>1, <1>6, <1>7, <1>8

-----------------------------------------------------------------------------
(* The steps.                                                              *)

\* t is a record of a server of the same kind as s.
Like(s, t) == DOMAIN t = Fields /\ t.kind = s.kind

\* What the operations that change single fields leave alone.
LEMMA Leaves ==
  ASSUME NEW s, DOMAIN s = Fields
  PROVE  /\ Like(s, do_accept(s)) /\ do_accept(s).sess = s.sess
         /\ \A run : /\ Like(s, on_accepted(s, run)) /\ on_accepted(s, run).sess = s.sess
                     /\ Like(s, on_accept_failed(s, run))
                     /\ on_accept_failed(s, run).sess = s.sess
         /\ \A n, r : /\ Like(s, attempt_port_binding(s, n, r))
                      /\ attempt_port_binding(s, n, r).sess = s.sess
         /\ \A p : Like(s, on_connected(s, p)) /\ on_connected(s, p).sess = s.sess
         /\ \A p, next : Like(s, on_gone(s, p, next)) /\ on_gone(s, p, next).sess = s.sess
  <1>1. ASSUME NEW x, DOMAIN x = Fields
        PROVE  Like(x, do_accept(x)) /\ do_accept(x).sess = x.sess
    BY <1>1 DEF do_accept, Like, Fields
  <1>2. ASSUME NEW run
        PROVE  /\ Like(s, on_accepted(s, run)) /\ on_accepted(s, run).sess = s.sess
               /\ Like(s, on_accept_failed(s, run)) /\ on_accept_failed(s, run).sess = s.sess
    <2> DEFINE d == [s EXCEPT !.accepting = @ \ {run}]
    <2>1. Like(s, d) /\ d.sess = s.sess
      BY DEF Like, Fields
    <2>2. on_accepted(s, run) \in {d, do_accept(d), [d EXCEPT !.publishing = run]}
      BY DEF on_accepted
    <2>3. on_accept_failed(s, run) \in {d, Arm(d, "accept", 0)}
      BY DEF on_accept_failed
    <2> HIDE DEF d
    <2>4. Like(s, do_accept(d)) /\ do_accept(d).sess = s.sess
      BY <1>1, <2>1 DEF Like
    <2>5. /\ Like(s, [d EXCEPT !.publishing = run]) /\ [d EXCEPT !.publishing = run].sess = s.sess
          /\ Like(s, Arm(d, "accept", 0)) /\ Arm(d, "accept", 0).sess = s.sess
      BY <2>1 DEF Arm, Like, Fields
    <2> QED
      BY <2>1, <2>2, <2>3, <2>4, <2>5
  <1>3. ASSUME NEW n, NEW r
        PROVE  /\ Like(s, attempt_port_binding(s, n, r))
               /\ attempt_port_binding(s, n, r).sess = s.sess
    <2> DEFINE e == [s EXCEPT !.acceptor = TRUE, !.state = "Listening"]
               t == Arm(s, "bind", n + 1)
               f == [s EXCEPT !.state = "Error"]
    <2>1. /\ Like(s, e) /\ e.sess = s.sess /\ Like(s, t) /\ t.sess = s.sess
          /\ Like(s, f) /\ f.sess = s.sess /\ Like(s, s)
      BY DEF Arm, Like, Fields
    <2>2. attempt_port_binding(s, n, r) \in {s, do_accept(e), t, f}
      BY DEF attempt_port_binding
    <2> HIDE DEF e, t, f
    <2>3. Like(s, do_accept(e)) /\ do_accept(e).sess = s.sess
      BY <1>1, <2>1 DEF Like
    <2> QED
      BY <2>1, <2>2, <2>3
  <1>4. ASSUME NEW p
        PROVE  Like(s, on_connected(s, p)) /\ on_connected(s, p).sess = s.sess
    BY DEF on_connected, Like, Fields
  <1>5. ASSUME NEW p, NEW next
        PROVE  Like(s, on_gone(s, p, next)) /\ on_gone(s, p, next).sess = s.sess
    <2> DEFINE a == absorb_session(s, p.k)
               d == IF p.k \in s.sessions THEN [a EXCEPT !.sessions = @ \ {p.k}] ELSE s
               e == [d EXCEPT !.current = next, !.state = "Listening"]
    <2>1. Like(s, d) /\ d.sess = s.sess
      BY DEF absorb_session, Like, Fields
    <2>2. on_gone(s, p, next) \in {s, d, e}
      BY DEF on_gone
    <2> HIDE DEF d
    <2>3. Like(s, e) /\ e.sess = s.sess
      BY <2>1 DEF Like, Fields
    <2> QED
      BY <2>1, <2>2, <2>3 DEF Like
  <1> QED
    BY <1>1, <1>2, <1>3, <1>4, <1>5

\* The same of an attempt to bind, alone.
LEMMA AttemptLeaves ==
  ASSUME NEW s, DOMAIN s = Fields, NEW n, NEW r
  PROVE  /\ Like(s, attempt_port_binding(s, n, r))
         /\ attempt_port_binding(s, n, r).sess = s.sess
  BY Leaves, SMT

\* Accepting, in both servers.
LEMMA AcceptSteps ==
  ASSUME Good(v), accepts
  PROVE  Good(v') /\ Tells(v, v')
  <1>1. DOMAIN v = Fields
    BY DEF Good, Base, Typed
  <1>2. CASE ConnectionArrives
    <2>1. PICK run \in v.accepting :
            /\ v.publishing = 0 /\ v.acceptor
            /\ v.next <= MaxSessions \/ Cardinality(v.sessions) >= MaxClients
            /\ v' = on_accepted(v, run)
      BY <1>2 DEF ConnectionArrives
    <2>2. Good(v') /\ v'.sess = v.sess
      BY <1>1, <2>1, OnAccepted, Leaves
    <2> QED
      BY <2>2 DEF Tells
  <1>3. CASE AcceptFails
    <2>1. PICK run \in v.accepting : v' = on_accept_failed(v, run)
      BY <1>3 DEF AcceptFails
    <2>2. Good(v') /\ v'.sess = v.sess
      BY <1>1, <2>1, OnAcceptFailed, Leaves
    <2> QED
      BY <2>2 DEF Tells
  <1>4. CASE AcceptTimer
    <2>1. PICK x \in v.timers :
            LET d == [v EXCEPT !.timers = @ \ {x}]
            IN  x.what = "accept" /\ v' = IF Fenced(d, x.run) THEN d ELSE do_accept(d)
      BY <1>4 DEF AcceptTimer
    <2> DEFINE d == [v EXCEPT !.timers = @ \ {x}]
    <2>2. /\ Base(d) /\ Cleans(d) /\ (Fenced(d, x.run) => Good(d))
      BY TimerGone
    <2>3. DOMAIN d = Fields /\ d.sess = v.sess
      BY <1>1 DEF Fields
    <2>4. v' = IF Fenced(d, x.run) THEN d ELSE do_accept(d)
      BY <2>1
    <2> HIDE DEF d
    <2>5. Good(v') /\ v'.sess = v.sess
      BY <2>2, <2>3, <2>4, DoAccept, Leaves
    <2> QED
      BY <2>5 DEF Tells
  <1>5. CASE Publish
    <2> DEFINE k == v.next
               new == [NoSession EXCEPT !.run = v.publishing, !.alive = TRUE,
                                        !.on_close = TRUE, !.posts = <<"start">>]
               d == [v EXCEPT !.next = @ + 1, !.sessions = @ \cup {k}, !.publishing = 0,
                              !.current = IF v.kind = "tcp" THEN k ELSE 0, !.sess[k] = new]
    <2>1. Good(v')
      BY <1>5, Publishes
    <2>2. v' = do_accept(d) /\ DOMAIN d = Fields /\ d.sess = [v.sess EXCEPT ![k] = new]
      BY <1>1, <1>5 DEF Publish, Fields
    <2>3. v'.sess = [v.sess EXCEPT ![k] = new]
      <3> HIDE DEF d
      <3> QED
        BY <2>2, Leaves
    <2>4. k \in Ids => v.sess[k] = NoSession
      BY SMT DEF Good, Base, Sessions, Typed, Ids
    <2>5. new.told = "nothing" /\ NoSession.told = "nothing"
      BY DEF NoSession
    <2>6. DOMAIN v.sess = Ids
      BY DEF Good, Base, Typed
    <2> HIDE DEF new, d
    <2>7. \A j \in Ids : v'.sess[j].told = v.sess[j].told
      BY <2>3, <2>4, <2>5, <2>6
    <2> QED
      BY <2>1, <2>7 DEF Tells
  <1> QED
    BY <1>2, <1>3, <1>4, <1>5 DEF accepts

\* The retry of a bind, in the run that armed it.
LEMMA BindTimerSteps ==
  ASSUME Good(v), BindTimer
  PROVE  Good(v') /\ Tells(v, v')
  <1>1. PICK x \in v.timers, r \in {"ok", "in use", "err"} :
          LET d == [v EXCEPT !.timers = @ \ {x}]
          IN  /\ x.what = "bind"
              /\ v' = IF Fenced(d, x.run) THEN d ELSE attempt_port_binding(d, x.n, r)
    BY DEF BindTimer
  <1> DEFINE d == [v EXCEPT !.timers = @ \ {x}]
  <1>2. /\ Good(d) /\ d.run = v.run /\ d.stopping = v.stopping
        /\ d.run_dispatched = v.run_dispatched
    BY <1>1, TimerGone
  <1>3. DOMAIN d = Fields /\ d.sess = v.sess
    BY DEF Good, Base, Typed, Fields
  <1>4. v' = IF Fenced(d, x.run) THEN d ELSE attempt_port_binding(d, x.n, r)
    BY <1>1
  <1> HIDE DEF d
  <1>5. ASSUME ~Fenced(d, x.run) PROVE d.run_dispatched
    BY <1>1, <1>2, <1>5 DEF Fenced, Good, Base, Dispatched
  <1>6. Good(v') /\ v'.sess = v.sess
    BY <1>2, <1>3, <1>4, <1>5, Attempt, Leaves
  <1> QED
    BY <1>6 DEF Tells

\* The handlers of the TCP server's strand.
LEMMA RunPostedSteps ==
  ASSUME Good(v), v.kind = "tcp", RunPosted
  PROVE  Good(v') /\ Tells(v, v')
  <1> DEFINE h == Head(v.posts)
  <1>1. ASSUME NEW what, First(what), what \notin {"cleanup", "retired", "accept"}
        PROVE  /\ Good(Pop) /\ Pop.sess = v.sess /\ Pop.kind = "tcp" /\ DOMAIN Pop = Fields
               /\ Pop.sessions = v.sessions /\ h \in Handler /\ h.what = what
               /\ In(v.posts, {h})
    <2>1. Good(Pop) /\ Pop.sess = v.sess /\ Pop.kind = "tcp"
      BY <1>1, PopGood
    <2>2. /\ Agree(v, Pop, {"posts"}) /\ h \in Handler /\ h.what = what /\ In(v.posts, {h})
      BY <1>1, PopServer
    <2> QED
      BY <2>1, <2>2 DEF Agree, Fields
  <1>2. ASSUME \A k \in Ids : v'.sess[k].told = v.sess[k].told PROVE Tells(v, v')
    BY <1>2 DEF Tells
  <1>3. CASE First("bind") /\ \E r \in {"ok", "in use", "err"} :
               v' = IF Fenced(Pop, h.run) THEN Pop ELSE attempt_port_binding(Pop, 0, r)
    <2>1. PICK r \in {"ok", "in use", "err"} :
            v' = IF Fenced(Pop, h.run) THEN Pop ELSE attempt_port_binding(Pop, 0, r)
      BY <1>3
    <2>2. Good(v')
      BY <1>3, <2>1, BindPosted
    <2>3. DOMAIN Pop = Fields /\ Pop.sess = v.sess
      BY <1>1, <1>3
    <2>4. attempt_port_binding(Pop, 0, r).sess = Pop.sess
      BY <2>3, AttemptLeaves
    <2>5. v'.sess = v.sess
      BY <2>1, <2>3, <2>4
    <2> QED
      BY <1>2, <2>2, <2>5
  <1>4. CASE First("connected") /\ v' = on_connected(Pop, h)
    <2>1. Good(v') /\ v'.sess = v.sess
      BY <1>1, <1>4, OnConnected, Leaves, SMT
    <2> QED
      BY <1>2, <2>1
  <1>5. CASE First("gone") /\ \E next \in Others(h.k) : v' = on_gone(Pop, h, next)
    <2>1. PICK next \in Others(h.k) : v' = on_gone(Pop, h, next)
      BY <1>5
    <2>2. /\ Good(Pop) /\ Pop.sess = v.sess /\ Pop.kind = "tcp" /\ DOMAIN Pop = Fields
          /\ Pop.sessions = v.sessions /\ h \in Handler /\ h.what = "gone" /\ In(v.posts, {h})
      BY <1>1, <1>5
    <2> DEFINE s == Pop
    <2> HIDE DEF h, s
    <2>3. h \in Of("gone", h.k)
      BY <2>2 DEF Of
    <2>4. In(v.posts, Of("gone", h.k))
      BY <2>2, <2>3 DEF In
    <2>5. h.k \in Ids
      BY <2>2, <2>4 DEF Handler, Good, Base, Dispatched
    <2>6. Dead(v.sess[h.k])
      BY <2>4, <2>5 DEF Good, Base, Retires
    <2>7. next \in (IF s.sessions \ {h.k} = {} THEN {0} ELSE s.sessions \ {h.k})
      BY <2>1, <2>2 DEF Others, s
    <2>8. Good(v') /\ v'.sess = v.sess
      BY <2>1, <2>2, <2>5, <2>6, <2>7, OnGone, Leaves, SMT DEF s
    <2> QED
      BY <1>2, <2>8
  <1>6. CASE First("retired") /\ v' = on_retired(Pop, h.k, Closed)
    <2>1. Good(v') /\ v'.sess = v.sess
      BY <1>6, RetiredPosted DEF Closed
    <2> QED
      BY <1>2, <2>1
  <1>7. CASE First("request") /\ v' = on_request(Pop, h)
    <2>1. v' \in {Pop, stop(Pop, "Closed")}
      BY <1>7 DEF on_request, Closed
    <2>2. Good(Pop) /\ Pop.sess = v.sess
      BY <1>1, <1>7
    <2>3. /\ Good(stop(Pop, "Closed"))
          /\ \A k \in Ids : stop(Pop, "Closed").sess[k].told = Pop.sess[k].told
      BY <2>2, Stops
    <2> QED
      BY <1>2, <2>1, <2>2, <2>3
  <1>8. CASE First("cleanup") /\ v' = perform_cleanup(Pop, Closed)
    BY <1>2, <1>8, CleanupPosted DEF Closed
  <1> QED
    BY <1>3, <1>4, <1>5, <1>6, <1>7, <1>8 DEF RunPosted

\* The handlers of the UDS server's strand.
LEMMA UdsRunPostedSteps ==
  ASSUME Good(v), UdsRunPosted
  PROVE  Good(v') /\ Tells(v, v')
  <1> DEFINE h == Head(v.posts)
  <1>1. ASSUME \A k \in Ids : v'.sess[k].told = v.sess[k].told PROVE Tells(v, v')
    BY <1>1 DEF Tells
  <1>2. CASE First("accept") /\ v' = IF Fenced(Pop, h.run) THEN Pop ELSE do_accept(Pop)
    <2> DEFINE s == Pop
    <2>1. /\ Base(s) /\ Cleans(s) /\ (Fenced(s, h.run) => Armed(s)) /\ Agree(v, s, {"posts"})
      <3>1. "accept" # "cleanup" /\ "accept" # "retired" /\ First("accept")
        BY <1>2
      <3> QED
        BY <3>1, PopServer DEF Base
    <2>2. v' = IF Fenced(s, h.run) THEN s ELSE do_accept(s)
      BY <1>2
    <2> HIDE DEF s, h
    <2>3. DOMAIN s = Fields /\ s.sess = v.sess
      BY <2>1 DEF Agree, Fields
    <2>4. Good(v') /\ v'.sess = v.sess
      BY <2>1, <2>2, <2>3, DoAccept, Leaves DEF Good
    <2> QED
      BY <1>1, <2>4
  <1>3. CASE First("retired") /\ v' = on_session_retired(Pop, h)
    <2>1. Good(v') /\ v'.sess = v.sess
      BY <1>3, RetiredPosted DEF on_session_retired, Stopped
    <2> QED
      BY <1>1, <2>1
  <1>4. CASE First("cleanup") /\ v' = on_cleanup(Pop)
    BY <1>1, <1>4, CleanupPosted DEF on_cleanup, Stopped
  <1> QED
    BY <1>2, <1>3, <1>4 DEF UdsRunPosted

\* stop() and request_stop(), from any thread.
LEMMA StopSteps ==
  ASSUME Good(v), Stop \/ UdsStop \/ request_stop
  PROVE  Good(v') /\ Tells(v, v')
  <1>1. ASSUME \A k \in Ids : v'.sess[k].told = v.sess[k].told PROVE Tells(v, v')
    BY <1>1 DEF Tells
  <1>2. CASE Stop
    BY <1>1, <1>2, Stops DEF Stop, Closed
  <1>3. CASE UdsStop
    BY <1>1, <1>3, Stops DEF UdsStop, Stopped
  <1>4. CASE request_stop
    <2>1. Rest(v) /\ Retires(v)
      BY DEF Good, Base, Rest
    <2>2. v' = Post(v, "request", 0)
      BY <1>4 DEF request_stop
    <2>3. Good(v') /\ Agree(v, v', {"posts"})
      BY <2>1, <2>2, Posts, SMT
    <2>4. v'.sess = v.sess
      BY <2>3 DEF Agree, Fields
    <2> QED
      BY <1>1, <2>3, <2>4
  <1> QED
    BY <1>2, <1>3, <1>4

\* No operation changes the kind of a server.
LEMMA KeepsKind ==
  ASSUME NEW s, DOMAIN s = Fields
  PROVE  /\ \A what, k : Like(s, Post(s, what, k))
         /\ \A what, k : Like(s, PostTo(s, k, what))
         /\ \A ks : Like(s, Count(s, ks)) /\ Like(s, async_stop(s, ks))
         /\ \A k : Like(s, absorb_session(s, k))
         /\ \A idle : /\ Like(s, finish_cleanup(s, idle)) /\ Like(s, perform_cleanup(s, idle))
                      /\ Like(s, stop(s, idle)) /\ \A k : Like(s, on_retired(s, k, idle))
         /\ \A k : /\ Like(s, do_close(s, k)) /\ Like(s, on_session_start(s, k))
                   /\ Like(s, on_session_stop(s, k)) /\ Like(s, Erase(s, k))
  <1>1. ASSUME NEW x, DOMAIN x = Fields
        PROVE  /\ \A what, k : Like(x, Post(x, what, k))
               /\ \A what, k : Like(x, PostTo(x, k, what))
               /\ \A ks : Like(x, Count(x, ks)) /\ Like(x, async_stop(x, ks))
               /\ \A k : Like(x, absorb_session(x, k))
               /\ \A idle : Like(x, finish_cleanup(x, idle))
    BY <1>1 DEF Post, PostTo, Count, async_stop, absorb_session, finish_cleanup, Like, Fields
  <1>2. ASSUME NEW x, NEW y, NEW z, Like(x, y), Like(y, z) PROVE Like(x, z)
    BY <1>2 DEF Like
  <1>3. Like(s, s)
    BY DEF Like
  <1>4. ASSUME NEW x, DOMAIN x = Fields, NEW idle PROVE Like(x, perform_cleanup(x, idle))
    <2> DEFINE d == [x EXCEPT !.cleanup_started = TRUE, !.acceptor = FALSE, !.current = 0,
                              !.retiring = x.sessions, !.sessions = x.retiring,
                              !.remaining = Cardinality(x.sessions)]
    <2>1. Like(x, d) /\ Like(x, x) /\ DOMAIN d = Fields
      BY <1>4 DEF Like, Fields
    <2>2. perform_cleanup(x, idle) \in {x, finish_cleanup(d, idle), async_stop(d, d.retiring)}
      BY DEF perform_cleanup
    <2> HIDE DEF d
    <2>3. Like(d, finish_cleanup(d, idle)) /\ Like(d, async_stop(d, d.retiring))
      BY <1>1, <2>1
    <2> QED
      BY <1>2, <2>1, <2>2, <2>3, SMT
  <1>5. ASSUME NEW idle PROVE Like(s, stop(s, idle))
    <2> DEFINE d == [s EXCEPT !.stopping = TRUE,
                              !.sess = [k \in Ids |-> IF k \in s.sessions
                                           THEN [s.sess[k] EXCEPT !.closing = TRUE]
                                           ELSE s.sess[k]]]
    <2>1. Like(s, d) /\ DOMAIN d = Fields
      BY DEF Like, Fields
    <2>2. stop(s, idle) \in {s, Post(d, "cleanup", 0), perform_cleanup(d, idle)}
      BY DEF stop
    <2> HIDE DEF d
    <2>3. Like(d, Post(d, "cleanup", 0)) /\ Like(d, perform_cleanup(d, idle))
      BY <1>1, <1>4, <2>1
    <2> QED
      BY <1>2, <1>3, <2>1, <2>2, <2>3, SMT
  <1>6. ASSUME NEW k PROVE Like(s, Erase(s, k))
    <2> DEFINE a == absorb_session(s, k)
    <2>1. Like(s, a) /\ DOMAIN a = Fields
      BY <1>1 DEF Like
    <2>2. Erase(s, k) \in {s, [a EXCEPT !.sessions = @ \ {k}]}
      BY DEF Erase
    <2> HIDE DEF a
    <2> QED
      BY <1>3, <2>1, <2>2 DEF Like, Fields
  <1>7. ASSUME NEW k, NEW idle PROVE Like(s, on_retired(s, k, idle))
    <2> DEFINE a == absorb_session(s, k)
               d == IF k \in s.retiring THEN [a EXCEPT !.retiring = @ \ {k}] ELSE s
               e == [d EXCEPT !.remaining = @ - 1]
    <2>1. Like(s, a) /\ DOMAIN a = Fields
      BY <1>1 DEF Like
    <2>2. Like(s, d)
      <3> HIDE DEF a
      <3> QED
        BY <1>3, <2>1 DEF Like, Fields
    <2>3. Like(s, e) /\ DOMAIN e = Fields
      <3> HIDE DEF d
      <3> QED
        BY <2>2 DEF Like, Fields
    <2>4. on_retired(s, k, idle) \in {e, finish_cleanup(e, idle)}
      BY DEF on_retired
    <2> HIDE DEF e
    <2>5. Like(e, finish_cleanup(e, idle))
      BY <1>1, <2>3
    <2> QED
      BY <1>2, <2>3, <2>4, <2>5, SMT
  <1>8. ASSUME NEW x, DOMAIN x = Fields, NEW k
        PROVE  Like(x, do_close(x, k)) /\ Like(x, on_session_start(x, k))
    BY <1>8 DEF do_close, on_session_start, Like, Fields
  <1>9. ASSUME NEW k PROVE Like(s, on_session_stop(s, k))
    <2> DEFINE d == [s EXCEPT !.sess[k].on_close = FALSE]
               e == do_close(d, k)
    <2>1. Like(s, d) /\ DOMAIN d = Fields
      BY DEF Like, Fields
    <2>2. on_session_stop(s, k) = Post(e, "retired", k)
      BY DEF on_session_stop
    <2> HIDE DEF d
    <2>3. Like(d, e) /\ DOMAIN e = Fields
      BY <1>8, <2>1 DEF Like
    <2> HIDE DEF e
    <2>4. Like(e, Post(e, "retired", k))
      BY <1>1, <2>3
    <2> QED
      BY <1>2, <2>1, <2>2, <2>3, <2>4
  <1> QED
    BY <1>1, <1>4, <1>5, <1>6, <1>7, <1>8, <1>9

\* Nor does a step.
LEMMA KindKept ==
  ASSUME Good(v), DOMAIN v = Fields, Next \/ UdsNext
  PROVE  v'.kind = v.kind
  <1>1. Like(v, Pop) /\ DOMAIN Pop = Fields
    BY DEF Pop, Like, Fields
  <1>2. \A x, y : Like(v, x) /\ Like(x, y) => Like(v, y)
    BY DEF Like
  <1>3. SUFFICES Like(v, v')
    BY <1>3 DEF Like
  <1>4. CASE start \/ uds_start
    <2> DEFINE b == Started(v)
               e == [b EXCEPT !.state = "Error"]
               d == [b EXCEPT !.run_dispatched = TRUE]
               l == [b EXCEPT !.acceptor = TRUE, !.state = "Listening"]
               m == [l EXCEPT !.run_dispatched = TRUE]
    <2>1. Like(v, b) /\ DOMAIN b = Fields
      BY DEF Started, Like, Fields
    <2>2. v' \in {e, Post(d, "bind", 0), stop(l, Stopped), Post(m, "accept", 0)}
      BY <1>4 DEF start, uds_start
    <2> HIDE DEF b
    <2>3. /\ Like(v, e) /\ Like(v, d) /\ Like(v, l) /\ Like(v, m)
          /\ DOMAIN d = Fields /\ DOMAIN l = Fields /\ DOMAIN m = Fields
      BY <2>1 DEF Like, Fields
    <2> HIDE DEF d, e, l, m
    <2>4. /\ Like(d, Post(d, "bind", 0)) /\ Like(l, stop(l, Stopped))
          /\ Like(m, Post(m, "accept", 0))
      BY <2>3, KeepsKind
    <2> QED
      BY <1>2, <2>2, <2>3, <2>4
  <1>5. CASE Stop \/ UdsStop
    BY <1>5, KeepsKind DEF Stop, UdsStop
  <1>6. CASE request_stop
    BY <1>6, KeepsKind DEF request_stop
  <1>7. CASE ResetStats
    BY <1>7 DEF ResetStats, Like, Fields
  <1>8. CASE CaptureCurrent
    BY <1>8 DEF CaptureCurrent, Like, Fields
  <1>9. CASE WriteCaptured
    <2> DEFINE d == [v EXCEPT !.writer = 0]
    <2>1. v' \in {d, Count(d, {v.writer})} /\ Like(v, d) /\ DOMAIN d = Fields
      BY <1>9 DEF WriteCaptured, Like, Fields
    <2> HIDE DEF d
    <2>2. Like(d, Count(d, {v.writer}))
      BY <2>1, KeepsKind
    <2> QED
      BY <1>2, <2>1, <2>2
  <1>10. CASE broadcast
    BY <1>10, KeepsKind DEF broadcast
  <1>11. CASE RunPosted
    <2> DEFINE h == Head(v.posts)
               s == Pop
    <2>1. \/ v' = s \/ \E r : v' = attempt_port_binding(s, 0, r)
          \/ v' = on_connected(s, h) \/ \E next : v' = on_gone(s, h, next)
          \/ v' = on_retired(s, h.k, Closed) \/ v' = stop(s, Closed)
          \/ v' = perform_cleanup(s, Closed)
      BY <1>11 DEF RunPosted, on_request
    <2> HIDE DEF h, s
    <2>2. Like(v, s) /\ DOMAIN s = Fields
      BY <1>1 DEF s
    <2>3. /\ Like(s, on_retired(s, h.k, Closed)) /\ Like(s, stop(s, Closed))
          /\ Like(s, perform_cleanup(s, Closed))
      BY <2>2, KeepsKind
    <2>4. /\ Like(s, on_connected(s, h)) /\ \A next : Like(s, on_gone(s, h, next))
      BY <2>2, Leaves
    <2>5. \A r : Like(s, attempt_port_binding(s, 0, r))
      BY <2>2, AttemptLeaves
    <2> QED
      BY <1>2, <2>1, <2>2, <2>3, <2>4, <2>5
  <1>12. CASE UdsRunPosted
    <2> DEFINE h == Head(v.posts)
               s == Pop
    <2>1. v' \in {s, do_accept(s), on_retired(s, h.k, Stopped), perform_cleanup(s, Stopped)}
      BY <1>12 DEF UdsRunPosted, on_session_retired, on_cleanup
    <2> HIDE DEF h, s
    <2>2. Like(v, s) /\ DOMAIN s = Fields
      BY <1>1 DEF s
    <2>3. Like(s, on_retired(s, h.k, Stopped)) /\ Like(s, perform_cleanup(s, Stopped))
      BY <2>2, KeepsKind
    <2>4. Like(s, do_accept(s))
      BY <2>2, Leaves
    <2> QED
      BY <1>2, <2>1, <2>2, <2>3, <2>4
  <1>13. CASE BindTimer \/ AcceptTimer
    <2>1. PICK x, n, r :
            LET d == [v EXCEPT !.timers = @ \ {x}]
            IN  v' \in {d, do_accept(d), attempt_port_binding(d, n, r)}
      BY <1>13 DEF BindTimer, AcceptTimer
    <2> DEFINE d == [v EXCEPT !.timers = @ \ {x}]
    <2>2. /\ v' \in {d, do_accept(d), attempt_port_binding(d, n, r)}
          /\ Like(v, d) /\ DOMAIN d = Fields
      BY <2>1 DEF Like, Fields
    <2> HIDE DEF d
    <2>3. Like(d, do_accept(d)) /\ Like(d, attempt_port_binding(d, n, r))
      BY <2>2, Leaves, AttemptLeaves
    <2> QED
      BY <1>2, <2>2, <2>3
  <1>14. CASE ConnectionArrives \/ AcceptFails
    BY <1>14, Leaves DEF ConnectionArrives, AcceptFails
  <1>15. CASE Publish
    <2> DEFINE k == v.next
               d == [v EXCEPT !.next = @ + 1, !.sessions = @ \cup {k}, !.publishing = 0,
                              !.current = IF v.kind = "tcp" THEN k ELSE 0,
                              !.sess[k] = [NoSession EXCEPT !.run = v.publishing,
                                               !.alive = TRUE, !.on_close = TRUE,
                                               !.posts = <<"start">>]]
    <2>1. v' = do_accept(d) /\ Like(v, d) /\ DOMAIN d = Fields
      BY <1>15 DEF Publish, Like, Fields
    <2> HIDE DEF d
    <2> QED
      BY <1>2, <2>1, Leaves
  <1>16. ASSUME NEW k \in Ids, RunSession(k) PROVE Like(v, v')
    <2> DEFINE s == PopOf(k)
    <2>1. v' \in {on_session_start(s, k), do_close(s, k), on_session_stop(s, k)}
      BY <1>16 DEF RunSession
    <2>2. Like(v, s) /\ DOMAIN s = Fields
      BY DEF PopOf, Like, Fields
    <2> HIDE DEF s
    <2>3. /\ Like(s, on_session_start(s, k)) /\ Like(s, do_close(s, k))
          /\ Like(s, on_session_stop(s, k))
      BY <2>2, KeepsKind
    <2> QED
      BY <1>2, <2>1, <2>2, <2>3
  <1>17. ASSUME NEW k \in Ids, Return(k) PROVE Like(v, v')
    <2> DEFINE d == [v EXCEPT !.sess[k].callback = "none"]
    <2>1. v.sess[k].callback \in {"data", "connect", "disconnect"}
      BY <1>17 DEF Good, Base, Typed, SessionType, Return, Idle
    <2>2. v' \in {d, Post(d, "connected", k), Post(d, "gone", k)}
      BY <1>17, <2>1 DEF Return
    <2>3. Like(v, d) /\ DOMAIN d = Fields
      BY DEF Like, Fields
    <2> HIDE DEF d
    <2>4. Like(d, Post(d, "connected", k)) /\ Like(d, Post(d, "gone", k))
      BY <2>3, KeepsKind
    <2> QED
      BY <1>2, <2>2, <2>3, <2>4
  <1>18. ASSUME NEW k \in Ids, UdsReturn(k) PROVE Like(v, v')
    <2> DEFINE d == [v EXCEPT !.sess[k].callback = "none"]
    <2>1. v' \in {d, Erase(d, k)} /\ Like(v, d) /\ DOMAIN d = Fields
      BY <1>18 DEF UdsReturn, Like, Fields
    <2> HIDE DEF d
    <2>2. Like(d, Erase(d, k))
      BY <2>1, KeepsKind
    <2> QED
      BY <1>2, <2>1, <2>2
  <1>19. ASSUME NEW k \in Ids, Lose(k) \/ fail_receive(k) \/ write_target(k) PROVE Like(v, v')
    BY <1>19, KeepsKind DEF Lose, fail_receive, write_target
  <1>20. ASSUME NEW k \in Ids, Receive(k) PROVE Like(v, v')
    <2> DEFINE d == Count(v, {k})
    <2>1. PICK c : v' = [d EXCEPT !.sess[k].callback = c]
      BY <1>20 DEF Receive
    <2>2. Like(v, d)
      BY KeepsKind
    <2> HIDE DEF d
    <2> QED
      BY <2>1, <2>2 DEF Like, Fields
  <1> QED
    BY <1>4, <1>5, <1>6, <1>7, <1>8, <1>9, <1>10, <1>11, <1>12, <1>13, <1>14, <1>15, <1>16,
       <1>17, <1>18, <1>19, <1>20, SMT
       DEF Next, UdsNext, reset_stats, uds_reset_stats, async_write_copy, async_write_move,
           async_write_shared, async_try_write_copy, async_try_write_move,
           async_try_write_shared, accepts, uds_accepts, uds_async_write_shared,
           uds_async_try_write_shared, fail_client, send_to_client, uds_broadcast_result,
           broadcast_result

\* A server that has not been started.
LEMMA Begin ==
  ASSUME Arithmetic, NEW kind \in {"tcp", "uds"}, v = Fresh(kind)
  PROVE  Good(v) /\ v.kind = kind
  <1>1. MaxSessions \in Nat
    BY ServerAssumption
  <1>2. /\ DOMAIN v = Fields /\ v.kind = kind /\ v.run = 0 /\ v.state = "Idle"
        /\ v.stopping = FALSE /\ v.run_dispatched = FALSE /\ v.cleanup_started = FALSE
        /\ v.cleanup_done = FALSE /\ v.acceptor = FALSE /\ v.timers = {} /\ v.publishing = 0
        /\ v.posts = <<>> /\ v.next = 1 /\ v.sessions = {} /\ v.retiring = {}
        /\ v.current = 0 /\ v.remaining = 0 /\ v.sess = [k \in Ids |-> NoSession]
        /\ v.absorbed = 0 /\ v.counted = 0 /\ v.writer = 0
    BY DEF Fresh, Fields
  <1>3. \A X : ~In(v.posts, X) /\ Once(v.posts, X)
    BY <1>2, EmptyIn
  <1>4. SessionType(NoSession) /\ NoSession.posts = <<>>
    BY SMT DEF SessionType, NoSession, SessionFields
  <1>5. \A X : ~In(NoSession.posts, X) /\ Once(NoSession.posts, X)
    BY <1>4, EmptyIn
  <1>6. Typed(v)
    BY <1>2, <1>4, SMT DEF Typed
  <1>7. Life(v)
    BY <1>2 DEF Life
  <1>8. Dispatched(v)
    BY <1>2, <1>3 DEF Dispatched
  <1>9. Single(NoSession) /\ NoSession.alive = FALSE /\ NoSession.run = 0
    BY <1>5 DEF Single, NoSession
  <1>10. Sessions(v)
    BY <1>2, <1>9, SMT DEF Sessions, Informed, Held
  <1>11. Retires(v)
    BY <1>2, <1>3, <1>5 DEF Retires
  <1>12. Listens(v) /\ Current(v)
    BY <1>2 DEF Listens, Current
  <1>13. Sum(v)
    <2>1. Counts(v) = [k \in 1 .. MaxSessions |-> 0]
      BY <1>2 DEF Counts, Held, Ids
    <2>2. Total(Counts(v)) = 0
      BY <1>1, <2>1, TotalZero, SMT
    <2> QED
      BY <1>2, <2>2, SMT DEF Sum
  <1>14. Cleans(v) /\ Armed(v)
    BY <1>2, <1>3 DEF Cleans, Armed
  <1> QED
    BY <1>2, <1>6, <1>7, <1>8, <1>10, <1>11, <1>12, <1>13, <1>14 DEF Good, Base

\* The invariant of the TCP server, which keeps its kind.
TcpInv == Good(v) /\ v.kind = "tcp"

\* Everything the TCP server does keeps it, and tells each session's news once.
LEMMA TcpStep ==
  ASSUME TcpInv, Next
  PROVE  TcpInv' /\ Tells(v, v')
  <1>1. Good(v) /\ v.kind = "tcp" /\ DOMAIN v = Fields
    BY DEF TcpInv, Good, Base, Typed
  <1>2. v'.kind = "tcp"
    BY <1>1, KindKept
  <1> SUFFICES Good(v') /\ Tells(v, v')
    BY <1>2 DEF TcpInv
  <1>3. ASSUME \A k \in Ids : v'.sess[k].told = v.sess[k].told PROVE Tells(v, v')
    BY <1>3 DEF Tells
  <1>4. CASE start
    BY <1>1, <1>3, <1>4, Starts
  <1>5. CASE Stop \/ request_stop
    BY <1>1, <1>5, StopSteps
  <1>6. CASE ResetStats
    BY <1>1, <1>6, Resets
  <1>7. CASE CaptureCurrent
    BY <1>1, <1>7, Captures
  <1>8. CASE WriteCaptured
    BY <1>1, <1>8, WritesCaptured
  <1>9. CASE broadcast
    BY <1>1, <1>9, Broadcasts
  <1>10. CASE RunPosted
    BY <1>1, <1>10, RunPostedSteps, SMT
  <1>11. CASE BindTimer
    BY <1>1, <1>11, BindTimerSteps
  <1>12. CASE accepts
    BY <1>1, <1>12, AcceptSteps
  <1>13. ASSUME NEW k \in Ids, RunSession(k) PROVE Good(v') /\ Tells(v, v')
    BY <1>1, <1>13, RunsSession
  <1>14. ASSUME NEW k \in Ids, Return(k) PROVE Good(v') /\ Tells(v, v')
    BY <1>1, <1>14, Returns
  <1>15. ASSUME NEW k \in Ids, Lose(k) PROVE Good(v') /\ Tells(v, v')
    BY <1>1, <1>15, Loses
  <1>16. ASSUME NEW k \in Ids, Receive(k) PROVE Good(v') /\ Tells(v, v')
    BY <1>1, <1>16, Receives
  <1>17. ASSUME NEW k \in Ids, fail_receive(k) PROVE Good(v') /\ Tells(v, v')
    BY <1>1, <1>17, FailsReceive
  <1>18. ASSUME NEW k \in Ids, write_target(k) PROVE Good(v') /\ Tells(v, v')
    BY <1>1, <1>18, WritesTarget
  <1> QED
    BY <1>4, <1>5, <1>6, <1>7, <1>8, <1>9, <1>10, <1>11, <1>12, <1>13, <1>14, <1>15, <1>16,
       <1>17, <1>18, SMT
       DEF Next, reset_stats, async_write_copy, async_write_move, async_write_shared,
           async_try_write_copy, async_try_write_move, async_try_write_shared,
           broadcast_result

\* The invariant of the UDS server.
UdsInv == Good(v) /\ v.kind = "uds"

\* Everything the UDS server does keeps it.
LEMMA UdsStep ==
  ASSUME UdsInv, UdsNext
  PROVE  UdsInv' /\ Tells(v, v')
  <1>1. Good(v) /\ v.kind = "uds" /\ DOMAIN v = Fields
    BY DEF UdsInv, Good, Base, Typed
  <1>2. v'.kind = "uds"
    BY <1>1, KindKept
  <1> SUFFICES Good(v') /\ Tells(v, v')
    BY <1>2 DEF UdsInv
  <1>3. ASSUME \A k \in Ids : v'.sess[k].told = v.sess[k].told PROVE Tells(v, v')
    BY <1>3 DEF Tells
  <1>4. CASE uds_start
    BY <1>1, <1>3, <1>4, UdsStarts
  <1>5. CASE UdsStop
    BY <1>1, <1>5, StopSteps
  <1>6. CASE ResetStats
    BY <1>1, <1>6, Resets
  <1>7. CASE broadcast
    BY <1>1, <1>7, Broadcasts
  <1>8. CASE UdsRunPosted
    BY <1>1, <1>8, UdsRunPostedSteps
  <1>9. CASE uds_accepts
    BY <1>1, <1>9, AcceptSteps DEF accepts, uds_accepts
  <1>10. ASSUME NEW k \in Ids, RunSession(k) PROVE Good(v') /\ Tells(v, v')
    BY <1>1, <1>10, RunsSession
  <1>11. ASSUME NEW k \in Ids, UdsReturn(k) PROVE Good(v') /\ Tells(v, v')
    BY <1>1, <1>11, UdsReturns
  <1>12. ASSUME NEW k \in Ids, Lose(k) PROVE Good(v') /\ Tells(v, v')
    BY <1>1, <1>12, Loses
  <1>13. ASSUME NEW k \in Ids, Receive(k) PROVE Good(v') /\ Tells(v, v')
    BY <1>1, <1>13, Receives
  <1>14. ASSUME NEW k \in Ids, fail_receive(k) PROVE Good(v') /\ Tells(v, v')
    BY <1>1, <1>14, FailsReceive
  <1>15. ASSUME NEW k \in Ids, write_target(k) PROVE Good(v') /\ Tells(v, v')
    BY <1>1, <1>15, WritesTarget
  <1> QED
    BY <1>4, <1>5, <1>6, <1>7, <1>8, <1>9, <1>10, <1>11, <1>12, <1>13, <1>14, <1>15
       DEF UdsNext, uds_reset_stats, uds_async_write_shared, uds_async_try_write_shared,
           fail_client, send_to_client, uds_broadcast_result

-----------------------------------------------------------------------------
(* The properties.                                                         *)

\* What the invariant says of a state.
LEMMA Consequences ==
  ASSUME Good(v)
  PROVE  TotalsExact /\ StopQuiesces /\ CleanupAdvances /\ AcceptLoopLives
  <1>1. /\ Typed(v) /\ Life(v) /\ Sessions(v) /\ Retires(v) /\ Listens(v) /\ Current(v)
        /\ Sum(v) /\ Cleans(v) /\ Armed(v)
    BY DEF Good, Base
  <1>2. DOMAIN v.posts = 1 .. Len(v.posts)
    BY <1>1, SMT DEF Typed
  <1>3. TotalsExact
    BY <1>1 DEF TotalsExact, stats, Sum, Counts
  <1>4. StopQuiesces
    <2> SUFFICES ASSUME v.cleanup_done
                 PROVE  /\ v.sessions = {} /\ v.retiring = {} /\ v.publishing = 0 /\ ~v.acceptor
                        /\ \A k \in Ids : v.sess[k].run > 0 =>
                              v.sess[k].callback = "none" /\ v.sess[k].cleanup_done
      BY DEF StopQuiesces
    <2>1. v.sessions = {} /\ v.retiring = {} /\ v.publishing = 0 /\ ~v.acceptor
      BY <1>1 DEF Life
    <2>2. \A k \in Ids : v.sess[k] = NoSession \/ Dead(v.sess[k])
      BY <1>1, <2>1 DEF Sessions, Held
    <2>3. NoSession.run = 0
      BY DEF NoSession
    <2> QED
      BY <2>1, <2>2, <2>3, SMT DEF Dead
  <1>5. CleanupAdvances
    <2> SUFFICES ASSUME v.stopping, ~v.cleanup_done, ~Pending("cleanup")
                 PROVE  /\ v.remaining > 0 /\ v.remaining = Cardinality(v.retiring)
                        /\ \A k \in v.retiring :
                             \/ Holds(k, "stop")
                             \/ \E i \in DOMAIN v.posts :
                                   v.posts[i].what = "retired" /\ v.posts[i].k = k
      BY DEF CleanupAdvances
    <2>1. ~In(v.posts, Cleaning)
      BY <1>2 DEF In, Cleaning, Pending
    <2>2. v.cleanup_started
      BY <1>1, <2>1 DEF Cleans
    <2>3. v.remaining = Cardinality(v.retiring) /\ v.retiring # {} /\ v.retiring \subseteq Ids
      BY <1>1, <2>2 DEF Life, Typed
    <2>4. v.remaining > 0
      <3>1. Cardinality(v.retiring) \in Nat /\ Cardinality(v.retiring) # 0
        BY <1>1, <2>3, FiniteIds DEF Sum
      <3> QED
        BY <2>3, <3>1, SMT
    <2>5. ASSUME NEW k \in v.retiring
          PROVE  \/ Holds(k, "stop")
                 \/ \E i \in DOMAIN v.posts : v.posts[i].what = "retired" /\ v.posts[i].k = k
      <3>1. k \in Ids
        BY <2>3
      <3>2. CASE In(v.sess[k].posts, {"stop"})
        <4>1. DOMAIN v.sess[k].posts = 1 .. Len(v.sess[k].posts)
          BY <1>1, <3>1, SMT DEF Typed, SessionType
        <4> QED
          BY <3>2, <4>1 DEF In, Holds
      <3>3. CASE In(v.posts, Of("retired", k))
        BY <1>2, <3>3 DEF In, Of
      <3> QED
        BY <1>1, <3>1, <3>2, <3>3 DEF Retires
    <2> QED
      BY <2>3, <2>4, <2>5
  <1>6. AcceptLoopLives
    <2> SUFFICES ASSUME v.state \in {"Listening", "Connected"}, ~v.stopping
                 PROVE  /\ \/ v.run \in v.accepting \/ v.publishing = v.run
                           \/ \E t \in v.timers : t.what = "accept" /\ t.run = v.run
                           \/ Pending("accept")
                        /\ v.state = "Connected" => v.sessions # {}
      BY DEF AcceptLoopLives
    <2>1. v.acceptor
      BY <1>1 DEF Listens
    <2>2. In(v.posts, Accepts(v.run)) => Pending("accept")
      BY <1>2 DEF In, Accepts, Pending
    <2> QED
      BY <1>1, <2>1, <2>2 DEF Armed, Current
  <1> QED
    BY <1>3, <1>4, <1>5, <1>6

-----------------------------------------------------------------------------
(* Sums and numbers of sessions.                                           *)

\* The library on sums, for its facts; the names of both modules stay apart.
Lib == INSTANCE SumProofs

\* The library adds and counts as the model does.
LEMMA SameOperators ==
  /\ \A q : Total(q) = Lib!Total(q)
  /\ \A X : Cardinality(X) = Lib!Cardinality(X)
  BY DEF Total, Lib!Total, Cardinality, Lib!Cardinality

\* What the proofs above use of sums and of sets of sessions is true.
THEOREM Numbers == Arithmetic
  <1>1. MaxSessions \in Nat /\ Ids = 1 .. MaxSessions
    BY ServerAssumption DEF Ids
  <1>2. \A q \in Seq(Nat) : Total(q) \in Nat
    BY Lib!TotalType, SameOperators
  <1>3. \A q \in Seq(Nat) : (\A i \in 1 .. Len(q) : q[i] = 0) => Total(q) = 0
    BY Lib!TotalZero, SameOperators
  <1>4. \A q, r, u \in Seq(Nat) :
          Len(r) = Len(q) /\ Len(u) = Len(q) /\ (\A i \in 1 .. Len(q) : u[i] = q[i] + r[i])
          => Total(u) = Total(q) + Total(r)
    BY Lib!TotalPlus, SameOperators
  <1>5. \A q \in Seq(Nat) : \A i \in 1 .. Len(q) :
          [q EXCEPT ![i] = 0] \in Seq(Nat) /\ Total(q) = Total([q EXCEPT ![i] = 0]) + q[i]
    BY Lib!TotalLess, SameOperators
  <1>6. \A X \in SUBSET Ids :
          /\ Cardinality(X) \in Nat /\ (Cardinality(X) = 0 <=> X = {})
          /\ \A k \in X : Cardinality(X \ {k}) = Cardinality(X) - 1
          /\ Total([k \in Ids |-> IF k \in X THEN 1 ELSE 0]) = Cardinality(X)
    BY <1>1, Lib!Subsets, SameOperators
  <1> QED
    BY <1>2, <1>3, <1>4, <1>5, <1>6 DEF Arithmetic

-----------------------------------------------------------------------------
(* The theorems.                                                           *)

\* The TCP server's invariant holds in every state, however its strand, the strands
\* of its sessions and the callers of start(), stop() and the writes interleave.
THEOREM TcpServerInvariance == Spec => []TcpInv
  <1>1. Init => TcpInv
    BY Begin, Numbers DEF Init, TcpInv
  <1>2. TcpInv /\ [Next]_v => TcpInv'
    BY TcpStep DEF TcpInv
  <1> QED
    BY <1>1, <1>2, PTL DEF Spec

\* The UDS server's too.
THEOREM UdsServerInvariance == UdsSpec => []UdsInv
  <1>1. UdsInit => UdsInv
    BY Begin, Numbers DEF UdsInit, UdsInv
  <1>2. UdsInv /\ [UdsNext]_v => UdsInv'
    BY UdsStep DEF UdsInv
  <1> QED
    BY <1>1, <1>2, PTL DEF UdsSpec

\* stats() of the TCP server is exact: nothing is lost when a session closes, is
\* retired by stop(), or is reset, and nothing is counted twice.
THEOREM TcpServerTotals == Spec => []TotalsExact
  <1>1. TcpInv => TotalsExact
    BY Consequences DEF TcpInv
  <1> QED
    BY <1>1, TcpServerInvariance, PTL

\* stats() of the UDS server is exact.
THEOREM UdsServerTotals == UdsSpec => []TotalsExact
  <1>1. UdsInv => TotalsExact
    BY Consequences DEF UdsInv
  <1> QED
    BY <1>1, UdsServerInvariance, PTL

\* When the TCP server's stop() is done no session is left, none of its callbacks
\* runs or can begin, and nothing is accepted any more.
THEOREM TcpServerQuiesces == Spec => []StopQuiesces
  <1>1. TcpInv => StopQuiesces
    BY Consequences DEF TcpInv
  <1> QED
    BY <1>1, TcpServerInvariance, PTL

\* When the UDS server's stop() is done its run is over too.
THEOREM UdsServerQuiesces == UdsSpec => []StopQuiesces
  <1>1. UdsInv => StopQuiesces
    BY Consequences DEF UdsInv
  <1> QED
    BY <1>1, UdsServerInvariance, PTL

\* The TCP server's stop() never waits for something that is not on its way.
THEOREM TcpServerCleanupAdvances == Spec => []CleanupAdvances
  <1>1. TcpInv => CleanupAdvances
    BY Consequences DEF TcpInv
  <1> QED
    BY <1>1, TcpServerInvariance, PTL

\* Nor does the UDS server's.
THEOREM UdsServerCleanupAdvances == UdsSpec => []CleanupAdvances
  <1>1. UdsInv => CleanupAdvances
    BY Consequences DEF UdsInv
  <1> QED
    BY <1>1, UdsServerInvariance, PTL

\* A TCP server that says it listens has an accept outstanding or about to be, and
\* one that says it is connected has a client.
THEOREM TcpServerAccepts == Spec => []AcceptLoopLives
  <1>1. TcpInv => AcceptLoopLives
    BY Consequences DEF TcpInv
  <1> QED
    BY <1>1, TcpServerInvariance, PTL

\* A UDS server that says it listens does.
THEOREM UdsServerAccepts == UdsSpec => []AcceptLoopLives
  <1>1. UdsInv => AcceptLoopLives
    BY Consequences DEF UdsInv
  <1> QED
    BY <1>1, UdsServerInvariance, PTL

\* The TCP server's user hears of a client's connect once, of its disconnect once and
\* after that, and of nothing in a run that is stopping.
THEOREM TcpServerNotifies == Spec => NotificationsFenced
  <1>1. TcpInv /\ [Next]_v =>
          [\A k \in Ids : v'.sess[k].told # v.sess[k].told =>
              /\ ~v.stopping /\ v.sess[k].run = v.run
              /\ <<v.sess[k].told, v'.sess[k].told>> \in
                    {<<"nothing", "connected">>, <<"connected", "disconnected">>}]_v
    BY TcpStep DEF Tells
  <1> QED
    BY <1>1, TcpServerInvariance, PTL DEF Spec, NotificationsFenced

\* The same of the UDS server's user.
THEOREM UdsServerNotifies == UdsSpec => NotificationsFenced
  <1>1. UdsInv /\ [UdsNext]_v =>
          [\A k \in Ids : v'.sess[k].told # v.sess[k].told =>
              /\ ~v.stopping /\ v.sess[k].run = v.run
              /\ <<v.sess[k].told, v'.sess[k].told>> \in
                    {<<"nothing", "connected">>, <<"connected", "disconnected">>}]_v
    BY UdsStep DEF Tells
  <1> QED
    BY <1>1, UdsServerInvariance, PTL DEF UdsSpec, NotificationsFenced
=============================================================================
