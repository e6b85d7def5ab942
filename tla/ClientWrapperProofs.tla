------------------------ MODULE ClientWrapperProofs ------------------------
(***************************************************************************)
(* The inductive invariants behind CallbacksFenced and NothingMissed for   *)
(* the client wrappers, and that every step they have in common keeps      *)
(* them.  The theorems for the four wrappers are at the end.               *)
(***************************************************************************)
EXTENDS ClientWrapper, SequenceTheorems, TLAPS

\* The fields of the record w, and the steps a handler is made of.
Fields ==
    {"kind", "injected", "batching", "gate", "started", "stop_requested", "alive",
     "promises", "limits", "stopped", "is_listening", "connected", "terminal_error",
     "channel", "hooked", "running", "link", "conn", "up", "pressure", "stopping",
     "cancelled", "session", "data", "messages", "timer", "expired", "todo", "run",
     "event", "lost", "error", "stops", "sends"}

Steps ==
    {"alive", "enter", "data", "deliver", "observe", "notify", "error", "flush",
     "messages", "user", "end"}

\* A handler's remaining steps: it ends with "end" and nothing else does, and a
\* flush of the data is followed by that of the messages.
Well(q) ==
    /\ q \in Seq(Steps)
    /\ q # <<>> =>
        /\ q[Len(q)] = "end"
        /\ \A i \in 1 .. Len(q) - 1 :
              q[i] # "end" /\ (q[i] = "flush" => q[i + 1] = "messages")

\* A handler that takes a step other than "end" has steps left.
LEMMA WellTail ==
  ASSUME NEW q, Well(q), q # <<>>, Head(q) # "end"
  PROVE  Well(Tail(q)) /\ Tail(q) # <<>>
  <1>1. /\ q \in Seq(Steps) /\ Len(q) \in Nat \ {0} /\ q[1] # "end" /\ q[Len(q)] = "end"
        /\ \A i \in 1 .. Len(q) - 1 :
              q[i] # "end" /\ (q[i] = "flush" => q[i + 1] = "messages")
    BY EmptySeq DEF Well
  <1>2. Len(q) # 1
    BY <1>1
  <1>3. /\ Tail(q) \in Seq(Steps) /\ Len(Tail(q)) = Len(q) - 1
        /\ \A i \in 1 .. Len(Tail(q)) : Tail(q)[i] = q[i + 1]
    BY <1>1, HeadTailProperties
  <1>4. Len(Tail(q)) # 0
    BY <1>1, <1>2, <1>3
  <1>7. Tail(q) # <<>>
    <2>1. Len(<<>>) = 0
      OBVIOUS
    <2> QED
      BY <1>4, <2>1, Zenon
  <1> HIDE DEF Well
  <1>5. Tail(q)[Len(Tail(q))] = "end"
    BY <1>1, <1>2, <1>3
  <1>6. ASSUME NEW i \in 1 .. Len(Tail(q)) - 1
        PROVE  Tail(q)[i] # "end" /\ (Tail(q)[i] = "flush" => Tail(q)[i + 1] = "messages")
    <2>1. i \in 1 .. Len(Tail(q)) /\ i + 1 \in 1 .. Len(Tail(q)) /\ i + 1 \in 1 .. Len(q) - 1
      BY <1>1, <1>3
    <2>2. Tail(q)[i] = q[i + 1] /\ Tail(q)[i + 1] = q[(i + 1) + 1]
      BY <2>1, <1>3
    <2> QED
      BY <1>1, <2>1, <2>2
  <1> QED
    BY <1>3, <1>7, <1>5, <1>6 DEF Well

\* flush_batches() that finds nothing to do skips both of its steps.
LEMMA WellSkip ==
  ASSUME NEW q, Well(q), q # <<>>, Head(q) = "flush"
  PROVE  Well(Tail(Tail(q))) /\ Tail(Tail(q)) # <<>>
  <1>1. Well(Tail(q)) /\ Tail(q) # <<>>
    BY WellTail
  <1>2. /\ q \in Seq(Steps) /\ Len(q) \in Nat \ {0} /\ q[1] = "flush" /\ q[Len(q)] = "end"
        /\ \A i \in 1 .. Len(q) - 1 : q[i] = "flush" => q[i + 1] = "messages"
    BY EmptySeq DEF Well
  <1>3. Tail(q)[1] = q[1 + 1] /\ Len(q) > 1
    BY <1>1, <1>2, HeadTailProperties DEF Well
  <1>4. Tail(q)[1] = "messages"
    BY <1>2, <1>3
  <1>5. Head(Tail(q)) # "end"
    BY <1>1, <1>4 DEF Well
  <1> QED
    BY <1>1, <1>5, WellTail

\* A handler that has one more step to take first.
LEMMA WellCons ==
  ASSUME NEW q, Well(q), q # <<>>, NEW x \in Steps, x # "end",
         x = "flush" => q[1] = "messages"
  PROVE  Well(<<x>> \o q) /\ <<x>> \o q # <<>> /\ (<<x>> \o q)[1] = x
  <1> DEFINE p == <<x>> \o q
  <1>1. /\ q \in Seq(Steps) /\ Len(q) \in Nat \ {0} /\ q[Len(q)] = "end"
        /\ \A i \in 1 .. Len(q) - 1 :
              q[i] # "end" /\ (q[i] = "flush" => q[i + 1] = "messages")
    BY EmptySeq DEF Well
  <1>2. <<x>> \in Seq(Steps) /\ Len(<<x>>) = 1 /\ <<x>>[1] = x
    OBVIOUS
  <1>3. /\ p \in Seq(Steps) /\ Len(p) = 1 + Len(q)
        /\ \A i \in 1 .. 1 + Len(q) : p[i] = IF i <= 1 THEN <<x>>[i] ELSE q[i - 1]
    BY <1>1, <1>2, ConcatProperties
  <1> HIDE DEF p
  <1>4. p[1] = x /\ p[Len(p)] = "end"
    BY <1>1, <1>2, <1>3
  <1>5. ASSUME NEW i \in 1 .. Len(p) - 1
        PROVE  p[i] # "end" /\ (p[i] = "flush" => p[i + 1] = "messages")
    <2>1. i + 1 \in 1 .. 1 + Len(q) /\ ~(i + 1 <= 1) /\ (i + 1) - 1 = i
      BY <1>1, <1>3
    <2>2. p[i + 1] = q[i]
      BY <2>1, <1>3
    <2>3. CASE i = 1
      BY <2>2, <2>3, <1>4
    <2>4. CASE i # 1
      <3>1. i \in 1 .. 1 + Len(q) /\ ~(i <= 1) /\ i - 1 \in 1 .. Len(q) - 1 /\ (i - 1) + 1 = i
        BY <2>4, <1>1, <1>3
      <3>2. p[i] = q[i - 1]
        BY <3>1, <1>3
      <3> QED
        BY <3>1, <3>2, <2>2, <1>1
    <2> QED
      BY <2>3, <2>4
  <1>6. p # <<>>
    BY <1>1, <1>3
  <1>7. Well(p)
    BY <1>3, <1>4, <1>5 DEF Well
  <1> QED
    BY <1>4, <1>6, <1>7 DEF p

\* The handlers that the transport and the timer call, and a finished one.
LEMMA WellHandlers ==
  /\ Well(<<>>) /\ Well(<<"end">>)
  /\ Well(OnBytes) /\ Well(OnState) /\ Well(OnPressure) /\ Well(OnTimer)
  <1>1. Well(<<>>)
    BY EmptySeq DEF Well
  <1>2. Well(<<"end">>)
    <2>1. <<"end">> \in Seq(Steps) /\ Len(<<"end">>) = 1
      BY DEF Steps
    <2> QED
      BY <2>1 DEF Well
  <1>3. Well(OnBytes)
    <2>1. OnBytes \in Seq(Steps) /\ Len(OnBytes) = 5
      BY DEF OnBytes, Steps
    <2>2. \A i \in 1 .. Len(OnBytes) - 1 : i = 1 \/ i = 2 \/ i = 3 \/ i = 4
      BY <2>1
    <2> QED
      BY <2>1, <2>2 DEF Well, OnBytes
  <1>4. Well(OnState)
    <2>1. OnState \in Seq(Steps) /\ Len(OnState) = 6
      BY DEF OnState, Steps
    <2>2. \A i \in 1 .. Len(OnState) - 1 : i = 1 \/ i = 2 \/ i = 3 \/ i = 4 \/ i = 5
      BY <2>1
    <2> QED
      BY <2>1, <2>2 DEF Well, OnState
  <1>5. Well(OnPressure)
    <2>1. OnPressure \in Seq(Steps) /\ Len(OnPressure) = 4
      BY DEF OnPressure, Steps
    <2>2. \A i \in 1 .. Len(OnPressure) - 1 : i = 1 \/ i = 2 \/ i = 3
      BY <2>1
    <2> QED
      BY <2>1, <2>2 DEF Well, OnPressure
  <1>6. Well(OnTimer)
    <2>1. OnTimer \in Seq(Steps) /\ Len(OnTimer) = 4
      BY DEF OnTimer, Steps
    <2>2. \A i \in 1 .. Len(OnTimer) - 1 : i = 1 \/ i = 2 \/ i = 3
      BY <2>1
    <2> QED
      BY <2>1, <2>2 DEF Well, OnTimer
  <1> QED
    BY <1>1, <1>2, <1>3, <1>4, <1>5, <1>6

\* The fields of the callback gate.
Gate == {"closed", "generation", "threads"}

\* Which fields the records have.  Only the io thread runs callbacks of a client.
Shape ==
    /\ DOMAIN w = Fields /\ DOMAIN w.gate = Gate /\ w.kind # "udp_server"
    /\ DOMAIN w.stops = Threads /\ DOMAIN w.sends = Senders
    /\ w.gate.threads \subseteq {"io"} /\ w.gate.generation \in Nat

\* What is left of a handler that has not entered the gate: it is about to look
\* at the alive marker or to ask the gate, or it was refused.
Unentered ==
    {<<>>, <<"end">>, OnBytes, Tail(OnBytes), OnState, Tail(OnState),
     OnPressure, Tail(OnPressure), OnTimer, Tail(OnTimer)}

\* A handler without a lease has no user callback ahead of it before it asks for one.
Handlers ==
    /\ Well(w.todo)
    /\ IF "io" \in w.gate.threads THEN w.todo # <<>> ELSE w.todo \in Unentered

\* Before the first start() there is no transport, so nothing calls the wrapper.
Untouched ==
    /\ w.todo = <<>> /\ w.gate.threads = {} /\ w.gate.generation = 0 /\ ~w.gate.closed
    /\ ~w.hooked /\ ~w.running /\ ~w.up /\ w.expired = {} /\ w.timer = 0

\* How the flags of the life cycle go together: the gate is closed from the
\* beginning of a stop() to the next start(), a stop() that waited leaves no
\* lease, and the settings change only while nothing runs.
Closes ==
    /\ ~w.started /\ ~w.stop_requested => Untouched
    /\ w.stopped \/ stop_callers(w) # {} => w.gate.closed
    /\ w.stopped => "io" \notin w.gate.threads
    /\ ~w.alive => w.stopped
    /\ w.limits # "in use" => w.stopped \/ (~w.started /\ ~w.stop_requested)

\* The inductive invariant of the client wrappers.
IInv ==
    /\ Shape /\ Handlers /\ Closes
    /\ "io" \in w.gate.threads => w.run = w.gate.generation

\* s and t differ at most in the fields fs.
Agree(s, t, fs) == DOMAIN s = Fields /\ DOMAIN t = Fields /\ \A f \in Fields \ fs : t[f] = s[f]

\* The transport's call of a handler changes what concerns handlers only.
LEMMA CallFields ==
  ASSUME NEW s, DOMAIN s = Fields, NEW event, NEW steps
  PROVE  LET t == Call(s, event, steps)
         IN  /\ Agree(s, t, {"todo", "event", "run"})
             /\ \/ t.todo = s.todo /\ t.run = s.run
                \/ t.todo = steps /\ t.run = s.gate.generation
  BY DEF Call, Agree, Fields

\* Then changes the steps left and nothing else.
LEMMA ThenFields ==
  ASSUME NEW s, DOMAIN s = Fields, NEW steps
  PROVE  LET t == Then(s, steps)
         IN  Agree(s, t, {"todo"}) /\ t.todo = steps \o Tail(s.todo)
  BY DEF Then, Agree, Fields

\* So does Return.
LEMMA ReturnFields ==
  ASSUME NEW s, DOMAIN s = Fields
  PROVE  Agree(s, Return(s), {"todo"}) /\ Return(s).todo = <<"end">>
  BY DEF Return, Agree, Fields

\* Entering the gate changes the gate.
LEMMA EnterFields ==
  ASSUME NEW s, DOMAIN s = Fields
  PROVE  Agree(s, Enter(s), {"gate"}) /\ Enter(s).gate = enter(s.gate, "io")
  BY DEF Enter, Agree, Fields

\* The history of the sends is a field of the same shape.
LEMMA MissedFields ==
  ASSUME NEW s, DOMAIN s = Fields
  PROVE  Agree(s, Missed(s), {"sends"}) /\ DOMAIN Missed(s).sends = Senders
  BY DEF Missed, Agree, Fields

\* The end of a connection.
LEMMA DisconnectFields ==
  ASSUME NEW s, DOMAIN s = Fields
  PROVE  LET t == Disconnect(s)
         IN  /\ Agree(s, t, {"up", "conn", "pressure", "cancelled", "sends"})
             /\ t.sends = Missed(s).sends /\ DOMAIN t.sends = Senders
             /\ ~t.up /\ t.conn = s.conn + 1
  <1> DEFINE m == Missed(s)
  <1>1. Agree(s, m, {"sends"}) /\ DOMAIN m.sends = Senders
    BY MissedFields
  <1>2. Disconnect(s) = [m EXCEPT !.up = FALSE, !.conn = @ + 1, !.pressure = FALSE, !.cancelled = FALSE]
    BY DEF Disconnect
  <1> HIDE DEF m, Disconnect
  <1>3. DOMAIN m = Fields /\ m.conn = s.conn
    BY <1>1 DEF Agree, Fields
  <1>4. Agree(m, Disconnect(s), {"up", "conn", "pressure", "cancelled"})
    BY <1>2, <1>3 DEF Agree, Fields
  <1>5. ~Disconnect(s).up /\ Disconnect(s).conn = s.conn + 1
    BY <1>2, <1>3 DEF Fields
  <1>6. Disconnect(s).sends = m.sends
    BY <1>4 DEF Agree, Fields
  <1>7. Agree(s, Disconnect(s), {"up", "conn", "pressure", "cancelled", "sends"})
    BY <1>1, <1>4, Zenon DEF Agree
  <1> QED
    BY <1>1, <1>5, <1>6, <1>7 DEF m

\* A lost connection changes the transport's fields, and calls a handler or not.
LEMMA DropsFields ==
  ASSUME NEW s, DOMAIN s = Fields, NEW link
  PROVE  LET t == Drops(s, link)
         IN  /\ Agree(s, t, {"todo", "event", "run", "up", "conn", "pressure", "cancelled", "link",
                            "sends"})
             /\ DOMAIN s.sends = Senders => DOMAIN t.sends = Senders
             /\ \/ t.todo = s.todo /\ t.run = s.run
                \/ t.todo = OnState /\ t.run = s.gate.generation
  <1> DEFINE d == IF s.up THEN Disconnect(s) ELSE s
             e == [d EXCEPT !.link = link]
  <1>1. /\ Agree(s, d, {"up", "conn", "pressure", "cancelled", "sends"})
        /\ DOMAIN s.sends = Senders => DOMAIN d.sends = Senders
    BY DisconnectFields DEF Agree, Fields
  <1> HIDE DEF d
  <1>2. Agree(d, e, {"link"})
    BY <1>1 DEF Agree, Fields
  <1> HIDE DEF e
  <1>3. /\ Agree(s, e, {"up", "conn", "pressure", "cancelled", "link", "sends"})
        /\ e.todo = s.todo /\ e.run = s.run /\ e.gate = s.gate /\ e.sends = d.sends
    BY <1>1, <1>2 DEF Agree, Fields
  <1>4. Drops(s, link) = Call(e, link, OnState)
    BY DEF Drops, d, e
  <1> HIDE DEF Drops
  <1>5. DOMAIN e = Fields
    BY <1>3 DEF Agree
  <1> QED
    BY <1>1, <1>3, <1>4, <1>5, CallFields DEF Agree, Fields

\* A transport that stops changes its own fields, and is not running then.
LEMMA HaltFields ==
  ASSUME NEW s, DOMAIN s = Fields
  PROVE  LET t == Halt(s)
         IN  /\ Agree(s, t, {"up", "conn", "pressure", "cancelled", "stopping", "running", "link",
                            "sends"})
             /\ DOMAIN s.sends = Senders => DOMAIN t.sends = Senders
             /\ ~t.running /\ (~s.up => ~t.up)
  <1> DEFINE d == IF s.up THEN Disconnect(s) ELSE s
  <1>1. /\ Agree(s, d, {"up", "conn", "pressure", "cancelled", "sends"}) /\ (~s.up => d = s)
        /\ DOMAIN s.sends = Senders => DOMAIN d.sends = Senders
    BY DisconnectFields DEF Agree, Fields
  <1> DEFINE e == [d EXCEPT !.stopping = "done", !.running = FALSE, !.link = "Idle"]
  <1>2. Halt(s) = e
    BY DEF Halt
  <1> HIDE DEF d, Halt
  <1>3. Agree(d, e, {"stopping", "running", "link"})
    BY <1>1 DEF Agree, Fields
  <1>4. ~e.running
    BY <1>1 DEF Agree, Fields
  <1> HIDE DEF e
  <1>5. Agree(s, e, {"up", "conn", "pressure", "cancelled", "stopping", "running", "link", "sends"})
    BY <1>1, <1>3 DEF Agree, Fields
  <1>6. e.up = d.up /\ e.sends = d.sends
    BY <1>3 DEF Agree, Fields
  <1>7. ~s.up => ~e.up
    BY <1>1, <1>6, Zenon
  <1> QED
    BY <1>1, <1>2, <1>4, <1>5, <1>6, <1>7, Zenon

-----------------------------------------------------------------------------
\* The initial states of the four client wrappers.
ClientInit ==
    \E kind \in {"tcp", "uds", "serial", "udp"}, injected, batching \in BOOLEAN :
        w = NewImpl(kind, injected, batching)

\* A new wrapper satisfies the invariant.
LEMMA InitInv == ClientInit => IInv
  <1> SUFFICES ASSUME NEW kind \in {"tcp", "uds", "serial", "udp"},
                      NEW injected \in BOOLEAN, NEW batching \in BOOLEAN,
                      w = NewImpl(kind, injected, batching)
               PROVE  IInv
    BY DEF ClientInit
  <1>1. Shape
    BY DEF NewImpl, NewGate, Shape, Fields, Gate
  <1>2. /\ w.todo = <<>> /\ w.gate.threads = {} /\ w.gate.generation = 0 /\ ~w.gate.closed
        /\ ~w.hooked /\ ~w.running /\ ~w.up /\ w.expired = {} /\ w.timer = 0
    BY DEF NewImpl, NewGate
  <1>3. w.alive /\ ~w.stopped /\ w.limits = "in use" /\ stop_callers(w) = {}
    BY DEF NewImpl, stop_callers
  <1>4. Handlers
    BY <1>2, WellHandlers DEF Handlers, Unentered
  <1> QED
    BY <1>1, <1>2, <1>3, <1>4 DEF IInv, Closes, Untouched

\* The fields the invariant relates to one another.
Base == {"kind", "gate", "started", "stop_requested", "alive", "limits", "stopped", "stops"}

\* A step that leaves the gate and the life cycle alone, in a run.
LEMMA Moves ==
  ASSUME IInv, DOMAIN w' = Fields, \A f \in Base : w'[f] = w[f], DOMAIN w'.sends = Senders,
         w.started \/ w.stop_requested,
         Well(w'.todo),
         IF "io" \in w.gate.threads THEN w'.todo # <<>> ELSE w'.todo \in Unentered,
         "io" \in w.gate.threads => w'.run = w.gate.generation
  PROVE  IInv'
  <1>1. /\ w'.gate = w.gate /\ w'.started = w.started /\ w'.stop_requested = w.stop_requested
        /\ w'.alive = w.alive /\ w'.limits = w.limits /\ w'.stopped = w.stopped
        /\ w'.stops = w.stops
        /\ w'.kind = w.kind
    BY DEF Base
  <1>2. Shape'
    BY <1>1 DEF IInv, Shape
  <1>3. Handlers'
    BY <1>1 DEF Handlers
  <1>4. stop_callers(w)' = stop_callers(w)
    BY <1>1 DEF stop_callers
  <1>5. Closes'
    BY <1>1, <1>4 DEF IInv, Closes
  <1> QED
    BY <1>1, <1>2, <1>3, <1>5 DEF IInv

\* A step that no part of the invariant is about.
LEMMA Quiet ==
  ASSUME IInv, DOMAIN w' = Fields, \A f \in Base : w'[f] = w[f], DOMAIN w'.sends = Senders,
         w'.todo = w.todo, w'.run = w.run, Untouched => Untouched'
  PROVE  IInv'
  <1>1. /\ w'.gate = w.gate /\ w'.started = w.started /\ w'.stop_requested = w.stop_requested
        /\ w'.alive = w.alive /\ w'.limits = w.limits /\ w'.stopped = w.stopped
        /\ w'.stops = w.stops
        /\ w'.kind = w.kind
    BY DEF Base
  <1>2. Shape'
    BY <1>1 DEF IInv, Shape
  <1>3. Handlers'
    BY <1>1 DEF Handlers, IInv
  <1>4. stop_callers(w)' = stop_callers(w)
    BY <1>1 DEF stop_callers
  <1>5. Closes'
    BY <1>1, <1>4 DEF IInv, Closes
  <1> QED
    BY <1>1, <1>2, <1>3, <1>5 DEF IInv

\* A step that takes the lease.
LEMMA Enters ==
  ASSUME IInv, DOMAIN w' = Fields, \A f \in Base \ {"gate"} : w'[f] = w[f], DOMAIN w'.sends = Senders,
         w.started \/ w.stop_requested, Admits(w), w'.gate = enter(w.gate, "io"),
         Well(w'.todo), w'.todo # <<>>, w'.run = w.run
  PROVE  IInv'
  <1>1. /\ w'.started = w.started /\ w'.stop_requested = w.stop_requested
        /\ w'.alive = w.alive /\ w'.limits = w.limits /\ w'.stopped = w.stopped
        /\ w'.stops = w.stops
        /\ w'.kind = w.kind
    BY DEF Base
  <1>2. /\ DOMAIN w'.gate = Gate /\ w'.gate.generation = w.gate.generation
        /\ w'.gate.threads = {"io"} /\ w'.gate.closed = w.gate.closed
    BY DEF IInv, Shape, Gate, enter
  <1>3. ~w.gate.closed /\ w.run = w.gate.generation
    BY DEF Admits, admitted
  <1>4. Shape'
    BY <1>1, <1>2 DEF IInv, Shape
  <1>5. Handlers'
    BY <1>2 DEF Handlers
  <1>6. stop_callers(w)' = stop_callers(w)
    BY <1>1 DEF stop_callers
  <1>7. Closes'
    BY <1>1, <1>2, <1>3, <1>6 DEF IInv, Closes
  <1> QED
    BY <1>2, <1>3, <1>4, <1>5, <1>7 DEF IInv
-----------------------------------------------------------------------------
(* Handlers.                                                               *)

\* The fields that no part of the invariant is about.
Loose == Fields \ (Base \cup {"todo", "run", "sends"})

\* The first step of a handler that has no lease, and what follows it.
LEMMA Unentereds ==
  ASSUME NEW q \in Unentered, q # <<>>
  PROVE  /\ Head(q) \in {"alive", "enter", "flush", "end"}
         /\ Head(q) = "alive" => Tail(q) \in Unentered
         /\ Head(q) = "flush" => Tail(Tail(q)) = <<"end">>
  <1>1. CASE q = <<"end">>
    BY <1>1
  <1>2. CASE q \in {OnBytes, OnState, OnPressure, OnTimer}
    <2>1. Head(q) = "alive"
      BY <1>2 DEF OnBytes, OnState, OnPressure, OnTimer
    <2>2. Tail(q) \in Unentered
      BY <1>2, Zenon DEF Unentered
    <2> QED
      BY <2>1, <2>2
  <1>3. CASE q \in {Tail(OnBytes), Tail(OnState), Tail(OnPressure)}
    BY <1>3 DEF OnBytes, OnState, OnPressure
  <1>4. CASE q = Tail(OnTimer)
    BY <1>4 DEF OnTimer
  <1> QED
    BY <1>1, <1>2, <1>3, <1>4, Zenon DEF Unentered

\* Whatever shows that start() has been called.
LEMMA InRun ==
  ASSUME IInv, \/ w.todo # <<>> \/ w.running \/ w.up \/ w.hooked
               \/ w.expired # {} \/ w.timer # 0 \/ w.gate.generation > 0 \/ w.gate.closed
  PROVE  w.started \/ w.stop_requested
  <1>1. ~w.started /\ ~w.stop_requested => Untouched
    BY DEF IInv, Closes
  <1>2. w.gate.generation > 0 => w.gate.generation # 0
    BY DEF IInv, Shape
  <1>3. ~Untouched
    BY <1>2, Zenon DEF Untouched
  <1> QED
    BY <1>1, <1>3

\* A step past the admission is taken with a lease.
LEMMA InHandler ==
  ASSUME IInv, NEW step, At(step)
  PROVE  /\ Well(w.todo) /\ w.todo # <<>> /\ Head(w.todo) = step
         /\ w.started \/ w.stop_requested
         /\ step \notin {"alive", "enter", "flush", "end"} => "io" \in w.gate.threads
  <1>1. Well(w.todo) /\ w.todo # <<>> /\ Head(w.todo) = step
    BY DEF At, IInv, Handlers
  <1> QED
    BY <1>1, InRun, Unentereds DEF IInv, Handlers

\* Changing loose fields keeps the others.
LEMMA LooseFields ==
  ASSUME NEW s, Agree(w, s, Loose)
  PROVE  /\ DOMAIN s = Fields /\ s.todo = w.todo /\ s.run = w.run /\ s.sends = w.sends
         /\ \A f \in Base : s[f] = w[f]
  BY DEF Agree, Loose, Fields, Base

\* A prefix of two steps is put in front of a handler one by one.
LEMMA TwoSteps == <<"flush">> \o <<"messages">> = <<"flush", "messages">>
  <1> DEFINE a == <<"flush">> \o <<"messages">>
             b == <<"flush", "messages">>
  <1>1. /\ <<"flush">> \in Seq(Steps) /\ Len(<<"flush">>) = 1 /\ <<"flush">>[1] = "flush"
        /\ <<"messages">> \in Seq(Steps) /\ Len(<<"messages">>) = 1
        /\ <<"messages">>[1] = "messages"
    BY DEF Steps
  <1>2. /\ a \in Seq(Steps) /\ Len(a) = 1 + 1
        /\ \A i \in 1 .. 1 + 1 : a[i] = IF i <= 1 THEN <<"flush">>[i] ELSE <<"messages">>[i - 1]
    BY <1>1, ConcatProperties
  <1>3. b \in Seq(Steps) /\ Len(b) = 2 /\ b[1] = "flush" /\ b[2] = "messages"
    BY DEF Steps
  <1> HIDE DEF a, b
  <1>4. Len(a) = 2 /\ a[1] = "flush" /\ a[2] = "messages"
    BY <1>1, <1>2
  <1>5. \A i \in 1 .. Len(a) : a[i] = b[i]
    <2>1. \A i \in 1 .. Len(a) : i = 1 \/ i = 2
      BY <1>4
    <2> QED
      BY <2>1, <1>3, <1>4
  <1>6. a = b
    BY <1>2, <1>3, <1>4, <1>5, SeqEqual
  <1> QED
    BY <1>6 DEF a, b

\* A handler that takes its next step, with further steps put in front.
LEMMA Pops ==
  ASSUME IInv, NEW step, At(step), step # "end",
         NEW prefix \in {<<>>, <<"user">>, <<"flush", "messages">>},
         "io" \in w.gate.threads \/ (prefix = <<>> /\ step = "alive"),
         NEW s, Agree(w, s, Loose), w' = Then(s, prefix)
  PROVE  IInv'
  <1>1. /\ DOMAIN s = Fields /\ s.todo = w.todo /\ s.run = w.run /\ s.sends = w.sends
        /\ \A f \in Base : s[f] = w[f]
    BY LooseFields
  <1>2. Agree(s, w', {"todo"}) /\ w'.todo = prefix \o Tail(w.todo)
    BY <1>1, ThenFields
  <1>3. Well(Tail(w.todo)) /\ Tail(w.todo) # <<>>
    BY InHandler, WellTail
  <1>4. DOMAIN w' = Fields /\ w'.run = w.run /\ w'.sends = w.sends /\ \A f \in Base : w'[f] = w[f]
    BY <1>1, <1>2 DEF Agree, Base, Fields
  <1>5. Well(w'.todo) /\ w'.todo # <<>> /\ (prefix = <<>> => w'.todo = Tail(w.todo))
    <2>1. CASE prefix = <<>>
      BY <2>1, <1>2, <1>3, ConcatEmptySeq DEF Well
    <2>2. CASE prefix = <<"user">>
      BY <2>2, <1>2, <1>3, WellCons DEF Steps
    <2>3. CASE prefix = <<"flush", "messages">>
      <3> DEFINE p == <<"messages">> \o Tail(w.todo)
      <3>1. Well(p) /\ p # <<>> /\ p[1] = "messages"
        BY <1>3, WellCons DEF Steps
      <3>2. Well(<<"flush">> \o p) /\ <<"flush">> \o p # <<>>
        <4> HIDE DEF p
        <4> QED
          BY <3>1, WellCons DEF Steps
      <3>3. <<"flush">> \o p = (<<"flush">> \o <<"messages">>) \o Tail(w.todo)
        BY <1>3, ConcatAssociative DEF Well, Steps
      <3> QED
        BY <2>3, <1>2, <3>2, <3>3, TwoSteps
    <2> QED
      BY <2>1, <2>2, <2>3
  <1>6. "io" \in w.gate.threads \/ w'.todo \in Unentered
    BY <1>5, InHandler, Unentereds DEF IInv, Handlers
  <1> QED
    BY <1>4, <1>5, <1>6, InHandler, Moves DEF IInv, Shape

\* A handler that returns early.
LEMMA Returns ==
  ASSUME IInv, w.todo # <<>>, NEW s, Agree(w, s, Loose), w' = Return(s)
  PROVE  IInv'
  <1>1. /\ DOMAIN s = Fields /\ s.todo = w.todo /\ s.run = w.run /\ s.sends = w.sends
        /\ \A f \in Base : s[f] = w[f]
    BY LooseFields
  <1>2. Agree(s, w', {"todo"}) /\ w'.todo = <<"end">>
    BY <1>1, ReturnFields
  <1>3. DOMAIN w' = Fields /\ w'.run = w.run /\ w'.sends = w.sends /\ \A f \in Base : w'[f] = w[f]
    BY <1>1, <1>2 DEF Agree, Base, Fields
  <1>4. Well(w'.todo) /\ w'.todo # <<>> /\ w'.todo \in Unentered
    BY <1>2, WellHandlers DEF Unentered
  <1> QED
    BY <1>3, <1>4, InRun, Moves DEF IInv, Shape

\* The loose fields that handlers assign.
LEMMA LooseNames ==
  /\ "connected" \in Loose /\ "lost" \in Loose /\ "error" \in Loose
  /\ "terminal_error" \in Loose /\ "promises" \in Loose
  /\ "data" \in Loose /\ "messages" \in Loose /\ "timer" \in Loose
  BY DEF Loose, Fields, Base

\* A state agrees with itself.
LEMMA AgreeSelf ==
  ASSUME IInv
  PROVE  Agree(w, w, Loose)
  BY DEF IInv, Shape, Agree

\* Batching an item takes the handler's step and changes loose fields.
LEMMA BatchFields ==
  ASSUME IInv, NEW queue \in {"data", "messages"}, w' = Batch(w, queue, ScheduleTimer)
  PROVE  \E s, prefix :
            prefix \in {<<>>, <<"user">>} /\ Agree(w, s, Loose) /\ w' = Then(s, prefix)
  <1> DEFINE items == Append(w[queue], w.conn)
             timer == IF Len(items) = 1 THEN ScheduleTimer ELSE w.timer
             s1 == [w EXCEPT ![queue] = <<>>]
             s2 == [w EXCEPT ![queue] = items, !.timer = timer]
  <1>1. w' = Then(s1, <<"user">>) \/ w' = Then(s2, <<>>)
    BY DEF Batch, Invoke, IInv, Shape, Fields
  <1> HIDE DEF items, timer
  <1>2. Agree(w, s1, Loose)
    BY LooseNames DEF IInv, Shape, Agree
  <1>3. Agree(w, s2, Loose)
    BY LooseNames DEF IInv, Shape, Agree
  <1> HIDE DEF s1, s2
  <1>4. <<>> \in {<<>>, <<"user">>} /\ <<"user">> \in {<<>>, <<"user">>}
    OBVIOUS
  <1> QED
    BY <1>1, <1>2, <1>3, <1>4, Zenon

\* on_bytes and deliver(), when they batch.
LEMMA BatchInv ==
  ASSUME IInv, NEW step \in {"data", "deliver"}, At(step), NEW queue \in {"data", "messages"},
         w' = Batch(w, queue, ScheduleTimer)
  PROVE  IInv'
  <1>1. PICK s, prefix :
            prefix \in {<<>>, <<"user">>} /\ Agree(w, s, Loose) /\ w' = Then(s, prefix)
    BY BatchFields
  <1> QED
    BY <1>1, InHandler, Pops

\* A step that changes nothing else, or that calls the user.
LEMMA PopsSelf ==
  ASSUME IInv, NEW step, At(step), step # "end", "io" \in w.gate.threads,
         w' = Then(w, <<>>) \/ w' = Invoke(w)
  PROVE  IInv'
  BY AgreeSelf, Pops DEF Invoke

\* What the handlers do with received bytes, in any of the four wrappers.
TakesData ==
    \/ TakesBytes(ScheduleTimer) \/ DropsBytes \/ (At("data") /\ w' = Return(w))
    \/ DeliversMessage(ScheduleTimer) \/ DeliversNone

\* Received bytes keep the invariant.
LEMMA DataInv == ASSUME IInv, TakesData PROVE IInv'
  <1>1. CASE TakesBytes(ScheduleTimer)
    <2>1. At("data") /\ (w' = Batch(w, "data", ScheduleTimer) \/ w' = Invoke(w))
      BY <1>1 DEF TakesBytes
    <2> QED
      BY <2>1, BatchInv, PopsSelf, InHandler
  <1>2. CASE DropsBytes
    <2> DEFINE d == ClearBatches(w)
    <2>1. At("data") /\ \E link \in {"Connecting", "Down"} : w' = Drops(d, link) \/ w' = Return(d)
      BY <1>2 DEF DropsBytes, Overflows
    <2>2. PICK link : w' = Drops(d, link) \/ w' = Return(d)
      BY <2>1
    <2>3. Agree(w, d, Loose)
      BY LooseNames DEF ClearBatches, IInv, Shape, Agree
    <2> HIDE DEF d
    <2>4. /\ DOMAIN d = Fields /\ d.todo = w.todo /\ d.run = w.run /\ d.sends = w.sends
          /\ \A f \in Base : d[f] = w[f]
      BY <2>3, LooseFields
    <2>5. CASE w' = Drops(d, link)
      <3>1. /\ Agree(d, w', {"todo", "event", "run", "up", "conn", "pressure", "cancelled", "link",
                              "sends"})
            /\ DOMAIN d.sends = Senders => DOMAIN w'.sends = Senders
            /\ \/ w'.todo = d.todo /\ w'.run = d.run
               \/ w'.todo = OnState /\ w'.run = d.gate.generation
        BY <2>4, <2>5, DropsFields
      <3>2. DOMAIN w' = Fields /\ DOMAIN w'.sends = Senders /\ \A f \in Base : w'[f] = w[f]
        BY <2>4, <3>1 DEF IInv, Shape, Agree, Base, Fields
      <3>3. d.gate = w.gate
        BY <2>4 DEF Base
      <3>4. Well(w'.todo) /\ w'.todo # <<>> /\ "io" \in w.gate.threads
        BY <2>1, <2>4, <3>1, InHandler, WellHandlers DEF OnState
      <3>5. w'.run = w.gate.generation
        BY <2>4, <3>1, <3>3, <3>4 DEF IInv
      <3> QED
        BY <3>2, <3>4, <3>5, <2>1, InHandler, Moves DEF IInv, Shape
    <2>6. CASE w' = Return(d)
      BY <2>6, <2>1, <2>3, InHandler, Returns
    <2> QED
      BY <2>2, <2>5, <2>6
  <1>3. CASE DeliversMessage(ScheduleTimer)
    <2>1. /\ At("deliver")
          /\ w' = Then(w, <<>>) \/ w' = Batch(w, "messages", ScheduleTimer) \/ w' = Invoke(w)
      BY <1>3 DEF DeliversMessage
    <2> QED
      BY <2>1, BatchInv, PopsSelf, InHandler
  <1>4. CASE DeliversNone
    BY <1>4, PopsSelf, InHandler DEF DeliversNone
  <1>5. CASE At("data") /\ w' = Return(w)
    BY <1>5, AgreeSelf, InHandler, Returns
  <1> QED
    BY <1>1, <1>2, <1>3, <1>4, <1>5 DEF TakesData

\* A handler that enters the gate and goes on.
LEMMA EntersHandler ==
  ASSUME IInv, NEW step, At(step), step # "end", Admits(w),
         NEW prefix \in {<<>>, <<"user">>},
         NEW s, Agree(Enter(w), s, Loose), w' = Then(s, prefix)
  PROVE  IInv'
  <1>1. Agree(w, Enter(w), {"gate"}) /\ Enter(w).gate = enter(w.gate, "io")
    BY EnterFields DEF IInv, Shape
  <1>2. /\ DOMAIN s = Fields /\ s.todo = w.todo /\ s.run = w.run /\ s.sends = w.sends
        /\ s.gate = enter(w.gate, "io") /\ \A f \in Base \ {"gate"} : s[f] = w[f]
    BY <1>1 DEF Agree, Loose, Fields, Base
  <1>3. Agree(s, w', {"todo"}) /\ w'.todo = prefix \o Tail(w.todo)
    BY <1>2, ThenFields
  <1>4. /\ DOMAIN w' = Fields /\ w'.run = w.run /\ w'.sends = w.sends
        /\ w'.gate = enter(w.gate, "io") /\ \A f \in Base \ {"gate"} : w'[f] = w[f]
    BY <1>2, <1>3 DEF Agree, Base, Fields
  <1>5. Well(Tail(w.todo)) /\ Tail(w.todo) # <<>>
    BY InHandler, WellTail
  <1>6. Well(w'.todo) /\ w'.todo # <<>>
    <2>1. CASE prefix = <<>>
      BY <2>1, <1>3, <1>5, ConcatEmptySeq DEF Well
    <2>2. CASE prefix = <<"user">>
      BY <2>2, <1>3, <1>5, WellCons DEF Steps
    <2> QED
      BY <2>1, <2>2
  <1> QED
    BY <1>4, <1>6, InHandler, Enters DEF IInv, Shape

\* flush_batches() keeps the invariant.
LEMMA FlushInv == ASSUME IInv, FlushesData \/ FlushesMessages PROVE IInv'
  <1>1. CASE FlushesData
    <2> DEFINE s == [Enter(w) EXCEPT !.data = <<>>]
    <2>1. /\ At("flush")
          /\ \/ w' = [w EXCEPT !.todo = Tail(Tail(@))]
             \/ Admits(w) /\ w' = Then(Enter(w), <<>>)
             \/ Admits(w) /\ w' = Then(s, <<"user">>)
      BY <1>1 DEF FlushesData, Invoke
    <2>2. Agree(w, Enter(w), {"gate"})
      BY EnterFields DEF IInv, Shape
    <2>3. Agree(Enter(w), Enter(w), Loose) /\ Agree(Enter(w), s, Loose)
      <3> HIDE DEF Enter
      <3> QED
        BY <2>2 DEF Agree, Loose, Fields, Base
    <2> HIDE DEF s
    <2>4. CASE w' = [w EXCEPT !.todo = Tail(Tail(@))]
      <3>1. /\ DOMAIN w' = Fields /\ w'.run = w.run /\ w'.sends = w.sends
            /\ w'.todo = Tail(Tail(w.todo)) /\ \A f \in Base : w'[f] = w[f]
        BY <2>4 DEF IInv, Shape, Fields, Base
      <3>2. Well(w'.todo) /\ w'.todo # <<>>
        BY <3>1, <2>1, InHandler, WellSkip
      <3>3. "io" \notin w.gate.threads => w'.todo \in Unentered
        <4>1. SUFFICES ASSUME "io" \notin w.gate.threads PROVE w'.todo \in Unentered
          OBVIOUS
        <4>2. w.todo \in Unentered
          BY <4>1 DEF IInv, Handlers
        <4>3. w'.todo = <<"end">>
          BY <4>2, <2>1, <3>1, InHandler, Unentereds
        <4> QED
          BY <4>3 DEF Unentered
      <3> QED
        BY <3>1, <3>2, <3>3, <2>1, InHandler, Moves DEF IInv, Shape
    <2> QED
      BY <2>1, <2>3, <2>4, EntersHandler
  <1>2. CASE FlushesMessages
    <2> DEFINE s1 == [w EXCEPT !.timer = 0]
               s2 == [w EXCEPT !.messages = <<>>, !.timer = 0]
    <2>1. /\ At("messages")
          /\ w' = Then(w, <<>>) \/ w' = Then(s1, <<>>) \/ w' = Then(s2, <<"user">>)
      BY <1>2 DEF FlushesMessages, Invoke
    <2>2. Agree(w, s1, Loose)
      BY LooseNames DEF IInv, Shape, Agree
    <2>3. Agree(w, s2, Loose)
      BY LooseNames DEF IInv, Shape, Agree
    <2> HIDE DEF s1, s2
    <2> QED
      BY <2>1, <2>2, <2>3, AgreeSelf, InHandler, Pops
  <1> QED
    BY <1>1, <1>2

\* The state handler keeps the invariant.
LEMMA StateInv ==
  ASSUME IInv, NEW clears \in BOOLEAN, Observes(clears) \/ Notifies \/ ReportsError
  PROVE  IInv'
  <1>1. CASE Observes(clears)
    <2> DEFINE up == w.event = "Up"
               lost == w.connected /\ ~up
               error == w.event = "Down" /\ ~w.terminal_error
               terminal == w.event = "Down" \/ (w.terminal_error /\ ~up)
               promises == IF w.event = "Connecting" THEN w.promises ELSE 0
               s == [w EXCEPT !.connected = up, !.lost = lost, !.error = error,
                              !.terminal_error = terminal, !.promises = promises]
               d == ClearBatches(s)
               prefix == IF lost THEN <<"flush", "messages">> ELSE <<>>
    <2>1. At("observe") /\ w' = Then(IF up /\ clears THEN d ELSE s, prefix)
      BY <1>1 DEF Observes
    <2>2. Agree(w, s, Loose)
      <3> HIDE DEF up, lost, error, terminal, promises
      <3> QED
        BY LooseNames DEF IInv, Shape, Agree
    <2>3. Agree(w, d, Loose)
      <3> HIDE DEF s
      <3> QED
        BY <2>2, LooseNames DEF ClearBatches, Agree
    <2>4. prefix \in {<<>>, <<"user">>, <<"flush", "messages">>}
      OBVIOUS
    <2>5. w' = Then(d, prefix) \/ w' = Then(s, prefix)
      BY <2>1
    <2> HIDE DEF s, d, prefix
    <2> QED
      BY <2>1, <2>2, <2>3, <2>4, <2>5, InHandler, Pops
  <1>2. CASE Notifies
    BY <1>2, PopsSelf, AgreeSelf, InHandler, Returns DEF Notifies
  <1>3. CASE ReportsError
    BY <1>3, PopsSelf, InHandler DEF ReportsError
  <1> QED
    BY <1>1, <1>2, <1>3

\* Admission and the other common steps keep the invariant.
LEMMA AroundInv == ASSUME IInv, Around PROVE IInv'
  <1>1. CASE Alive
    <2>1. At("alive") /\ (w' = Then(w, <<>>) \/ w' = Return(w))
      BY <1>1 DEF Alive
    <2> QED
      BY <2>1, AgreeSelf, InHandler, Pops, Returns
  <1>2. CASE Admission
    <2>1. At("enter") /\ ((Admits(w) /\ w' = Then(Enter(w), <<>>)) \/ w' = Return(w))
      BY <1>2 DEF Admission
    <2>2. Agree(Enter(w), Enter(w), Loose)
      BY EnterFields DEF IInv, Shape, Agree
    <2> QED
      BY <2>1, <2>2, AgreeSelf, InHandler, EntersHandler, Returns
  <1>3. CASE UserReturns
    BY <1>3, PopsSelf, InHandler DEF UserReturns
  <1>4. CASE HandlerEnds
    <2>1. /\ At("end") /\ DOMAIN w' = Fields /\ w'.todo = <<>> /\ w'.gate = release(w.gate, "io")
          /\ \A f \in Base \ {"gate"} : w'[f] = w[f]
          /\ w'.sends = w.sends
      BY <1>4 DEF HandlerEnds, IInv, Shape, Fields, Base
    <2>2. /\ w'.started = w.started /\ w'.stop_requested = w.stop_requested
          /\ w'.alive = w.alive /\ w'.limits = w.limits /\ w'.stopped = w.stopped
          /\ w'.stops = w.stops
        /\ w'.kind = w.kind
      BY <2>1 DEF Base
    <2>3. /\ DOMAIN w'.gate = Gate /\ w'.gate.generation = w.gate.generation
          /\ w'.gate.threads = {} /\ w'.gate.closed = w.gate.closed
      BY <2>1 DEF IInv, Shape, Gate, release
    <2>4. Shape'
      BY <2>1, <2>2, <2>3 DEF IInv, Shape
    <2>5. Handlers'
      BY <2>1, <2>3, WellHandlers DEF Handlers, Unentered
    <2>6. stop_callers(w)' = stop_callers(w)
      BY <2>2 DEF stop_callers
    <2>7. Closes'
      BY <2>1, <2>2, <2>3, <2>6, InHandler DEF IInv, Closes
    <2> QED
      BY <2>3, <2>4, <2>5, <2>7 DEF IInv
  <1>5. CASE TimerExpires
    <2>1. /\ DOMAIN w' = Fields /\ w'.sends = w.sends /\ w'.todo = w.todo /\ w'.run = w.run
          /\ \A f \in Base : w'[f] = w[f]
      BY <1>5 DEF TimerExpires, IInv, Shape, Fields, Base
    <2>2. ~Untouched
      BY <1>5, Zenon DEF TimerExpires, Untouched
    <2> QED
      BY <2>1, <2>2, Quiet DEF IInv, Shape
  <1>6. CASE Cleanup
    <2>0. /\ Agree(w, w', {"up", "conn", "pressure", "cancelled", "stopping", "running", "link",
                            "sends"})
          /\ DOMAIN w'.sends = Senders
          /\ ~w'.running /\ (~w.up => ~w'.up)
      BY <1>6, HaltFields DEF Cleanup, IInv, Shape
    <2>1. /\ DOMAIN w' = Fields /\ w'.todo = w.todo /\ w'.run = w.run
          /\ \A f \in Base : w'[f] = w[f]
          /\ w'.hooked = w.hooked /\ w'.expired = w.expired /\ w'.timer = w.timer
      BY <2>0 DEF Agree, Fields, Base
    <2>2. w'.gate = w.gate
      BY <2>1 DEF Base
    <2>3. Untouched => Untouched'
      BY <2>0, <2>1, <2>2, Zenon DEF Untouched
    <2> QED
      BY <2>0, <2>1, <2>3, Quiet DEF IInv, Shape
  <1> QED
    BY <1>1, <1>2, <1>3, <1>4, <1>5, <1>6 DEF Around

-----------------------------------------------------------------------------
(* What the transport does.                                                *)

\* A transport that calls a handler, or none.
LEMMA TransportCalls ==
  ASSUME IInv, w.todo = <<>>, w.started \/ w.stop_requested,
         DOMAIN w' = Fields, \A f \in Base : w'[f] = w[f], DOMAIN w'.sends = Senders,
         w'.todo \in {<<>>, OnBytes, OnState, OnPressure, OnTimer}
  PROVE  IInv'
  <1>1. "io" \notin w.gate.threads
    BY DEF IInv, Handlers
  <1>2. Well(w'.todo)
    BY WellHandlers
  <1>3. w'.todo \in Unentered
    BY Zenon DEF Unentered
  <1> QED
    BY <1>1, <1>2, <1>3, Moves DEF IInv, Shape

\* What the transport and the timer start keeps the invariant.
LEMMA TransportInv ==
  ASSUME IInv,
         \/ Connects \/ Receives \/ Fails("Connecting") \/ Fails("Down")
         \/ PressureChanges(OnPressure) \/ RunTimer(OnTimer)
  PROVE  IInv'
  <1>1. CASE Connects
    <2> DEFINE s == [w EXCEPT !.up = TRUE, !.link = "Up"]
    <2>1. w.todo = <<>> /\ w.running /\ w' = Call(s, "Up", OnState)
      BY <1>1 DEF Connects, Idle
    <2>2. DOMAIN s = Fields /\ s.todo = w.todo /\ s.sends = w.sends /\ \A f \in Base : s[f] = w[f]
      BY DEF IInv, Shape, Fields, Base
    <2> HIDE DEF s
    <2>3. /\ DOMAIN w' = Fields /\ w'.sends = w.sends /\ \A f \in Base : w'[f] = w[f]
          /\ w'.todo = <<>> \/ w'.todo = OnState
      BY <2>1, <2>2, CallFields DEF Agree, Fields, Base
    <2> QED
      BY <2>1, <2>3, InRun, TransportCalls, Zenon DEF IInv, Shape
  <1>2. CASE Receives
    <2>1. w.todo = <<>> /\ w.running /\ w' = Call(w, "bytes", OnBytes)
      BY <1>2 DEF Receives, Idle
    <2>2. /\ DOMAIN w' = Fields /\ w'.sends = w.sends /\ \A f \in Base : w'[f] = w[f]
          /\ w'.todo = <<>> \/ w'.todo = OnBytes
      BY <2>1, CallFields DEF IInv, Shape, Agree, Fields, Base
    <2> QED
      BY <2>1, <2>2, InRun, TransportCalls DEF IInv, Shape
  <1>3. ASSUME NEW link, Fails(link) PROVE IInv'
    <2>1. w.todo = <<>> /\ w.running /\ w' = Drops(w, link)
      BY <1>3 DEF Fails, Idle
    <2>2. /\ DOMAIN w' = Fields /\ DOMAIN w'.sends = Senders /\ \A f \in Base : w'[f] = w[f]
          /\ w'.todo = <<>> \/ w'.todo = OnState
      BY <2>1, DropsFields DEF IInv, Shape, Agree, Fields, Base
    <2> QED
      BY <2>1, <2>2, InRun, TransportCalls DEF IInv, Shape
  <1>4. CASE PressureChanges(OnPressure)
    <2> DEFINE s == [w EXCEPT !.pressure = ~@]
    <2>1. w.todo = <<>> /\ w.running /\ w' = Call(s, "pressure", OnPressure)
      BY <1>4 DEF PressureChanges, Idle
    <2>2. DOMAIN s = Fields /\ s.todo = w.todo /\ s.sends = w.sends /\ \A f \in Base : s[f] = w[f]
      BY DEF IInv, Shape, Fields, Base
    <2> HIDE DEF s
    <2>3. /\ DOMAIN w' = Fields /\ w'.sends = w.sends /\ \A f \in Base : w'[f] = w[f]
          /\ w'.todo = <<>> \/ w'.todo = OnPressure
      BY <2>1, <2>2, CallFields DEF Agree, Fields, Base
    <2> QED
      BY <2>1, <2>3, InRun, TransportCalls, Zenon DEF IInv, Shape
  <1>5. CASE RunTimer(OnTimer)
    <2>1. /\ w.todo = <<>> /\ w.expired # {} /\ DOMAIN w' = Fields /\ w'.sends = w.sends
          /\ w'.todo = OnTimer /\ \A f \in Base : w'[f] = w[f]
      <3>1. PICK e \in w.expired : /\ w.todo = <<>>
                                   /\ w' = [w EXCEPT !.expired = @ \ {e}, !.todo = OnTimer,
                                                     !.run = e.run, !.event = e.session]
        BY <1>5, Zenon DEF RunTimer
      <3>2. Base \subseteq Fields \ {"expired", "todo", "run", "event", "sends"}
        BY DEF Base, Fields
      <3>3. {"sends", "todo"} \subseteq Fields
        BY DEF Fields
      <3> QED
        BY <3>1, <3>2, <3>3 DEF IInv, Shape
    <2> QED
      BY <2>1, InRun, TransportCalls, Zenon DEF IInv, Shape
  <1> QED
    BY <1>1, <1>2, <1>3, <1>4, <1>5

-----------------------------------------------------------------------------
(* stop() and start().                                                     *)

\* A stop() that begins, on any thread, closes the gate.
LEMMA BeginsInv ==
  ASSUME IInv, NEW t \in Threads, w.started \/ w.stop_requested,
         NEW s, Agree(w, s, {"todo"}), w' = StopBegins(s, t),
         Well(s.todo), IF "io" \in w.gate.threads THEN s.todo # <<>> ELSE s.todo = w.todo
  PROVE  IInv'
  <1> DEFINE m == Missed(s)
  <1>0. Agree(s, m, {"sends"}) /\ DOMAIN m.sends = Senders
    BY MissedFields DEF Agree
  <1>a. w' = [m EXCEPT !.stops[t] = "request", !.gate = close(@)]
    BY DEF StopBegins
  <1> HIDE DEF m
  <1>b. /\ DOMAIN w' = Fields /\ w'.gate = close(m.gate) /\ DOMAIN w'.stops = DOMAIN m.stops
        /\ \A f \in Fields \ {"gate", "stops"} : w'[f] = m[f]
    BY <1>0, <1>a DEF Agree, Fields
  <1>1. /\ DOMAIN w' = Fields /\ w'.gate = close(s.gate) /\ w'.todo = s.todo
        /\ DOMAIN w'.stops = DOMAIN s.stops /\ DOMAIN w'.sends = Senders
        /\ \A f \in Fields \ {"gate", "todo", "stops", "sends"} : w'[f] = s[f]
    BY <1>0, <1>b DEF Agree, Fields
  <1>2. /\ w'.started = w.started /\ w'.stop_requested = w.stop_requested /\ w'.run = w.run
        /\ w'.alive = w.alive /\ w'.limits = w.limits /\ w'.stopped = w.stopped
        /\ w'.gate = close(w.gate) /\ DOMAIN w'.stops = Threads /\ w'.kind = w.kind
    BY <1>1 DEF Agree, Fields, IInv, Shape
  <1>3. /\ DOMAIN w'.gate = Gate /\ w'.gate.generation = w.gate.generation
        /\ w'.gate.threads = w.gate.threads
    BY <1>2 DEF IInv, Shape, Gate, close
  <1>4. w'.gate.closed
    BY <1>2 DEF IInv, Shape, Gate, close
  <1>5. Shape'
    BY <1>1, <1>2, <1>3 DEF IInv, Shape
  <1>6. Handlers'
    BY <1>1, <1>3 DEF IInv, Handlers
  <1>7. Closes'
    BY <1>2, <1>3, <1>4 DEF IInv, Closes
  <1> QED
    BY <1>2, <1>3, <1>5, <1>6, <1>7 DEF IInv

\* A step of a stop() that has closed the gate.
LEMMA Stopping ==
  ASSUME IInv, w.gate.closed, DOMAIN w' = Fields,
         w'.gate = w.gate, w'.todo = w.todo, w'.run = w.run, w'.kind = w.kind,
         DOMAIN w'.sends = Senders, DOMAIN w'.stops = Threads,
         w'.started \/ w'.stop_requested, w'.stopped => "io" \notin w.gate.threads,
         ~w'.alive => w'.stopped, w'.limits # "in use" => w'.stopped
  PROVE  IInv'
  <1>1. Shape'
    BY DEF IInv, Shape
  <1>2. Handlers'
    BY DEF IInv, Handlers
  <1>3. Closes'
    BY DEF Closes
  <1> QED
    BY <1>1, <1>2, <1>3 DEF IInv

\* The further steps of stop() keep the invariant.
LEMMA StopProceedsInv == ASSUME IInv, NEW t \in Threads, StopProceeds(t) PROVE IInv'
  <1>1. /\ w.gate.closed /\ (w.started \/ w.stop_requested) /\ DOMAIN w = Fields
        /\ DOMAIN w.stops = Threads /\ DOMAIN w.sends = Senders
    <2>1. w.stops[t] # "none"
      BY DEF StopProceeds, StopRequests, StopsChannel, StopCompletes
    <2>2. stop_callers(w) # {}
      BY <2>1 DEF stop_callers
    <2> QED
      BY <2>2, InRun DEF IInv, Closes, Shape
  <1>2. w.limits # "in use" => w.stopped
    BY <1>1 DEF IInv, Closes
  <1>3. (w.stopped => "io" \notin w.gate.threads) /\ (~w.alive => w.stopped)
    BY DEF IInv, Closes
  <1>4. CASE StopRequests(t)
    <2>1. /\ DOMAIN w' = Fields /\ w'.gate = w.gate /\ w'.todo = w.todo /\ w'.run = w.run
          /\ w'.sends = w.sends /\ DOMAIN w'.stops = Threads /\ w'.kind = w.kind
          /\ w'.stopped = w.stopped /\ w'.alive = w.alive /\ w'.limits = w.limits
      BY <1>1, <1>4 DEF StopRequests, Fields
    <2>2. w'.stop_requested
      BY <1>1, <1>4 DEF StopRequests, Fields
    <2> QED
      BY <1>1, <1>2, <1>3, <2>1, <2>2, Stopping
  <1>5. CASE StopsChannel(t)
    <2> DEFINE s == IF ~w.channel \/ w.stopping # "no" THEN w
                    ELSE IF w.injected THEN Halt(w)
                    ELSE [w EXCEPT !.stopping = IF w.running THEN "asked" ELSE "done"]
               next == IF shutdown_needs_this_thread(w, t) THEN "none" ELSE "wait"
    <2>1. w' = [s EXCEPT !.stops[t] = next]
      BY <1>5 DEF StopsChannel
    <2>2. /\ Agree(w, s, {"up", "conn", "pressure", "cancelled", "stopping", "running", "link",
                           "sends"})
          /\ DOMAIN s.sends = Senders
      <3>1. /\ Agree(w, w, {})
            /\ Agree(w, [w EXCEPT !.stopping = IF w.running THEN "asked" ELSE "done"], {"stopping"})
        BY <1>1 DEF Agree, Fields
      <3>2. /\ Agree(w, Halt(w), {"up", "conn", "pressure", "cancelled", "stopping", "running",
                                   "link", "sends"})
            /\ DOMAIN Halt(w).sends = Senders
        BY <1>1, HaltFields
      <3> QED
        BY <1>1, <3>1, <3>2 DEF Agree, Fields
    <2> HIDE DEF s, next
    <2>3. /\ DOMAIN s = Fields /\ s.gate = w.gate /\ s.todo = w.todo /\ s.run = w.run
          /\ s.kind = w.kind /\ s.stops = w.stops
          /\ s.started = w.started /\ s.stop_requested = w.stop_requested
          /\ s.stopped = w.stopped /\ s.alive = w.alive /\ s.limits = w.limits
      BY <2>2 DEF Agree, Fields
    <2>4. /\ DOMAIN w' = Fields /\ w'.gate = w.gate /\ w'.todo = w.todo /\ w'.run = w.run
          /\ w'.sends = s.sends /\ DOMAIN w'.stops = Threads /\ w'.kind = w.kind
          /\ w'.started = w.started /\ w'.stop_requested = w.stop_requested
          /\ w'.stopped = w.stopped /\ w'.alive = w.alive /\ w'.limits = w.limits
      BY <1>1, <2>1, <2>3 DEF Fields
    <2> QED
      BY <1>1, <1>2, <1>3, <2>2, <2>4, Stopping
  <1>6. CASE StopCompletes(t)
    <2> DEFINE d == ClearBatches(w)
    <2>1. /\ w.gate.threads = {}
          /\ w' = [d EXCEPT !.alive = FALSE, !.timer = 0, !.session = 0, !.hooked = FALSE,
                            !.channel = w.injected, !.stopped = TRUE, !.stops[t] = "none"]
      BY <1>6 DEF StopCompletes, idle
    <2>2. Agree(w, d, {"data", "messages"})
      BY <1>1 DEF ClearBatches, Agree, Fields
    <2> HIDE DEF d
    <2>3. /\ DOMAIN d = Fields /\ d.gate = w.gate /\ d.todo = w.todo /\ d.run = w.run
          /\ d.kind = w.kind /\ d.sends = w.sends /\ d.stops = w.stops
          /\ d.started = w.started /\ d.stop_requested = w.stop_requested
      BY <2>2 DEF Agree, Fields
    <2>4. /\ DOMAIN w' = Fields /\ w'.gate = w.gate /\ w'.todo = w.todo /\ w'.run = w.run
          /\ w'.sends = w.sends /\ DOMAIN w'.stops = Threads /\ w'.kind = w.kind
          /\ w'.started = w.started /\ w'.stop_requested = w.stop_requested
      BY <1>1, <2>1, <2>3 DEF Fields
    <2>5. w'.stopped
      BY <2>1, <2>3 DEF Fields
    <2> QED
      BY <1>1, <2>1, <2>4, <2>5, Stopping
  <1> QED
    BY <1>4, <1>5, <1>6 DEF StopProceeds

\* stop() keeps the invariant.
LEMMA StopInv ==
  ASSUME IInv, StopCalled \/ UserStops \/ (\E t \in Threads : StopProceeds(t))
  PROVE  IInv'
  <1>1. CASE StopCalled
    <2>1. w' = StopBegins(w, "owner") /\ (w.started \/ w.stop_requested)
      BY <1>1, InRun DEF StopCalled
    <2>2. Agree(w, w, {"todo"}) /\ Well(w.todo) /\ ("io" \in w.gate.threads => w.todo # <<>>)
      BY DEF Agree, IInv, Shape, Handlers
    <2> QED
      BY <2>1, <2>2, BeginsInv DEF Threads
  <1>2. CASE UserStops
    <2>1. At("user") /\ w' = StopBegins(Then(w, <<>>), "io")
      BY <1>2 DEF UserStops
    <2>2. Agree(w, Then(w, <<>>), {"todo"}) /\ Then(w, <<>>).todo = <<>> \o Tail(w.todo)
      BY ThenFields DEF IInv, Shape
    <2>3. /\ "io" \in w.gate.threads /\ (w.started \/ w.stop_requested) /\ Well(Tail(w.todo))
          /\ Tail(w.todo) # <<>>
      BY <2>1, InHandler, WellTail
    <2>4. <<>> \o Tail(w.todo) = Tail(w.todo)
      BY <2>3, ConcatEmptySeq DEF Well
    <2> QED
      BY <2>1, <2>2, <2>3, <2>4, BeginsInv DEF Threads
  <1>3. CASE \E t \in Threads : StopProceeds(t)
    BY <1>3, StopProceedsInv
  <1> QED
    BY <1>1, <1>2, <1>3

\* start() keeps the invariant: it opens the gate only when no lease is left.
LEMMA StartInv == ASSUME IInv, Starts(w.channel /\ w.up) PROVE IInv'
  <1> DEFINE s == [w EXCEPT !.stop_requested = FALSE]
             r == [s EXCEPT !.started = w.kind = "udp_server" => @]
             p == [s EXCEPT !.promises = @ + 1]
  <1>1. /\ DOMAIN w = Fields /\ DOMAIN w.stops = Threads /\ DOMAIN w.sends = Senders
        /\ DOMAIN w.gate = Gate /\ w.gate.threads \subseteq {"io"} /\ w.gate.generation \in Nat
        /\ w.kind # "udp_server"
    BY DEF IInv, Shape
  <1>2. DOMAIN s = Fields /\ \A f \in Fields \ {"stop_requested"} : s[f] = w[f]
    BY <1>1 DEF Fields
  <1>3. MayStart /\ ((w' = r /\ w.up) \/ (w' = p /\ w.started) \/ (w' = OpenRun(s) /\ ~w.started))
    <2>1. MayStart /\ w' = IF w.channel /\ w.up THEN r ELSE IF w.started THEN p ELSE OpenRun(s)
      BY Zenon DEF Starts
    <2> HIDE DEF r, p, OpenRun, MayStart
    <2> QED
      BY <2>1, Zenon
  <1>4. CASE (w' = r /\ w.up) \/ (w' = p /\ w.started)
    <2>1. w.limits # "in use" => w.stopped
      <3>1. w.limits # "in use" => w.stopped \/ (~w.started /\ ~w.stop_requested)
        BY DEF IInv, Closes
      <3>2. w.started \/ w.stop_requested
        BY <1>4, InRun
      <3>3. w.started \/ w.stopped \/ ~w.stop_requested
        BY <1>3 DEF MayStart
      <3> QED
        BY <3>1, <3>2, <3>3
    <2>2. w'.started
      <3>1. w' = r => w'.started
        <4> HIDE DEF s
        <4> QED
          BY <1>1, <1>2 DEF Fields
      <3>2. w' = p => w'.started = w.started
        <4> HIDE DEF s
        <4> QED
          BY <1>1, <1>2 DEF Fields
      <3> QED
        BY <1>4, <3>1, <3>2, Zenon
    <2>3. /\ DOMAIN w' = Fields
          /\ \A f \in Fields \ {"stop_requested", "started", "promises"} : w'[f] = w[f]
      <3> HIDE DEF s
      <3> QED
        BY <1>2, <1>4 DEF Fields
    <2>4. /\ w'.gate = w.gate /\ w'.todo = w.todo /\ w'.run = w.run /\ w'.kind = w.kind
          /\ w'.sends = w.sends /\ w'.stops = w.stops
          /\ w'.alive = w.alive /\ w'.limits = w.limits /\ w'.stopped = w.stopped
      BY <2>3 DEF Fields
    <2>5. Shape'
      BY <1>1, <2>3, <2>4 DEF Shape
    <2>6. Handlers'
      BY <2>4 DEF IInv, Handlers
    <2>7. stop_callers(w)' = stop_callers(w)
      BY <2>4 DEF stop_callers
    <2>8. Closes'
      BY <2>1, <2>2, <2>4, <2>7 DEF IInv, Closes
    <2> QED
      BY <2>4, <2>5, <2>6, <2>8 DEF IInv
  <1>5. CASE w' = OpenRun(s) /\ ~w.started
    <2>1. "io" \notin w.gate.threads /\ stop_callers(w) = {}
      <3>1. (w.stopped \/ ~w.stop_requested) /\ stop_callers(w) = {}
        BY <1>3, <1>5 DEF MayStart
      <3> QED
        BY <1>5, <3>1 DEF IInv, Closes, Untouched
    <2>2. /\ DOMAIN w' = Fields /\ w'.gate = open_new_generation(s.gate)
          /\ w'.todo = s.todo /\ w'.kind = s.kind /\ w'.sends = s.sends /\ w'.stops = s.stops
          /\ w'.limits = "in use"
      <3> HIDE DEF s
      <3> QED
        BY <1>2, <1>5 DEF OpenRun, Fields
    <2>3. w'.alive /\ w'.started /\ ~w'.stopped
      <3> HIDE DEF s
      <3> QED
        BY <1>2, <1>5 DEF OpenRun, Fields
    <2>4. /\ w'.gate = open_new_generation(w.gate) /\ w'.todo = w.todo /\ w'.kind = w.kind
          /\ w'.sends = w.sends /\ w'.stops = w.stops
      BY <1>2, <2>2 DEF Fields
    <2>5. /\ DOMAIN w'.gate = Gate /\ w'.gate.generation = w.gate.generation + 1
          /\ w'.gate.threads = w.gate.threads
      BY <1>1, <2>4 DEF open_new_generation, Gate
    <2>6. Shape'
      <3>1. w'.gate.generation \in Nat
        BY <1>1, <2>5
      <3> QED
        BY <1>1, <2>2, <2>4, <2>5, <3>1 DEF Shape
    <2>7. Handlers'
      BY <2>1, <2>4, <2>5 DEF IInv, Handlers
    <2>8. stop_callers(w)' = {}
      BY <2>1, <2>4 DEF stop_callers
    <2>9. Closes'
      BY <2>2, <2>3, <2>8 DEF Closes
    <2> QED
      BY <2>1, <2>5, <2>6, <2>7, <2>9 DEF IInv
  <1> QED
    BY <1>3, <1>4, <1>5

\* The setters keep the invariant.
LEMMA ConfiguresInv == ASSUME IInv, Configures PROVE IInv'
  <1>1. /\ DOMAIN w' = Fields /\ w'.limits = "new" /\ \A f \in Fields \ {"limits"} : w'[f] = w[f]
    BY DEF Configures, IInv, Shape, Fields
  <1>2. /\ w'.gate = w.gate /\ w'.todo = w.todo /\ w'.run = w.run /\ w'.kind = w.kind
        /\ w'.started = w.started /\ w'.stop_requested = w.stop_requested
        /\ w'.sends = w.sends /\ w'.stops = w.stops /\ w'.alive = w.alive /\ w'.stopped = w.stopped
        /\ w'.hooked = w.hooked /\ w'.running = w.running /\ w'.up = w.up
        /\ w'.expired = w.expired /\ w'.timer = w.timer
    BY <1>1 DEF Fields
  <1>3. Shape'
    BY <1>1, <1>2 DEF IInv, Shape
  <1>4. Handlers'
    BY <1>2 DEF IInv, Handlers
  <1>5. stop_callers(w)' = stop_callers(w)
    BY <1>2 DEF stop_callers
  <1>6. Untouched' = Untouched
    BY <1>2, Zenon DEF Untouched
  <1>7. w.stopped \/ (~w.started /\ ~w.stop_requested)
    BY DEF Configures, require_stopped_config, IInv, Closes
  <1>8. Closes'
    BY <1>2, <1>5, <1>6, <1>7 DEF IInv, Closes
  <1> QED
    BY <1>2, <1>3, <1>4, <1>8 DEF IInv

-----------------------------------------------------------------------------
(* Sends.                                                                  *)

\* The steps of the sends of the four wrappers.
Sends(t) ==
    \/ NonblockingSend(t) \/ BlockingSend(t, TRUE) \/ BlockingSend(t, FALSE)
    \/ CapacityWait(t) \/ FinalAdmission(t) \/ SendReturns(t)

\* A send changes nothing but its own record.
LEMMA SendFields ==
  ASSUME IInv, NEW t \in Senders, Sends(t)
  PROVE  /\ Agree(w, w', {"sends"}) /\ DOMAIN w'.sends = Senders
         /\ \A u \in Senders \ {t} : w'.sends[u] = w.sends[u]
  <1> DEFINE Kept == /\ Agree(w, w', {"sends"}) /\ DOMAIN w'.sends = Senders
                     /\ \A u \in Senders \ {t} : w'.sends[u] = w.sends[u]
  <1>1. DOMAIN w = Fields /\ DOMAIN w.sends = Senders
    BY DEF IInv, Shape
  <1>2. ASSUME NEW x, w' = [w EXCEPT !.sends[t] = x] PROVE Kept
    BY <1>1, <1>2 DEF Agree, Fields
  <1>3. ASSUME NEW x, w' = [w EXCEPT !.sends[t].at = x] PROVE Kept
    BY <1>1, <1>3 DEF Agree, Fields
  <1>4. CASE NonblockingSend(t)
    BY <1>2, <1>4, Zenon DEF NonblockingSend, Accepted
  <1>5. CASE ChecksPressure(t)
    BY <1>2, <1>3, <1>5, Zenon DEF ChecksPressure, Rejected
  <1>6. CASE Released(t)
    BY <1>2, <1>3, <1>6, Zenon DEF Released, Rejected
  <1>7. CASE BlockingSend(t, TRUE) \/ BlockingSend(t, FALSE)
    BY <1>2, <1>7, Zenon DEF BlockingSend, Accepted, Rejected
  <1>8. CASE FinalAdmission(t)
    <2>1. w' \in {Rejected(w, t), Accepted(w, t), [w EXCEPT !.sends[t].at = "check"]}
      BY <1>8 DEF FinalAdmission
    <2> QED
      BY <1>2, <1>3, <2>1, Zenon DEF Accepted, Rejected
  <1>9. CASE SendReturns(t)
    BY <1>2, <1>9, Zenon DEF SendReturns
  <1> QED
    BY <1>4, <1>5, <1>6, <1>7, <1>8, <1>9
    DEF Sends, CapacityWait

\* Sends keep the invariant.
LEMMA SendInv == ASSUME IInv, NEW t \in Senders, Sends(t) PROVE IInv'
  <1>1. Agree(w, w', {"sends"}) /\ DOMAIN w'.sends = Senders
    BY SendFields
  <1>2. /\ DOMAIN w' = Fields /\ w'.todo = w.todo /\ w'.run = w.run
        /\ \A f \in Base : w'[f] = w[f]
        /\ w'.hooked = w.hooked /\ w'.running = w.running /\ w'.up = w.up
        /\ w'.expired = w.expired /\ w'.timer = w.timer /\ w'.gate = w.gate
    BY <1>1 DEF Agree, Fields, Base
  <1>3. Untouched => Untouched'
    BY <1>2, Zenon DEF Untouched
  <1> QED
    BY <1>1, <1>2, <1>3, Quiet

-----------------------------------------------------------------------------
(* Every step of a client wrapper.                                         *)

\* The union of the next-state relations of the four client wrappers.
ClientNext ==
    \/ Connects \/ Receives \/ Fails("Connecting") \/ Fails("Down")
    \/ PressureChanges(OnPressure) \/ RunTimer(OnTimer)
    \/ TakesData \/ FlushesData \/ FlushesMessages
    \/ Observes(TRUE) \/ Observes(FALSE) \/ Notifies \/ ReportsError \/ Around
    \/ Starts(w.channel /\ w.up)
    \/ StopCalled \/ UserStops \/ (\E t \in Threads : StopProceeds(t))
    \/ (\E t \in Senders : Sends(t)) \/ Configures

\* Every step keeps the invariant.
LEMMA NextInv == IInv /\ [ClientNext]_w => IInv'
  <1>1. ASSUME IInv, ClientNext PROVE IInv'
    <2>1. CASE \/ Connects \/ Receives \/ Fails("Connecting") \/ Fails("Down")
               \/ PressureChanges(OnPressure) \/ RunTimer(OnTimer)
      BY <1>1, <2>1, TransportInv
    <2>2. CASE TakesData
      BY <1>1, <2>2, DataInv
    <2>3. CASE FlushesData \/ FlushesMessages
      BY <1>1, <2>3, FlushInv
    <2>4. CASE Observes(TRUE) \/ Observes(FALSE) \/ Notifies \/ ReportsError
      BY <1>1, <2>4, StateInv
    <2>5. CASE Around
      BY <1>1, <2>5, AroundInv
    <2>6. CASE Starts(w.channel /\ w.up)
      BY <1>1, <2>6, StartInv
    <2>7. CASE StopCalled \/ UserStops \/ (\E t \in Threads : StopProceeds(t))
      BY <1>1, <2>7, StopInv
    <2>8. CASE \E t \in Senders : Sends(t)
      BY <1>1, <2>8, SendInv
    <2>9. CASE Configures
      BY <1>1, <2>9, ConfiguresInv
    <2> QED
      BY <1>1, <2>1, <2>2, <2>3, <2>4, <2>5, <2>6, <2>7, <2>8, <2>9 DEF ClientNext
  <1>2. ASSUME IInv, UNCHANGED w PROVE IInv'
    BY <1>2 DEF IInv, Shape, Handlers, Closes, Untouched, stop_callers
  <1> QED
    BY <1>1, <1>2

\* The invariant implies that callbacks are fenced.
LEMMA InvFenced == IInv => CallbacksFenced
  <1> SUFFICES ASSUME IInv PROVE CallbacksFenced
    OBVIOUS
  <1>1. ASSUME w.todo # <<>>, Head(w.todo) = "user" PROVE "io" \in w.gate.threads
    BY <1>1, Unentereds DEF IInv, Handlers
  <1>2. ASSUME "io" \in w.gate.threads
        PROVE  w.run = w.gate.generation /\ ~w.stopped /\ w.limits = "in use"
    <2>1. w.todo # <<>>
      BY <1>2 DEF IInv, Handlers
    <2>2. w.started \/ w.stop_requested
      BY <2>1, InRun
    <2> QED
      BY <1>2, <2>2 DEF IInv, Closes
  <1> QED
    BY <1>1, <1>2 DEF CallbacksFenced

-----------------------------------------------------------------------------
(* Sends that wait for room.                                               *)

\* The steps of a send between its selection and its outcome, and its record.
Waiting == {"check", "wait", "final"}
SendType == [at : Waiting \cup {"none", "accepted"}, pin : Nat, run : Nat, missed : BOOLEAN]

\* A send that has missed something finds at final admission that the connection
\* or the run is another one, or that the gate is closed.
Missing ==
    /\ w.conn \in Nat /\ w.sends \in [Senders -> SendType]
    /\ \A t \in Senders :
          LET r == w.sends[t]
          IN  IF r.at \in Waiting
              THEN /\ r.pin <= w.conn /\ r.run <= w.gate.generation
                   /\ r.missed => \/ r.pin < w.conn \/ r.run < w.gate.generation
                                  \/ w.gate.closed
              ELSE ~r.missed

\* A connection is up only while the transport runs, and that ends with the stop.
Carries ==
    /\ w.up => w.running
    /\ w.running => w.channel /\ w.stopping # "done" /\ ~w.stopped

\* A closed gate is seen by the state check of a send: a stop() is under way, or
\* it has taken started_ back.
Halting ==
    /\ w.gate.closed /\ w.started => stop_callers(w) # {}
    /\ \A t \in Threads : w.stops[t] \in {"channel", "wait"} => ~w.started

\* The second inductive invariant of the client wrappers.
SInv == IInv /\ Missing /\ Carries /\ Halting

\* The fields it is about, beside the gate.
Core == {"up", "running", "channel", "stopping", "stopped", "started", "stops", "sends", "conn"}

\* A step that leaves them alone keeps it.
LEMMA CoreKept ==
  ASSUME Missing, Carries, Halting, \A f \in Core : w'[f] = w[f],
         w'.gate.closed = w.gate.closed, w'.gate.generation = w.gate.generation
  PROVE  Missing' /\ Carries' /\ Halting'
  <1>1. /\ w'.up = w.up /\ w'.running = w.running /\ w'.channel = w.channel
        /\ w'.stopping = w.stopping /\ w'.stopped = w.stopped /\ w'.started = w.started
        /\ w'.stops = w.stops /\ w'.sends = w.sends /\ w'.conn = w.conn
    BY DEF Core
  <1>2. stop_callers(w)' = stop_callers(w)
    BY <1>1 DEF stop_callers
  <1>3. Missing'
    BY <1>1, Zenon DEF Missing
  <1>4. Carries'
    BY <1>1, Zenon DEF Carries
  <1>5. Halting'
    BY <1>1, <1>2, Zenon DEF Halting
  <1> QED
    BY <1>3, <1>4, <1>5

\* The gate's fields that matter here do not change with a lease.
LEMMA Leases ==
  ASSUME NEW g, DOMAIN g = Gate
  PROVE  /\ enter(g, "io").closed = g.closed /\ enter(g, "io").generation = g.generation
         /\ release(g, "io").closed = g.closed /\ release(g, "io").generation = g.generation
  BY DEF enter, release, Gate

\* Two states that agree on all that matters here.
Same(s, t) ==
    /\ DOMAIN t = Fields /\ \A f \in Core : t[f] = s[f]
    /\ t.gate.closed = s.gate.closed /\ t.gate.generation = s.gate.generation

\* The steps that come and go with a handler.
LEMMA SameSteps ==
  ASSUME NEW s, DOMAIN s = Fields, DOMAIN s.gate = Gate
  PROVE  /\ Same(s, s) /\ Same(s, Return(s)) /\ Same(s, Enter(s)) /\ Same(s, ClearBatches(s))
         /\ \A steps : Same(s, Then(s, steps))
         /\ \A event, steps : Same(s, Call(s, event, steps))
  <1>1. Same(s, s) /\ Same(s, Return(s)) /\ Same(s, ClearBatches(s))
    BY DEF Return, ClearBatches, Same, Core, Fields
  <1>2. Same(s, Enter(s))
    <2>1. Agree(s, Enter(s), {"gate"}) /\ Enter(s).gate = enter(s.gate, "io")
      BY EnterFields
    <2> QED
      BY <2>1, Leases DEF Same, Agree, Core, Fields
  <1>3. ASSUME NEW steps PROVE Same(s, Then(s, steps))
    BY DEF Then, Same, Core, Fields
  <1>4. ASSUME NEW event, NEW steps PROVE Same(s, Call(s, event, steps))
    BY DEF Call, Same, Core, Fields
  <1> QED
    BY <1>1, <1>2, <1>3, <1>4

\* One state after another.
LEMMA SameTwice ==
  ASSUME NEW s, NEW t, NEW u, Same(s, t), Same(t, u)
  PROVE  Same(s, u)
  BY Zenon DEF Same

\* Batches, the timer and what LifecycleEvents remembers do not matter here.
LEMMA SameBut ==
  ASSUME NEW s, DOMAIN s = Fields, NEW t,
         Agree(s, t, {"pressure", "data", "messages", "timer", "expired", "todo", "run", "event",
                      "connected", "lost", "error", "terminal_error", "promises", "limits"})
  PROVE  Same(s, t) /\ t.gate = s.gate
  BY DEF Same, Agree, Core, Fields

\* The steps that neither lose a connection nor start, stop or send.
QuietStep ==
    \/ Receives \/ PressureChanges(OnPressure) \/ RunTimer(OnTimer)
    \/ TakesBytes(ScheduleTimer) \/ (At("data") /\ w' = Return(w))
    \/ DeliversMessage(ScheduleTimer) \/ DeliversNone \/ FlushesData \/ FlushesMessages
    \/ Observes(TRUE) \/ Observes(FALSE) \/ Notifies \/ ReportsError
    \/ Alive \/ Admission \/ UserReturns \/ HandlerEnds \/ TimerExpires \/ Configures

\* They leave alone what matters here.
LEMMA QuietSteps ==
  ASSUME IInv, QuietStep
  PROVE  Same(w, w')
  <1>0. DOMAIN w = Fields /\ DOMAIN w.gate = Gate
    BY DEF IInv, Shape
  <1>1. /\ Same(w, w) /\ Same(w, Return(w)) /\ Same(w, Enter(w)) /\ Same(w, ClearBatches(w))
        /\ \A steps : Same(w, Then(w, steps))
        /\ \A event, steps : Same(w, Call(w, event, steps))
    BY <1>0, SameSteps
  <1>2. ASSUME NEW s, Same(w, s), DOMAIN s.gate = Gate, NEW steps PROVE Same(w, Then(s, steps))
    BY <1>2, SameSteps, SameTwice DEF Same
  <1>3. CASE Receives \/ Alive \/ UserReturns \/ DeliversNone \/ (At("data") /\ w' = Return(w))
    BY <1>1, <1>3, Zenon DEF Receives, Alive, UserReturns, DeliversNone
  <1>4. CASE PressureChanges(OnPressure)
    <2> DEFINE s == [w EXCEPT !.pressure = ~@]
    <2>1. w' = Call(s, "pressure", OnPressure)
      BY <1>4 DEF PressureChanges
    <2>2. Agree(w, s, {"pressure"})
      BY <1>0 DEF Agree, Fields
    <2> HIDE DEF s
    <2>3. Same(w, s) /\ s.gate = w.gate /\ DOMAIN s = Fields
      BY <1>0, <2>2, SameBut DEF Agree
    <2>4. Same(s, w')
      BY <1>0, <2>1, <2>3, SameSteps
    <2> QED
      BY <2>3, <2>4, SameTwice
  <1>5. CASE RunTimer(OnTimer) \/ TimerExpires \/ Configures
    <2>1. Agree(w, w', {"expired", "todo", "run", "event", "timer", "limits"})
      BY <1>0, <1>5 DEF RunTimer, TimerExpires, Configures, Agree, Fields
    <2>2. Agree(w, w', {"pressure", "data", "messages", "timer", "expired", "todo", "run", "event",
                        "connected", "lost", "error", "terminal_error", "promises", "limits"})
      BY <2>1 DEF Agree
    <2> QED
      BY <1>0, <2>2, SameBut, Zenon
  <1>6. ASSUME NEW queue \in {"data", "messages"}, w' = Batch(w, queue, ScheduleTimer)
        PROVE  Same(w, w')
    <2>1. PICK s, steps : /\ w' = Then(s, steps) /\ Agree(w, s, {"data", "messages", "timer"})
      BY <1>0, <1>6 DEF Batch, Invoke, Agree
    <2>2. Same(w, s) /\ s.gate = w.gate
      BY <1>0, <2>1, SameBut DEF Agree
    <2> QED
      BY <1>0, <1>2, <2>1, <2>2
  <1>7. CASE TakesBytes(ScheduleTimer) \/ DeliversMessage(ScheduleTimer)
    BY <1>1, <1>6, <1>7 DEF TakesBytes, DeliversMessage, Invoke
  <1>8. CASE Admission
    <2>1. Same(w, Enter(w)) /\ DOMAIN Enter(w).gate = Gate
      BY <1>0, <1>1 DEF Enter, enter, Fields, Gate
    <2> QED
      BY <1>1, <1>2, <1>8, <2>1 DEF Admission
  <1>9. CASE HandlerEnds
    <2>1. /\ DOMAIN w' = Fields /\ w'.gate = release(w.gate, "io")
          /\ \A f \in Core : w'[f] = w[f]
      BY <1>0, <1>9 DEF HandlerEnds, Core, Fields
    <2> QED
      BY <1>0, <2>1, Leases DEF Same
  <1>10. CASE FlushesData
    <2> DEFINE e == Enter(w)
               d == [e EXCEPT !.data = <<>>]
               k == [w EXCEPT !.todo = Tail(Tail(@))]
    <2>1. w' \in {k, Then(e, <<>>), Then(d, <<"user">>)}
      BY <1>10, Zenon DEF FlushesData, Invoke
    <2>2. Same(w, e) /\ DOMAIN e = Fields /\ DOMAIN e.gate = Gate
      BY <1>0, <1>1 DEF Enter, enter, Fields, Gate
    <2>3. Same(w, k)
      BY <1>0 DEF Same, Core, Fields
    <2> HIDE DEF e, k
    <2>4. Same(e, d) /\ DOMAIN d.gate = Gate
      BY <2>2 DEF Same, Core, Fields
    <2> HIDE DEF d
    <2>5. Same(w, d)
      BY <2>2, <2>4, SameTwice
    <2> QED
      BY <1>2, <2>1, <2>2, <2>3, <2>4, <2>5
  <1>11. CASE FlushesMessages
    <2>1. PICK s, steps : w' = Then(s, steps) /\ Agree(w, s, {"messages", "timer"})
      BY <1>0, <1>11 DEF FlushesMessages, Invoke, Agree, Fields
    <2>2. Same(w, s) /\ s.gate = w.gate
      BY <1>0, <2>1, SameBut DEF Agree
    <2> QED
      BY <1>0, <1>2, <2>1, <2>2
  <1>12. CASE Observes(TRUE) \/ Observes(FALSE)
    <2> DEFINE s == [w EXCEPT !.connected = w.event = "Up", !.lost = w.connected /\ ~(w.event = "Up"),
                              !.error = w.event = "Down" /\ ~w.terminal_error,
                              !.terminal_error = w.event = "Down" \/ (@ /\ ~(w.event = "Up")),
                              !.promises = IF w.event = "Connecting" THEN @ ELSE 0]
    <2>1. \E steps : w' = Then(s, steps) \/ w' = Then(ClearBatches(s), steps)
      BY <1>12 DEF Observes
    <2>2. Agree(w, s, {"connected", "lost", "error", "terminal_error", "promises"})
      BY <1>0 DEF Agree, Fields
    <2> HIDE DEF s
    <2>3. Same(w, s) /\ s.gate = w.gate /\ DOMAIN s = Fields
      BY <1>0, <2>2, SameBut DEF Agree
    <2>4. Same(w, ClearBatches(s)) /\ ClearBatches(s).gate = w.gate
      <3>1. Same(s, ClearBatches(s)) /\ ClearBatches(s).gate = s.gate
        BY <2>3 DEF ClearBatches, Same, Core, Fields
      <3> QED
        BY <2>3, <3>1, SameTwice
    <2> QED
      BY <1>0, <1>2, <2>1, <2>3, <2>4
  <1>13. CASE Notifies \/ ReportsError
    BY <1>1, <1>13 DEF Notifies, ReportsError, Invoke
  <1> QED
    BY <1>3, <1>4, <1>5, <1>7, <1>8, <1>9, <1>10, <1>11, <1>12, <1>13 DEF QuietStep

\* What the history of a send says after Missed.
LEMMA MissedSends ==
  ASSUME NEW s, DOMAIN s = Fields, s.sends \in [Senders -> SendType]
  PROVE  /\ Missed(s).sends \in [Senders -> SendType]
         /\ \A t \in Senders :
               LET q == Missed(s).sends[t]
                   r == s.sends[t]
               IN  /\ q.at = r.at /\ q.pin = r.pin /\ q.run = r.run
                   /\ r.at \notin Waiting => q.missed = r.missed
  <1>1. Missed(s).sends = [t \in Senders |-> IF s.sends[t].at \in {"check", "wait", "final"}
                                             THEN [s.sends[t] EXCEPT !.missed = TRUE]
                                             ELSE s.sends[t]]
    BY DEF Missed, Fields
  <1>2. ASSUME NEW t \in Senders
        PROVE  LET q == Missed(s).sends[t]
                   r == s.sends[t]
               IN  /\ q \in SendType /\ q.at = r.at /\ q.pin = r.pin /\ q.run = r.run
                   /\ r.at \notin Waiting => q.missed = r.missed
    <2>1. s.sends[t] \in SendType
      OBVIOUS
    <2>2. Missed(s).sends[t] = IF s.sends[t].at \in {"check", "wait", "final"}
                               THEN [s.sends[t] EXCEPT !.missed = TRUE] ELSE s.sends[t]
      BY <1>1
    <2> QED
      BY <2>1, <2>2 DEF SendType, Waiting
  <1> QED
    BY <1>1, <1>2

\* A connection that was up has ended with t, or none was.
Lost(s, t) ==
    \/ s.up /\ ~t.up /\ t.conn = s.conn + 1 /\ t.sends = Missed(s).sends
    \/ ~s.up /\ ~t.up /\ t.conn = s.conn /\ t.sends = s.sends

\* The loss of a connection is one, and so is the end of the transport.
LEMMA Losses ==
  ASSUME NEW s, DOMAIN s = Fields
  PROVE  (\A link : Lost(s, Drops(s, link))) /\ Lost(s, Halt(s))
  <1> DEFINE d == IF s.up THEN Disconnect(s) ELSE s
  <1>1. DOMAIN d = Fields /\ Lost(s, d)
    BY DisconnectFields DEF Agree, Lost
  <1>2. ASSUME NEW link PROVE Lost(s, Drops(s, link))
    <2> DEFINE e == [d EXCEPT !.link = link]
    <2>1. Drops(s, link) = Call(e, link, OnState)
      BY DEF Drops
    <2> HIDE DEF d
    <2>2. DOMAIN e = Fields /\ e.up = d.up /\ e.conn = d.conn /\ e.sends = d.sends
      BY <1>1 DEF Fields
    <2> HIDE DEF e
    <2>3. /\ Drops(s, link).up = d.up /\ Drops(s, link).conn = d.conn
          /\ Drops(s, link).sends = d.sends
      BY <2>1, <2>2, CallFields DEF Agree, Fields
    <2> QED
      BY <1>1, <2>3, Zenon DEF Lost
  <1>3. Lost(s, Halt(s))
    <2> DEFINE e == [d EXCEPT !.stopping = "done", !.running = FALSE, !.link = "Idle"]
    <2>1. Halt(s) = e
      BY DEF Halt
    <2> HIDE DEF d
    <2>2. e.up = d.up /\ e.conn = d.conn /\ e.sends = d.sends
      BY <1>1 DEF Fields
    <2> QED
      BY <1>1, <2>1, <2>2, Zenon DEF Lost
  <1> QED
    BY <1>2, <1>3

\* A lost connection has another number, so what it cost a send shows.
LEMMA LostMissing ==
  ASSUME Missing, DOMAIN w = Fields, w.gate.generation \in Nat, Lost(w, w'),
         w'.gate.closed = w.gate.closed, w'.gate.generation = w.gate.generation
  PROVE  Missing'
  <1>1. CASE w.up /\ w'.conn = w.conn + 1 /\ w'.sends = Missed(w).sends
    <2>1. w'.sends \in [Senders -> SendType] /\ w'.conn \in Nat
      BY <1>1, MissedSends DEF Missing
    <2>2. ASSUME NEW t \in Senders
          PROVE  LET q == w'.sends[t]
                 IN  IF q.at \in Waiting
                     THEN /\ q.pin <= w'.conn /\ q.run <= w'.gate.generation
                          /\ q.pin < w'.conn
                     ELSE ~q.missed
      <3>1. LET q == w'.sends[t]
                r == w.sends[t]
            IN  /\ q.at = r.at /\ q.pin = r.pin /\ q.run = r.run
                /\ r.at \notin Waiting => q.missed = r.missed
        BY <1>1, MissedSends DEF Missing
      <3>2. w.sends[t] \in SendType /\ w.conn \in Nat
        BY DEF Missing
      <3>3. CASE w.sends[t].at \in Waiting
        <4>1. w.sends[t].pin <= w.conn /\ w.sends[t].run <= w.gate.generation
          BY <3>3 DEF Missing
        <4>2. w.sends[t].pin \in Nat
          BY <3>2 DEF SendType
        <4> QED
          BY <1>1, <3>1, <3>2, <3>3, <4>1, <4>2
      <3>4. CASE w.sends[t].at \notin Waiting
        BY <3>1, <3>4 DEF Missing
      <3> QED
        BY <3>3, <3>4
    <2> QED
      BY <2>1, <2>2 DEF Missing
  <1>2. CASE w'.conn = w.conn /\ w'.sends = w.sends
    BY <1>2, Zenon DEF Missing
  <1> QED
    BY <1>1, <1>2 DEF Lost

\* The loss of a connection keeps the invariant.
LEMMA DropsSInv ==
  ASSUME SInv, NEW s, NEW link, Same(w, s), DOMAIN s.sends = Senders, w' = Drops(s, link)
  PROVE  Missing' /\ Carries' /\ Halting'
  <1>1. DOMAIN w = Fields /\ w.gate.generation \in Nat /\ DOMAIN s = Fields
    BY DEF SInv, IInv, Shape, Same
  <1>2. /\ s.up = w.up /\ s.running = w.running /\ s.channel = w.channel
        /\ s.stopping = w.stopping /\ s.stopped = w.stopped /\ s.started = w.started
        /\ s.stops = w.stops /\ s.sends = w.sends /\ s.conn = w.conn
        /\ s.gate.closed = w.gate.closed /\ s.gate.generation = w.gate.generation
    BY DEF Same, Core
  <1>3. /\ w'.running = s.running /\ w'.channel = s.channel /\ w'.stopping = s.stopping
        /\ w'.stopped = s.stopped /\ w'.started = s.started /\ w'.stops = s.stops
        /\ w'.gate = s.gate
    BY <1>1, DropsFields DEF Agree, Fields
  <1>4. Lost(w, w')
    <2>1. Lost(s, w')
      BY <1>1, Losses
    <2>2. Missed(s).sends = Missed(w).sends
      BY <1>1, <1>2 DEF Missed, Fields
    <2> QED
      BY <1>2, <2>1, <2>2, Zenon DEF Lost
  <1>5. Missing'
    BY <1>1, <1>2, <1>3, <1>4, LostMissing DEF SInv
  <1>6. ~w'.up
    BY <1>4 DEF Lost
  <1>7. Carries'
    BY <1>2, <1>3, <1>6 DEF SInv, Carries
  <1>8. stop_callers(w)' = stop_callers(w)
    BY <1>2, <1>3 DEF stop_callers
  <1>9. Halting'
    BY <1>2, <1>3, <1>8 DEF SInv, Halting
  <1> QED
    BY <1>5, <1>7, <1>9

\* What the transport does keeps it.
LEMMA TransportSInv ==
  ASSUME SInv, Connects \/ Fails("Connecting") \/ Fails("Down") \/ DropsBytes \/ Cleanup
  PROVE  Missing' /\ Carries' /\ Halting'
  <1>0. /\ DOMAIN w = Fields /\ DOMAIN w.gate = Gate /\ w.gate.generation \in Nat
        /\ DOMAIN w.sends = Senders
    BY DEF SInv, IInv, Shape
  <1>1. CASE Connects
    <2> DEFINE s == [w EXCEPT !.up = TRUE, !.link = "Up"]
    <2>1. w' = Call(s, "Up", OnState) /\ w.running
      BY <1>1 DEF Connects, Idle
    <2>2. DOMAIN s = Fields /\ s.gate = w.gate /\ \A f \in Core \ {"up"} : s[f] = w[f]
      BY <1>0 DEF Core, Fields
    <2> HIDE DEF s
    <2>3. w'.gate = w.gate /\ \A f \in Core \ {"up"} : w'[f] = w[f]
      BY <2>1, <2>2, CallFields DEF Agree, Core, Fields
    <2>4. /\ w'.running = w.running /\ w'.channel = w.channel
          /\ w'.stopping = w.stopping /\ w'.stopped = w.stopped /\ w'.started = w.started
          /\ w'.stops = w.stops /\ w'.sends = w.sends /\ w'.conn = w.conn
      BY <2>3 DEF Core
    <2>5. Missing'
      BY <2>3, <2>4, Zenon DEF SInv, Missing
    <2>6. Carries'
      BY <2>1, <2>4, Zenon DEF SInv, Carries
    <2>7. stop_callers(w)' = stop_callers(w)
      BY <2>4 DEF stop_callers
    <2>8. Halting'
      BY <2>3, <2>4, <2>7, Zenon DEF SInv, Halting
    <2> QED
      BY <2>5, <2>6, <2>8
  <1>2. CASE Fails("Connecting") \/ Fails("Down")
    <2>1. PICK link : w' = Drops(w, link)
      BY <1>2 DEF Fails
    <2> QED
      BY <1>0, <2>1, SameSteps, DropsSInv
  <1>3. CASE DropsBytes
    <2> DEFINE d == ClearBatches(w)
    <2>1. Same(w, d) /\ DOMAIN d = Fields /\ d.gate = w.gate /\ d.sends = w.sends
      BY <1>0, SameSteps DEF ClearBatches, Fields
    <2>2. \E link : w' = Drops(d, link) \/ w' = Return(d)
      BY <1>3 DEF DropsBytes, Overflows
    <2> HIDE DEF d
    <2>3. CASE w' = Return(d)
      <3>1. Same(w, w')
        BY <1>0, <2>1, <2>3, SameSteps, SameTwice
      <3> QED
        BY <3>1, CoreKept DEF SInv, Same
    <2> QED
      BY <1>0, <2>1, <2>2, <2>3, DropsSInv
  <1>4. CASE Cleanup
    <2>1. w' = Halt(w)
      BY <1>4 DEF Cleanup
    <2>2. /\ w'.channel = w.channel /\ w'.stopped = w.stopped /\ w'.started = w.started
          /\ w'.stops = w.stops /\ w'.gate = w.gate /\ ~w'.running
      BY <1>0, <2>1, HaltFields DEF Agree, Fields
    <2>3. Lost(w, w')
      BY <1>0, <2>1, Losses
    <2>4. Missing'
      BY <1>0, <2>2, <2>3, LostMissing DEF SInv
    <2>5. Carries'
      BY <2>2, <2>3 DEF Carries, Lost
    <2>6. stop_callers(w)' = stop_callers(w)
      BY <2>2 DEF stop_callers
    <2>7. Halting'
      BY <2>2, <2>6, Zenon DEF SInv, Halting
    <2> QED
      BY <2>4, <2>5, <2>7
  <1> QED
    BY <1>1, <1>2, <1>3, <1>4

\* A stop() that begins closes the gate, so what it costs a send shows.
LEMMA BeginsSInv ==
  ASSUME SInv, NEW t \in Threads, NEW s, Agree(w, s, {"todo"}), w' = StopBegins(s, t)
  PROVE  Missing' /\ Carries' /\ Halting'
  <1>0. /\ DOMAIN w = Fields /\ DOMAIN w.gate = Gate /\ w.gate.generation \in Nat
        /\ DOMAIN w.stops = Threads /\ w.sends \in [Senders -> SendType]
    BY DEF SInv, IInv, Shape, Missing
  <1>1. DOMAIN s = Fields /\ s.gate = w.gate /\ \A f \in Core : s[f] = w[f]
    BY DEF Agree, Core, Fields
  <1> DEFINE m == Missed(s)
  <1>2. DOMAIN m = Fields /\ m.gate = s.gate /\ \A f \in Core \ {"sends"} : m[f] = s[f]
    BY <1>1, MissedFields DEF Agree, Core, Fields
  <1>3. w' = [m EXCEPT !.stops[t] = "request", !.gate = close(@)]
    BY DEF StopBegins
  <1>4. s.sends = w.sends
    BY <1>1 DEF Core
  <1>5. /\ m.sends \in [Senders -> SendType]
        /\ \A u \in Senders :
              LET q == m.sends[u]
                  r == w.sends[u]
              IN  /\ q.at = r.at /\ q.pin = r.pin /\ q.run = r.run
                  /\ r.at \notin Waiting => q.missed = r.missed
    BY <1>0, <1>1, <1>4, MissedSends
  <1> HIDE DEF m
  <1>6. /\ w'.gate = close(m.gate) /\ w'.stops = [m.stops EXCEPT ![t] = "request"]
        /\ \A f \in Core \ {"stops"} : w'[f] = m[f]
    BY <1>2, <1>3 DEF Core, Fields
  <1>7. /\ w'.up = w.up /\ w'.running = w.running /\ w'.channel = w.channel
        /\ w'.stopping = w.stopping /\ w'.stopped = w.stopped /\ w'.started = w.started
        /\ w'.sends = m.sends /\ w'.conn = w.conn /\ w'.gate = close(w.gate)
        /\ w'.stops = [w.stops EXCEPT ![t] = "request"]
    BY <1>1, <1>2, <1>6 DEF Core
  <1>8. w'.gate.generation = w.gate.generation
    BY <1>0, <1>7 DEF close, Gate
  <1>9. w'.gate.closed
    BY <1>0, <1>7 DEF close, Gate
  <1>10. Missing'
    <2>1. ASSUME NEW u \in Senders
          PROVE  LET q == w'.sends[u]
                 IN  IF q.at \in Waiting
                     THEN q.pin <= w'.conn /\ q.run <= w'.gate.generation
                     ELSE ~q.missed
      BY <1>5, <1>7, <1>8 DEF SInv, Missing
    <2>2. w'.conn \in Nat /\ w'.sends \in [Senders -> SendType]
      BY <1>5, <1>7 DEF SInv, Missing
    <2> QED
      BY <1>9, <2>1, <2>2, Zenon DEF Missing
  <1>11. Carries'
    BY <1>7, Zenon DEF SInv, Carries
  <1>12. Halting'
    <2>1. w'.stops[t] = "request" /\ \A u \in Threads \ {t} : w'.stops[u] = w.stops[u]
      BY <1>0, <1>7
    <2>2. stop_callers(w)' # {}
      BY <2>1 DEF stop_callers
    <2>3. \A u \in Threads : w'.stops[u] \in {"channel", "wait"} => ~w'.started
      BY <1>7, <2>1 DEF SInv, Halting
    <2> QED
      BY <2>2, <2>3 DEF Halting
  <1> QED
    BY <1>10, <1>11, <1>12

\* The further steps of stop() keep the invariant: the run is over by then.
LEMMA StopProceedsSInv ==
  ASSUME SInv, NEW t \in Threads, StopProceeds(t)
  PROVE  Missing' /\ Carries' /\ Halting'
  <1>0. /\ DOMAIN w = Fields /\ w.gate.generation \in Nat /\ DOMAIN w.stops = Threads
    BY DEF SInv, IInv, Shape
  <1>1. CASE StopRequests(t)
    <2>1. /\ w'.up = w.up /\ w'.running = w.running /\ w'.channel = w.channel
          /\ w'.stopping = w.stopping /\ w'.stopped = w.stopped
          /\ w'.sends = w.sends /\ w'.conn = w.conn /\ w'.gate = w.gate
      BY <1>0, <1>1 DEF StopRequests, Fields
    <2>2. ~w'.started
      BY <1>0, <1>1 DEF StopRequests, Fields
    <2>3. Missing'
      BY <2>1, Zenon DEF SInv, Missing
    <2>4. Carries'
      BY <2>1, Zenon DEF SInv, Carries
    <2> QED
      BY <2>2, <2>3, <2>4, Zenon DEF Halting
  <1>2. CASE StopsChannel(t)
    <2> DEFINE a == [w EXCEPT !.stopping = IF w.running THEN "asked" ELSE "done"]
               s == IF ~w.channel \/ w.stopping # "no" THEN w
                    ELSE IF w.injected THEN Halt(w) ELSE a
               next == IF shutdown_needs_this_thread(w, t) THEN "none" ELSE "wait"
    <2>1. w' = [s EXCEPT !.stops[t] = next]
      BY <1>2 DEF StopsChannel
    <2>2. ~w.started
      BY <1>2 DEF StopsChannel, SInv, Halting
    <2>3. CASE s = Halt(w)
      <3>1. /\ s.started = w.started /\ s.gate = w.gate /\ ~s.running /\ Lost(w, s)
            /\ DOMAIN s = Fields
        BY <1>0, <2>3, HaltFields, Losses DEF Agree, Fields
      <3> HIDE DEF s, next
      <3>2. /\ w'.started = s.started /\ w'.gate = s.gate /\ w'.running = s.running
            /\ w'.up = s.up /\ w'.conn = s.conn /\ w'.sends = s.sends
        BY <2>1, <3>1 DEF Fields
      <3>3. Lost(w, w')
        BY <3>1, <3>2, Zenon DEF Lost
      <3>4. Missing'
        BY <1>0, <3>1, <3>2, <3>3, LostMissing DEF SInv
      <3>5. Carries'
        BY <3>1, <3>2, <3>3 DEF Carries, Lost
      <3> QED
        BY <2>2, <3>1, <3>2, <3>4, <3>5 DEF Halting
    <2>4. CASE s = w \/ s = a
      <3>1. /\ DOMAIN s = Fields /\ s.started = w.started /\ s.gate = w.gate
            /\ s.running = w.running /\ s.up = w.up /\ s.conn = w.conn /\ s.sends = w.sends
            /\ s.channel = w.channel /\ s.stopped = w.stopped
        BY <1>0, <2>4 DEF Fields
      <3>2. s.stopping = w.stopping \/ s.stopping = "asked" \/ ~w.running
        BY <1>0, <2>4 DEF Fields
      <3> HIDE DEF s, a, next
      <3>3. /\ w'.started = s.started /\ w'.gate = s.gate /\ w'.running = s.running
            /\ w'.up = s.up /\ w'.conn = s.conn /\ w'.sends = s.sends
            /\ w'.channel = s.channel /\ w'.stopped = s.stopped /\ w'.stopping = s.stopping
        BY <2>1, <3>1 DEF Fields
      <3>4. Missing'
        BY <3>1, <3>3, Zenon DEF SInv, Missing
      <3>5. Carries'
        BY <3>1, <3>2, <3>3 DEF SInv, Carries
      <3> QED
        BY <2>2, <3>1, <3>3, <3>4, <3>5 DEF Halting
    <2> QED
      BY <2>3, <2>4
  <1>3. CASE StopCompletes(t)
    <2> DEFINE d == ClearBatches(w)
    <2>1. /\ w' = [d EXCEPT !.alive = FALSE, !.timer = 0, !.session = 0, !.hooked = FALSE,
                            !.channel = w.injected, !.stopped = TRUE, !.stops[t] = "none"]
          /\ w.channel => w.stopping = "done"
      BY <1>3 DEF StopCompletes
    <2>2. /\ DOMAIN d = Fields /\ d.gate = w.gate /\ d.running = w.running /\ d.up = w.up
          /\ d.started = w.started /\ d.conn = w.conn /\ d.sends = w.sends
      BY <1>0 DEF ClearBatches, Fields
    <2> HIDE DEF d
    <2>3. /\ w'.gate = w.gate /\ w'.running = w.running /\ w'.up = w.up
          /\ w'.started = w.started /\ w'.conn = w.conn /\ w'.sends = w.sends
      BY <2>1, <2>2 DEF Fields
    <2>4. ~w.started
      BY <1>3 DEF StopCompletes, SInv, Halting
    <2>5. Missing'
      BY <2>3, Zenon DEF SInv, Missing
    <2>6. Carries'
      BY <2>1, <2>3 DEF SInv, Carries
    <2> QED
      BY <2>3, <2>4, <2>5, <2>6 DEF Halting
  <1> QED
    BY <1>1, <1>2, <1>3 DEF StopProceeds

\* start() keeps it: a run that opens has a number of its own.
LEMMA StartSInv ==
  ASSUME SInv, Starts(w.channel /\ w.up)
  PROVE  Missing' /\ Carries' /\ Halting'
  <1> DEFINE s == [w EXCEPT !.stop_requested = FALSE]
             r == [s EXCEPT !.started = w.kind = "udp_server" => @]
             p == [s EXCEPT !.promises = @ + 1]
  <1>1. /\ DOMAIN w = Fields /\ DOMAIN w.stops = Threads /\ DOMAIN w.gate = Gate
        /\ w.gate.generation \in Nat /\ w.kind # "udp_server"
    BY DEF SInv, IInv, Shape
  <1>2. DOMAIN s = Fields /\ \A f \in Fields \ {"stop_requested"} : s[f] = w[f]
    BY <1>1 DEF Fields
  <1>3. MayStart /\ ((w' = r /\ w.up) \/ (w' = p /\ w.started) \/ (w' = OpenRun(s) /\ ~w.started))
    <2>1. MayStart /\ w' = IF w.channel /\ w.up THEN r ELSE IF w.started THEN p ELSE OpenRun(s)
      BY Zenon DEF Starts
    <2> HIDE DEF r, p, OpenRun, MayStart
    <2> QED
      BY <2>1, Zenon
  <1>4. CASE (w' = r /\ w.up) \/ (w' = p /\ w.started)
    <2>1. w.started
      <3>1. SUFFICES ASSUME ~w.started, w.up PROVE FALSE
        BY <1>4
      <3>2. w.stopped \/ ~w.stop_requested
        BY <1>3, <3>1 DEF MayStart
      <3>3. ~w.stopped
        BY <3>1 DEF SInv, Carries
      <3> QED
        BY <3>1, <3>2, <3>3, Zenon DEF SInv, IInv, Closes, Untouched
    <2>2. /\ DOMAIN w' = Fields
          /\ \A f \in Fields \ {"stop_requested", "started", "promises"} : w'[f] = w[f]
      <3> HIDE DEF s
      <3> QED
        BY <1>2, <1>4 DEF Fields
    <2>3. /\ w'.up = w.up /\ w'.running = w.running /\ w'.channel = w.channel
          /\ w'.stopping = w.stopping /\ w'.stopped = w.stopped /\ w'.stops = w.stops
          /\ w'.sends = w.sends /\ w'.conn = w.conn /\ w'.gate = w.gate
      BY <2>2 DEF Fields
    <2>4. Missing'
      BY <2>3, Zenon DEF SInv, Missing
    <2>5. Carries'
      BY <2>3, Zenon DEF SInv, Carries
    <2>6. stop_callers(w)' = stop_callers(w)
      BY <2>3 DEF stop_callers
    <2>7. Halting'
      BY <2>1, <2>3, <2>6, Zenon DEF SInv, Halting
    <2> QED
      BY <2>4, <2>5, <2>7
  <1>5. CASE w' = OpenRun(s) /\ ~w.started
    <2>1. stop_callers(w) = {}
      BY <1>3, <1>5 DEF MayStart
    <2>2. /\ w'.gate = open_new_generation(s.gate) /\ w'.sends = s.sends /\ w'.conn = s.conn
          /\ w'.stops = s.stops /\ w'.stopping = "no"
      <3> HIDE DEF s
      <3> QED
        BY <1>2, <1>5 DEF OpenRun, Fields
    <2>3. w'.running /\ w'.channel /\ ~w'.stopped
      <3> HIDE DEF s
      <3> QED
        BY <1>2, <1>5 DEF OpenRun, Fields
    <2>4. /\ w'.gate = open_new_generation(w.gate) /\ w'.sends = w.sends /\ w'.conn = w.conn
          /\ w'.stops = w.stops
      BY <1>2, <2>2 DEF Fields
    <2>5. w'.gate.generation = w.gate.generation + 1
      BY <1>1, <2>4 DEF open_new_generation, Gate
    <2>6. ~w'.gate.closed
      BY <1>1, <2>4 DEF open_new_generation, Gate
    <2>7. Missing'
      <3>1. ASSUME NEW t \in Senders, w.sends[t].at \in Waiting
            PROVE  /\ w.sends[t].pin <= w.conn /\ w.sends[t].run <= w'.gate.generation
                   /\ w.sends[t].run < w'.gate.generation
        <4>1. w.sends[t].pin <= w.conn /\ w.sends[t].run <= w.gate.generation
          BY <3>1 DEF SInv, Missing
        <4>2. w.sends[t].run \in Nat
          BY DEF SInv, Missing, SendType
        <4> QED
          BY <1>1, <2>5, <4>1, <4>2
      <3> QED
        BY <2>4, <3>1, Zenon DEF SInv, Missing
    <2>8. Carries'
      BY <2>2, <2>3 DEF Carries
    <2>9. Halting'
      <3>1. \A t \in Threads : w'.stops[t] = "none"
        BY <2>1, <2>4 DEF stop_callers
      <3> QED
        BY <2>6, <3>1 DEF Halting
    <2> QED
      BY <2>7, <2>8, <2>9
  <1> QED
    BY <1>3, <1>4, <1>5

\* What Missing asks of the record of one send.
Fits(x) ==
    /\ x \in SendType
    /\ IF x.at \in Waiting
       THEN /\ x.pin <= w.conn /\ x.run <= w.gate.generation
            /\ x.missed => x.pin < w.conn \/ x.run < w.gate.generation \/ w.gate.closed
       ELSE ~x.missed

\* A send that writes such a record keeps the invariant.
LEMMA FitsSInv ==
  ASSUME SInv, NEW t \in Senders, NEW x, Fits(x), w' = [w EXCEPT !.sends[t] = x]
  PROVE  Missing' /\ Carries' /\ Halting'
  <1>0. DOMAIN w = Fields /\ w.sends \in [Senders -> SendType] /\ w.conn \in Nat
    BY DEF SInv, IInv, Shape, Missing
  <1>1. /\ w'.up = w.up /\ w'.running = w.running /\ w'.channel = w.channel
        /\ w'.stopping = w.stopping /\ w'.stopped = w.stopped /\ w'.started = w.started
        /\ w'.stops = w.stops /\ w'.conn = w.conn /\ w'.gate = w.gate
        /\ w'.sends = [w.sends EXCEPT ![t] = x]
    BY <1>0 DEF Fields
  <1>2. stop_callers(w)' = stop_callers(w)
    BY <1>1 DEF stop_callers
  <1>3. /\ w'.sends \in [Senders -> SendType] /\ w'.sends[t] = x
        /\ \A u \in Senders \ {t} : w'.sends[u] = w.sends[u]
    BY <1>0, <1>1 DEF Fits
  <1>4. ASSUME NEW u \in Senders PROVE Fits(w'.sends[u])
    BY <1>3 DEF SInv, Missing, Fits
  <1>5. Missing'
    BY <1>0, <1>1, <1>3, <1>4, Zenon DEF Missing, Fits
  <1>6. Carries'
    BY <1>1, Zenon DEF SInv, Carries
  <1>7. Halting'
    BY <1>1, <1>2, Zenon DEF SInv, Halting
  <1> QED
    BY <1>5, <1>6, <1>7

\* Every step of a send writes one: final admission accepts only when the state, the
\* run and the connection are those it captured, so nothing was missed.
LEMMA SendSInv ==
  ASSUME SInv, NEW t \in Senders, Sends(t)
  PROVE  Missing' /\ Carries' /\ Halting'
  <1> DEFINE r == w.sends[t]
             Goal == Missing' /\ Carries' /\ Halting'
             acc == [NoSend EXCEPT !.at = "accepted", !.missed = r.missed]
  <1> SUFFICES Goal
    OBVIOUS
  <1>0. /\ DOMAIN w = Fields /\ w.sends \in [Senders -> SendType] /\ w.conn \in Nat
        /\ w.gate.generation \in Nat /\ r \in SendType /\ Fits(r)
    BY DEF SInv, IInv, Shape, Missing, Fits
  <1>1. /\ NoSend \in SendType /\ NoSend.at = "none" /\ NoSend.missed = FALSE
        /\ acc \in SendType /\ acc.at = "accepted" /\ acc.missed = r.missed
    BY <1>0 DEF NoSend, SendType, Waiting
  <1>2. ASSUME w' = Rejected(w, t) \/ w' = [w EXCEPT !.sends[t] = NoSend] PROVE Goal
    <2>1. Fits(NoSend)
      BY <1>1 DEF Fits, Waiting
    <2> QED
      BY <1>2, <2>1, FitsSInv DEF Rejected
  <1>3. ASSUME ~r.missed, w' = Accepted(w, t) PROVE Goal
    <2>1. Fits(acc)
      BY <1>1, <1>3 DEF Fits, Waiting
    <2> QED
      BY <1>3, <2>1, FitsSInv DEF Accepted
  <1>4. ASSUME NEW a \in Waiting, r.at \in Waiting, w' = [w EXCEPT !.sends[t].at = a] PROVE Goal
    <2> DEFINE x == [r EXCEPT !.at = a]
    <2>1. /\ x \in SendType /\ x.at = a /\ x.pin = r.pin /\ x.run = r.run /\ x.missed = r.missed
      BY <1>0 DEF SendType
    <2>2. w' = [w EXCEPT !.sends[t] = x]
      BY <1>4
    <2> HIDE DEF x
    <2>3. Fits(x)
      BY <1>0, <1>4, <2>1 DEF Fits
    <2> QED
      BY <2>2, <2>3, FitsSInv
  <1>5. MaySend(t) => ~r.missed
    BY <1>0 DEF MaySend, Fits, Waiting
  <1> HIDE DEF Goal, r, acc
  <1>6. CASE NonblockingSend(t)
    BY <1>3, <1>5, <1>6 DEF NonblockingSend
  <1>7. ASSUME NEW fast, BlockingSend(t, fast) PROVE Goal
    <2> DEFINE x == [at |-> "check", pin |-> w.conn, run |-> w.gate.generation, missed |-> FALSE]
    <2>1. /\ x \in SendType /\ x.at = "check" /\ x.pin = w.conn /\ x.run = w.gate.generation
          /\ x.missed = FALSE
      BY <1>0 DEF SendType, Waiting
    <2>2. \/ w' = Accepted(w, t) \/ w' = Rejected(w, t) \/ w' = [w EXCEPT !.sends[t] = x]
      BY <1>7, Zenon DEF BlockingSend
    <2> HIDE DEF x
    <2>3. Fits(x)
      BY <1>0, <2>1 DEF Fits, Waiting
    <2>4. CASE w' = [w EXCEPT !.sends[t] = x]
      BY <2>3, <2>4, FitsSInv DEF Goal
    <2>5. ~r.missed
      BY <1>5, <1>7 DEF BlockingSend
    <2> QED
      BY <1>2, <1>3, <2>2, <2>4, <2>5, Zenon
  <1>8. CASE ChecksPressure(t)
    BY <1>2, <1>4, <1>8, Zenon DEF ChecksPressure, Waiting, r
  <1>9. CASE Released(t)
    BY <1>2, <1>4, <1>9, Zenon DEF Released, Waiting, r
  <1>10. CASE FinalAdmission(t)
    <2>1. r.at = "final"
      BY <1>10 DEF FinalAdmission, r
    <2>2. CASE w' = Rejected(w, t)
      BY <1>2, <2>2
    <2>3. CASE w' = [w EXCEPT !.sends[t].at = "check"]
      BY <1>4, <2>1, <2>3, Zenon DEF Waiting
    <2>4. CASE /\ send_state(w) /\ w.gate.generation = r.run /\ w.conn = r.pin
               /\ w' = Accepted(w, t)
      <3>1. w.started /\ stop_callers(w) = {}
        BY <2>4 DEF send_state
      <3>2. ~w.gate.closed
        BY <3>1 DEF SInv, Halting
      <3>3. ~(r.pin < w.conn) /\ ~(r.run < w.gate.generation)
        BY <1>0, <2>4
      <3>4. ~r.missed
        BY <1>0, <2>1, <3>2, <3>3 DEF Fits, Waiting
      <3> QED
        BY <1>3, <2>4, <3>4
    <2>5. CASE ~send_state(w) \/ w.gate.generation # w.sends[t].run
      BY <1>10, <2>2, <2>5, Zenon DEF FinalAdmission
    <2>6. CASE send_state(w) /\ w.gate.generation = w.sends[t].run
      <3>1. PICK o \in native_write(w, w.sends[t].pin) :
               w' = CASE o = "accepted" -> Accepted(w, t)
                      [] o = "full" /\ ~cannot_wait(t) -> [w EXCEPT !.sends[t].at = "check"]
                      [] OTHER -> Rejected(w, t)
        BY <1>10, <2>6, Zenon DEF FinalAdmission
      <3>2. o = "accepted" => w.conn = w.sends[t].pin
        BY DEF native_write
      <3>3. CASE o = "accepted"
        <4>1. w' = Accepted(w, t)
          BY <3>1, <3>3
        <4> QED
          BY <2>4, <2>6, <3>2, <3>3, <4>1 DEF r
      <3>4. CASE o # "accepted"
        <4>1. w' = [w EXCEPT !.sends[t].at = "check"] \/ w' = Rejected(w, t)
          <5> HIDE DEF Rejected
          <5> QED
            BY <3>1, <3>4
        <4> QED
          BY <2>2, <2>3, <4>1
      <3> QED
        BY <3>3, <3>4
    <2> QED
      BY <2>5, <2>6
  <1>11. CASE SendReturns(t)
    BY <1>2, <1>11, Zenon DEF SendReturns
  <1> QED
    BY <1>6, <1>7, <1>8, <1>9, <1>10, <1>11 DEF Sends, CapacityWait

\* Every step of a client wrapper keeps the second invariant.
LEMMA NextSInv == SInv /\ [ClientNext]_w => SInv'
  <1> SUFFICES ASSUME SInv, [ClientNext]_w PROVE SInv'
    OBVIOUS
  <1>1. IInv'
    BY NextInv DEF SInv
  <1>2. CASE QuietStep
    <2>1. Same(w, w')
      BY <1>2, QuietSteps DEF SInv
    <2> QED
      BY <1>1, <2>1, CoreKept DEF SInv, Same
  <1>3. CASE Connects \/ Fails("Connecting") \/ Fails("Down") \/ DropsBytes \/ Cleanup
    BY <1>1, <1>3, TransportSInv DEF SInv
  <1>4. CASE StopCalled
    <2>1. Agree(w, w, {"todo"}) /\ w' = StopBegins(w, "owner")
      BY <1>4 DEF StopCalled, Agree, SInv, IInv, Shape
    <2> QED
      BY <1>1, <2>1, BeginsSInv DEF SInv, Threads
  <1>5. CASE UserStops
    <2>1. Agree(w, Then(w, <<>>), {"todo"}) /\ w' = StopBegins(Then(w, <<>>), "io")
      BY <1>5, ThenFields DEF UserStops, SInv, IInv, Shape
    <2> QED
      BY <1>1, <2>1, BeginsSInv DEF SInv, Threads
  <1>6. CASE \E t \in Threads : StopProceeds(t)
    BY <1>1, <1>6, StopProceedsSInv DEF SInv
  <1>7. CASE Starts(w.channel /\ w.up)
    BY <1>1, <1>7, StartSInv DEF SInv
  <1>8. CASE \E t \in Senders : Sends(t)
    BY <1>1, <1>8, SendSInv DEF SInv
  <1>9. CASE UNCHANGED w
    BY <1>9 DEF SInv, Missing, Carries, Halting, IInv, Shape, Handlers, Closes, Untouched,
                stop_callers
  <1>10. ClientNext =>
            \/ QuietStep
            \/ Connects \/ Fails("Connecting") \/ Fails("Down") \/ DropsBytes \/ Cleanup
            \/ StopCalled \/ UserStops \/ (\E t \in Threads : StopProceeds(t))
            \/ Starts(w.channel /\ w.up) \/ (\E t \in Senders : Sends(t))
    BY Zenon DEF ClientNext, TakesData, Around, QuietStep
  <1> QED
    BY <1>2, <1>3, <1>4, <1>5, <1>6, <1>7, <1>8, <1>9, <1>10

\* A new wrapper satisfies it.
LEMMA InitSInv == ClientInit => SInv
  <1> SUFFICES ASSUME NEW kind \in {"tcp", "uds", "serial", "udp"},
                      NEW injected \in BOOLEAN, NEW batching \in BOOLEAN,
                      w = NewImpl(kind, injected, batching)
               PROVE  Missing /\ Carries /\ Halting
    BY InitInv DEF ClientInit, SInv
  <1>1. /\ w.conn = 1 /\ w.sends = [t \in Senders |-> NoSend]
        /\ w.stops = [t \in Threads |-> "none"]
    BY DEF NewImpl
  <1>2. ~w.up /\ ~w.running /\ ~w.started
    BY DEF NewImpl
  <1>3. NoSend \in SendType /\ NoSend.at = "none" /\ ~NoSend.missed
    BY DEF NoSend, SendType, Waiting
  <1>4. Missing
    BY <1>1, <1>3 DEF Missing, Waiting
  <1> QED
    BY <1>1, <1>2, <1>4 DEF Carries, Halting

\* The invariant says that no send is accepted behind a change it did not see.
LEMMA SInvMissed == SInv => NothingMissed
  BY DEF SInv, Missing, NothingMissed, Waiting

-----------------------------------------------------------------------------
(* The four wrappers.  Each is an instance of its module, whose definitions  *)
(* are expanded together with those it has in common with the others.        *)

Tcp == INSTANCE TcpClientWrapper
Uds == INSTANCE UdsClientWrapper
Port == INSTANCE SerialWrapper
Udp == INSTANCE UdpWrapper

\* The constructors of tcp_client/tcp_client.cc give an initial state of ClientInit.
LEMMA TcpClientInit == Tcp!Init => ClientInit
  <1> SUFFICES ASSUME Tcp!Init  PROVE ClientInit
    OBVIOUS
  <1>1. PICK injected, batching \in BOOLEAN : w = Tcp!NewImpl("tcp", injected, batching)
    BY Zenon DEF Tcp!Init
  <1>2. Tcp!NewImpl("tcp", injected, batching) = NewImpl("tcp", injected, batching)
    BY Zenon DEF Tcp!NewImpl, Tcp!NewGate, Tcp!NoSend, Tcp!Threads, Tcp!Senders, NewImpl, NewGate,
           NoSend, Threads, Senders
  <1> QED
    BY <1>1, <1>2, Zenon DEF ClientInit

\* The handlers and member functions of tcp_client/tcp_client.cc do what ClientNext allows
\* and nothing else.
LEMMA TcpClientNext == Tcp!Next => ClientNext
  BY DEF ClientNext, TakesData, Sends, Tcp!schedule_batch_timer, Tcp!flush_batches,
         Tcp!on_bytes, Tcp!attach_framer_callback, Tcp!on_state, Tcp!on_backpressure, Tcp!start,
         Tcp!stop, Tcp!nonblocking_send, Tcp!wait_for_backpressure_clear, Tcp!blocking_send,
         Tcp!try_send, Tcp!send_blocking, Tcp!send, Tcp!receive_limits, Tcp!setters, Tcp!Io,
         Tcp!Next, Tcp!enter, Tcp!release, Tcp!close, Tcp!open_new_generation, Tcp!admitted,
         Tcp!active_on_this_thread, Tcp!idle, Tcp!NewGate, Tcp!Threads, Tcp!Senders, Tcp!NoSend,
         Tcp!NewImpl, Tcp!stop_callers, Tcp!At, Tcp!Then, Tcp!Return, Tcp!Enter, Tcp!Admits,
         Tcp!Call, Tcp!Alive, Tcp!Admission, Tcp!UserReturns, Tcp!HandlerEnds, Tcp!Invoke,
         Tcp!ClearBatches, Tcp!Batch, Tcp!TimerExpires, Tcp!RunTimer, Tcp!Available, Tcp!Idle,
         Tcp!Missed, Tcp!Disconnect, Tcp!Halt, Tcp!native_write, Tcp!PressureChanges, Tcp!Cleanup,
         Tcp!shutdown_needs_this_thread, Tcp!StopBegins, Tcp!StopRequests, Tcp!StopsChannel,
         Tcp!StopCompletes, Tcp!StopCalled, Tcp!UserStops, Tcp!StopProceeds, Tcp!MayStart,
         Tcp!OpenRun, Tcp!Starts, Tcp!require_stopped_config, Tcp!Configures, Tcp!send_state,
         Tcp!cannot_wait, Tcp!MaySend, Tcp!Accepted, Tcp!Rejected, Tcp!NonblockingSend,
         Tcp!SendReturns, Tcp!BlockingSend, Tcp!immediate, Tcp!poll_write_wait,
         Tcp!ChecksPressure, Tcp!Released, Tcp!FinalAdmission, Tcp!CapacityWait, Tcp!Around,
         Tcp!OnBytes, Tcp!OnState, Tcp!OnPressure, Tcp!OnTimer, Tcp!ScheduleTimer, Tcp!Connects,
         Tcp!Drops, Tcp!Fails, Tcp!Receives, Tcp!Overflows, Tcp!TakesBytes, Tcp!DropsBytes,
         Tcp!DeliversMessage, Tcp!DeliversNone, Tcp!FlushesData, Tcp!FlushesMessages,
         Tcp!Observes, Tcp!Notifies, Tcp!ReportsError, enter, release, close,
         open_new_generation, admitted, active_on_this_thread, idle, NewGate, Threads, Senders,
         NoSend, NewImpl, stop_callers, At, Then, Return, Enter, Admits, Call, Alive, Admission,
         UserReturns, HandlerEnds, Invoke, ClearBatches, Batch, TimerExpires, RunTimer,
         Available, Idle, Missed, Disconnect, Halt, native_write, PressureChanges, Cleanup,
         shutdown_needs_this_thread, StopBegins, StopRequests, StopsChannel, StopCompletes,
         StopCalled, UserStops, StopProceeds, MayStart, OpenRun, Starts, require_stopped_config,
         Configures, send_state, cannot_wait, MaySend, Accepted, Rejected, NonblockingSend,
         SendReturns, BlockingSend, immediate, poll_write_wait, ChecksPressure, Released,
         FinalAdmission, CapacityWait, Around, OnBytes, OnState, OnPressure, OnTimer,
         ScheduleTimer, Connects, Drops, Fails, Receives, Overflows, TakesBytes, DropsBytes,
         DeliversMessage, DeliversNone, FlushesData, FlushesMessages, Observes, Notifies,
         ReportsError

\* IInv is an invariant of the TCP client's wrapper, for any batch size and any number
\* of runs and connections.
THEOREM TcpClientInvariant == Tcp!Spec => []IInv
  BY TcpClientInit, InitInv, TcpClientNext, NextInv, PTL DEF Tcp!Spec

\* The callbacks that the TCP client's wrapper runs hold a lease of the current run, so
\* none runs between the return of a stop() that waited and the next start().
THEOREM TcpClientFenced == Tcp!Spec => []CallbacksFenced
  BY TcpClientInvariant, InvFenced, PTL

\* A send on the TCP client is accepted only if, from its selection to its acceptance, its
\* connection was not lost and no stop() was called.
THEOREM TcpClientNothingMissed == Tcp!Spec => []NothingMissed
  BY TcpClientInit, InitSInv, TcpClientNext, NextSInv, SInvMissed, PTL DEF Tcp!Spec

\* The constructors of uds_client/uds_client.cc give an initial state of ClientInit.
LEMMA UdsClientInit == Uds!Init => ClientInit
  <1> SUFFICES ASSUME Uds!Init  PROVE ClientInit
    OBVIOUS
  <1>1. PICK injected, batching \in BOOLEAN : w = Uds!NewImpl("uds", injected, batching)
    BY Zenon DEF Uds!Init
  <1>2. Uds!NewImpl("uds", injected, batching) = NewImpl("uds", injected, batching)
    BY Zenon DEF Uds!NewImpl, Uds!NewGate, Uds!NoSend, Uds!Threads, Uds!Senders, NewImpl, NewGate,
           NoSend, Threads, Senders
  <1> QED
    BY <1>1, <1>2, Zenon DEF ClientInit

\* The handlers and member functions of uds_client/uds_client.cc do what ClientNext allows
\* and nothing else.
LEMMA UdsClientNext == Uds!Next => ClientNext
  BY DEF ClientNext, TakesData, Sends, Uds!schedule_batch_timer, Uds!flush_batches,
         Uds!on_bytes, Uds!attach_framer_callback, Uds!on_state, Uds!on_backpressure, Uds!start,
         Uds!stop, Uds!nonblocking_send, Uds!wait_for_backpressure_clear, Uds!blocking_send,
         Uds!try_send, Uds!send_blocking, Uds!send, Uds!receive_limits, Uds!setters, Uds!Io,
         Uds!Next, Uds!enter, Uds!release, Uds!close, Uds!open_new_generation, Uds!admitted,
         Uds!active_on_this_thread, Uds!idle, Uds!NewGate, Uds!Threads, Uds!Senders, Uds!NoSend,
         Uds!NewImpl, Uds!stop_callers, Uds!At, Uds!Then, Uds!Return, Uds!Enter, Uds!Admits,
         Uds!Call, Uds!Alive, Uds!Admission, Uds!UserReturns, Uds!HandlerEnds, Uds!Invoke,
         Uds!ClearBatches, Uds!Batch, Uds!TimerExpires, Uds!RunTimer, Uds!Available, Uds!Idle,
         Uds!Missed, Uds!Disconnect, Uds!Halt, Uds!native_write, Uds!PressureChanges, Uds!Cleanup,
         Uds!shutdown_needs_this_thread, Uds!StopBegins, Uds!StopRequests, Uds!StopsChannel,
         Uds!StopCompletes, Uds!StopCalled, Uds!UserStops, Uds!StopProceeds, Uds!MayStart,
         Uds!OpenRun, Uds!Starts, Uds!require_stopped_config, Uds!Configures, Uds!send_state,
         Uds!cannot_wait, Uds!MaySend, Uds!Accepted, Uds!Rejected, Uds!NonblockingSend,
         Uds!SendReturns, Uds!BlockingSend, Uds!immediate, Uds!poll_write_wait,
         Uds!ChecksPressure, Uds!Released, Uds!FinalAdmission, Uds!CapacityWait, Uds!Around,
         Uds!OnBytes, Uds!OnState, Uds!OnPressure, Uds!OnTimer, Uds!ScheduleTimer, Uds!Connects,
         Uds!Drops, Uds!Fails, Uds!Receives, Uds!Overflows, Uds!TakesBytes, Uds!DropsBytes,
         Uds!DeliversMessage, Uds!DeliversNone, Uds!FlushesData, Uds!FlushesMessages,
         Uds!Observes, Uds!Notifies, Uds!ReportsError, enter, release, close,
         open_new_generation, admitted, active_on_this_thread, idle, NewGate, Threads, Senders,
         NoSend, NewImpl, stop_callers, At, Then, Return, Enter, Admits, Call, Alive, Admission,
         UserReturns, HandlerEnds, Invoke, ClearBatches, Batch, TimerExpires, RunTimer,
         Available, Idle, Missed, Disconnect, Halt, native_write, PressureChanges, Cleanup,
         shutdown_needs_this_thread, StopBegins, StopRequests, StopsChannel, StopCompletes,
         StopCalled, UserStops, StopProceeds, MayStart, OpenRun, Starts, require_stopped_config,
         Configures, send_state, cannot_wait, MaySend, Accepted, Rejected, NonblockingSend,
         SendReturns, BlockingSend, immediate, poll_write_wait, ChecksPressure, Released,
         FinalAdmission, CapacityWait, Around, OnBytes, OnState, OnPressure, OnTimer,
         ScheduleTimer, Connects, Drops, Fails, Receives, Overflows, TakesBytes, DropsBytes,
         DeliversMessage, DeliversNone, FlushesData, FlushesMessages, Observes, Notifies,
         ReportsError

\* IInv is an invariant of the UDS client's wrapper, for any batch size and any number
\* of runs and connections.
THEOREM UdsClientInvariant == Uds!Spec => []IInv
  BY UdsClientInit, InitInv, UdsClientNext, NextInv, PTL DEF Uds!Spec

\* The callbacks that the UDS client's wrapper runs hold a lease of the current run, so
\* none runs between the return of a stop() that waited and the next start().
THEOREM UdsClientFenced == Uds!Spec => []CallbacksFenced
  BY UdsClientInvariant, InvFenced, PTL

\* A send on the UDS client is accepted only if, from its selection to its acceptance, its
\* connection was not lost and no stop() was called.
THEOREM UdsClientNothingMissed == Uds!Spec => []NothingMissed
  BY UdsClientInit, InitSInv, UdsClientNext, NextSInv, SInvMissed, PTL DEF Uds!Spec

\* The constructors of serial/serial.cc give an initial state of ClientInit.
LEMMA SerialInit == Port!Init => ClientInit
  <1> SUFFICES ASSUME Port!Init  PROVE ClientInit
    OBVIOUS
  <1>1. PICK injected, batching \in BOOLEAN : w = Port!NewImpl("serial", injected, batching)
    BY Zenon DEF Port!Init
  <1>2. Port!NewImpl("serial", injected, batching) = NewImpl("serial", injected, batching)
    BY Zenon DEF Port!NewImpl, Port!NewGate, Port!NoSend, Port!Threads, Port!Senders, NewImpl,
           NewGate, NoSend, Threads, Senders
  <1> QED
    BY <1>1, <1>2, Zenon DEF ClientInit

\* The handlers and member functions of serial/serial.cc do what ClientNext allows
\* and nothing else.
LEMMA SerialNext == Port!Next => ClientNext
  BY DEF ClientNext, TakesData, Sends, Port!schedule_batch_timer, Port!flush_batches,
         Port!on_bytes, Port!attach_framer_callback, Port!on_state, Port!on_backpressure,
         Port!start, Port!stop, Port!nonblocking_send, Port!wait_for_backpressure_clear,
         Port!blocking_send, Port!try_send, Port!send_blocking, Port!send, Port!receive_limits,
         Port!setters, Port!Io, Port!Next, Port!enter, Port!release, Port!close,
         Port!open_new_generation, Port!admitted, Port!active_on_this_thread, Port!idle,
         Port!NewGate, Port!Threads, Port!Senders, Port!NoSend, Port!NewImpl, Port!stop_callers,
         Port!At, Port!Then, Port!Return, Port!Enter, Port!Admits, Port!Call, Port!Alive,
         Port!Admission, Port!UserReturns, Port!HandlerEnds, Port!Invoke, Port!ClearBatches,
         Port!Batch, Port!TimerExpires, Port!RunTimer, Port!Available, Port!Idle,
         Port!Missed, Port!Disconnect, Port!Halt, Port!native_write, Port!PressureChanges, Port!Cleanup,
         Port!shutdown_needs_this_thread, Port!StopBegins, Port!StopRequests, Port!StopsChannel,
         Port!StopCompletes, Port!StopCalled, Port!UserStops, Port!StopProceeds, Port!MayStart,
         Port!OpenRun, Port!Starts, Port!require_stopped_config, Port!Configures,
         Port!send_state, Port!cannot_wait, Port!MaySend, Port!Accepted, Port!Rejected,
         Port!NonblockingSend, Port!SendReturns, Port!BlockingSend, Port!immediate,
         Port!poll_write_wait, Port!ChecksPressure, Port!Released, Port!FinalAdmission,
         Port!CapacityWait, Port!Around, Port!OnBytes, Port!OnState, Port!OnPressure,
         Port!OnTimer, Port!ScheduleTimer, Port!Connects, Port!Drops, Port!Fails, Port!Receives,
         Port!Overflows, Port!TakesBytes, Port!DropsBytes, Port!DeliversMessage,
         Port!DeliversNone, Port!FlushesData, Port!FlushesMessages, Port!Observes,
         Port!Notifies, Port!ReportsError, enter, release, close, open_new_generation, admitted,
         active_on_this_thread, idle, NewGate, Threads, Senders, NoSend, NewImpl, stop_callers,
         At, Then, Return, Enter, Admits, Call, Alive, Admission, UserReturns, HandlerEnds,
         Invoke, ClearBatches, Batch, TimerExpires, RunTimer, Available, Idle, Missed, Disconnect, Halt,
         native_write, PressureChanges, Cleanup, shutdown_needs_this_thread, StopBegins,
         StopRequests, StopsChannel, StopCompletes, StopCalled, UserStops, StopProceeds,
         MayStart, OpenRun, Starts, require_stopped_config, Configures, send_state, cannot_wait,
         MaySend, Accepted, Rejected, NonblockingSend, SendReturns, BlockingSend, immediate,
         poll_write_wait, ChecksPressure, Released, FinalAdmission, CapacityWait, Around,
         OnBytes, OnState, OnPressure, OnTimer, ScheduleTimer, Connects, Drops, Fails, Receives,
         Overflows, TakesBytes, DropsBytes, DeliversMessage, DeliversNone, FlushesData,
         FlushesMessages, Observes, Notifies, ReportsError

\* IInv is an invariant of the serial port's wrapper, for any batch size and any number
\* of runs and connections.
THEOREM SerialInvariant == Port!Spec => []IInv
  BY SerialInit, InitInv, SerialNext, NextInv, PTL DEF Port!Spec

\* The callbacks that the serial port's wrapper runs hold a lease of the current run, so
\* none runs between the return of a stop() that waited and the next start().
THEOREM SerialFenced == Port!Spec => []CallbacksFenced
  BY SerialInvariant, InvFenced, PTL

\* A send on the serial port is accepted only if, from its selection to its acceptance, its
\* connection was not lost and no stop() was called.
THEOREM SerialNothingMissed == Port!Spec => []NothingMissed
  BY SerialInit, InitSInv, SerialNext, NextSInv, SInvMissed, PTL DEF Port!Spec

\* The constructors of udp/udp.cc give an initial state of ClientInit.
LEMMA UdpInit == Udp!Init => ClientInit
  <1> SUFFICES ASSUME Udp!Init  PROVE ClientInit
    OBVIOUS
  <1>1. PICK injected, batching \in BOOLEAN : w = Udp!NewImpl("udp", injected, batching)
    BY Zenon DEF Udp!Init
  <1>2. Udp!NewImpl("udp", injected, batching) = NewImpl("udp", injected, batching)
    BY Zenon DEF Udp!NewImpl, Udp!NewGate, Udp!NoSend, Udp!Threads, Udp!Senders, NewImpl, NewGate,
           NoSend, Threads, Senders
  <1> QED
    BY <1>1, <1>2, Zenon DEF ClientInit

\* The handlers and member functions of udp/udp.cc do what ClientNext allows
\* and nothing else.
LEMMA UdpNext == Udp!Next => ClientNext
  BY DEF ClientNext, TakesData, Sends, Udp!schedule_batch_timer, Udp!flush_batches,
         Udp!on_bytes, Udp!attach_framer_callback, Udp!on_state, Udp!on_backpressure, Udp!start,
         Udp!stop, Udp!nonblocking_send, Udp!wait_for_backpressure_clear, Udp!blocking_send,
         Udp!try_send, Udp!send_blocking, Udp!send, Udp!receive_limits, Udp!setters, Udp!Io,
         Udp!Next, Udp!DropsDatagram, Udp!enter, Udp!release, Udp!close,
         Udp!open_new_generation, Udp!admitted, Udp!active_on_this_thread, Udp!idle,
         Udp!NewGate, Udp!Threads, Udp!Senders, Udp!NoSend, Udp!NewImpl, Udp!stop_callers,
         Udp!At, Udp!Then, Udp!Return, Udp!Enter, Udp!Admits, Udp!Call, Udp!Alive,
         Udp!Admission, Udp!UserReturns, Udp!HandlerEnds, Udp!Invoke, Udp!ClearBatches,
         Udp!Batch, Udp!TimerExpires, Udp!RunTimer, Udp!Available, Udp!Idle, Udp!Missed, Udp!Disconnect,
         Udp!Halt, Udp!native_write, Udp!PressureChanges, Udp!Cleanup,
         Udp!shutdown_needs_this_thread, Udp!StopBegins, Udp!StopRequests, Udp!StopsChannel,
         Udp!StopCompletes, Udp!StopCalled, Udp!UserStops, Udp!StopProceeds, Udp!MayStart,
         Udp!OpenRun, Udp!Starts, Udp!require_stopped_config, Udp!Configures, Udp!send_state,
         Udp!cannot_wait, Udp!MaySend, Udp!Accepted, Udp!Rejected, Udp!NonblockingSend,
         Udp!SendReturns, Udp!BlockingSend, Udp!immediate, Udp!poll_write_wait,
         Udp!ChecksPressure, Udp!Released, Udp!FinalAdmission, Udp!CapacityWait, Udp!Around,
         Udp!OnBytes, Udp!OnState, Udp!OnPressure, Udp!OnTimer, Udp!ScheduleTimer, Udp!Connects,
         Udp!Drops, Udp!Fails, Udp!Receives, Udp!Overflows, Udp!TakesBytes, Udp!DropsBytes,
         Udp!DeliversMessage, Udp!DeliversNone, Udp!FlushesData, Udp!FlushesMessages,
         Udp!Observes, Udp!Notifies, Udp!ReportsError, enter, release, close,
         open_new_generation, admitted, active_on_this_thread, idle, NewGate, Threads, Senders,
         NoSend, NewImpl, stop_callers, At, Then, Return, Enter, Admits, Call, Alive, Admission,
         UserReturns, HandlerEnds, Invoke, ClearBatches, Batch, TimerExpires, RunTimer,
         Available, Idle, Missed, Disconnect, Halt, native_write, PressureChanges, Cleanup,
         shutdown_needs_this_thread, StopBegins, StopRequests, StopsChannel, StopCompletes,
         StopCalled, UserStops, StopProceeds, MayStart, OpenRun, Starts, require_stopped_config,
         Configures, send_state, cannot_wait, MaySend, Accepted, Rejected, NonblockingSend,
         SendReturns, BlockingSend, immediate, poll_write_wait, ChecksPressure, Released,
         FinalAdmission, CapacityWait, Around, OnBytes, OnState, OnPressure, OnTimer,
         ScheduleTimer, Connects, Drops, Fails, Receives, Overflows, TakesBytes, DropsBytes,
         DeliversMessage, DeliversNone, FlushesData, FlushesMessages, Observes, Notifies,
         ReportsError

\* IInv is an invariant of the UDP socket's wrapper, for any batch size and any number
\* of runs and connections.
THEOREM UdpInvariant == Udp!Spec => []IInv
  BY UdpInit, InitInv, UdpNext, NextInv, PTL DEF Udp!Spec

\* The callbacks that the UDP socket's wrapper runs hold a lease of the current run, so
\* none runs between the return of a stop() that waited and the next start().
THEOREM UdpFenced == Udp!Spec => []CallbacksFenced
  BY UdpInvariant, InvFenced, PTL

\* A send on the UDP channel is accepted only if, from its selection to its acceptance, its
\* connection was not lost and no stop() was called.
THEOREM UdpNothingMissed == Udp!Spec => []NothingMissed
  BY UdpInit, InitSInv, UdpNext, NextSInv, SInvMissed, PTL DEF Udp!Spec

=============================================================================
