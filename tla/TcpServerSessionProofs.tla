----------------------- MODULE TcpServerSessionProofs -----------------------
(***************************************************************************)
(* Safety proofs for TcpServerSession, for every threshold, limit, number  *)
(* of requests and request size.                                           *)
(*                                                                         *)
(* The hard limit is not inductive.  commit_reserved_limit_bytes adds a    *)
(* request's bytes to one counter and takes them from inflight_bytes with  *)
(* a subtraction that saturates, so the sum of the counters would grow if  *)
(* inflight_bytes were smaller than the request.  It never is, because it  *)
(* is the sum of the reservations whose handlers are still on the strand.  *)
(* Reservations states that without a sum: each queued handler is marked   *)
(* with the bytes reserved up to and including it, so the marks climb from *)
(* reserved - inflight_bytes at the head to reserved at the tail.          *)
(*                                                                         *)
(* The second part is about how a TCP or UDS session ends: nothing is      *)
(* offered to the socket once closing_ is set, the outcome of a request is *)
(* final, the close is told exactly once, and backpressure is told as it   *)
(* is.                                                                     *)
(*                                                                         *)
(* The first rests on GatherUsable: do_write checks the life-cycle flags   *)
(* once and then holds submission_mtx_ until it hands over, so they cannot *)
(* change in between.  The second rests on FreshUnused: an admission never *)
(* reuses the entry of an earlier request.                                 *)
(*                                                                         *)
(* For the others, the steps of both sessions are sorted by what they do   *)
(* to the write path: most only queue or finish a handler that is not a    *)
(* write (EventStep), two forbid further writes (StopStep), and those that *)
(* close differ in the ledger they close with (CloseStep).                 *)
(***************************************************************************)
EXTENDS TcpServerSession, UdsServerSession, TLAPS

\* Most steps are first-order; those that need arithmetic, sequences or records of
\* numbers cite SMT.
USE Zenon

PlainBytes(h) == IF h.op = "plain" THEN h.n ELSE 0

\* The marks on the strand account for every reserved byte.
Reservations ==
    /\ inflight_bytes <= reserved
    /\ strand = <<>> => inflight_bytes = 0
    /\ strand # <<>> => /\ strand[Len(strand)].mark = reserved
                        /\ strand[1].mark = reserved - inflight_bytes + PlainBytes(strand[1])
    /\ \A i \in 1 .. Len(strand) : i > 1 =>
          strand[i].mark = strand[i - 1].mark + PlainBytes(strand[i])
    /\ \A i, j \in 1 .. Len(strand) : i <= j => strand[i].mark <= strand[j].mark

\* The handler of a write knows its request, and the handler being committed is
\* a plain write at the head of the strand whose decision is not a refusal.
HandlersOK ==
    /\ \A i \in 1 .. Len(strand) :
          strand[i].op \in {"plain", "try"} => strand[i].id \in Requests
    /\ pc = "commit" => /\ strand # <<>>
                        /\ strand[1].op = "plain"
                        /\ decision \in {"Immediate", "Pending"}

\* The inductive invariant.
IInv == TypeOK /\ Reservations /\ HandlersOK /\ HardLimit /\ AcceptedNotRejected

-----------------------------------------------------------------------------
\* The three bounds the constructor computes are natural numbers.
LEMMA BoundsType == bp_high \in Nat /\ bp_low \in Nat /\ bp_limit \in Nat
  BY SessionAssumption, SMT DEF bp_high, bp_low, bp_limit

\* What a concatenation holds, by position.
LEMMA ConcatAt ==
  ASSUME NEW S, NEW s \in Seq(S), NEW t \in Seq(S)
  PROVE  /\ s \o t \in Seq(S) /\ Len(s \o t) = Len(s) + Len(t)
         /\ \A i \in 1 .. Len(s) : (s \o t)[i] = s[i]
         /\ \A i \in 1 .. Len(t) : (s \o t)[Len(s) + i] = t[i]
  BY SMT

\* Sequences with the same elements are the same.
LEMMA SameSeq ==
  ASSUME NEW S, NEW s \in Seq(S), NEW t \in Seq(S), Len(s) = Len(t),
         \A i \in 1 .. Len(s) : s[i] = t[i]
  PROVE  s = t
  BY SMT

\* A sequence that is not empty has a first element.
LEMMA NonEmptyLen ==
  ASSUME NEW S, NEW s \in Seq(S), s # <<>>
  PROVE  Len(s) \in Nat /\ Len(s) >= 1 /\ 1 \in 1 .. Len(s) /\ Head(s) = s[1] /\ s[1] \in S
  BY SMT

\* A sequence is empty when its length is zero.
LEMMA EmptyLen ==
  ASSUME NEW S, NEW s \in Seq(S)
  PROVE  s = <<>> <=> Len(s) = 0
  BY SMT

\* Sequences are closed under concatenation, and the empty one is a sequence.
LEMMA ConcatSeq ==
  ASSUME NEW S, NEW s \in Seq(S), NEW t \in Seq(S)
  PROVE  s \o t \in Seq(S) /\ <<>> \in Seq(S)
  BY SMT

\* The ledger operations map fates to fates.
LEMMA LedgerFates ==
  ASSUME NEW f \in [Requests -> Fates], NEW cause, NEW items, NEW k
  PROVE  /\ LedgerEnd(f, cause) \in [Requests -> Fates]
         /\ LedgerBegin(f, items) \in [Requests -> Fates]
         /\ LedgerComplete(f, items, k) \in [Requests -> Fates]
  BY DEF LedgerEnd, LedgerBegin, LedgerComplete, Fates, Terminated

\* The reservation of the handler at the head of the strand is still counted.
LEMMA HeadReserved ==
  ASSUME TypeOK, Reservations, strand # <<>>
  PROVE  /\ PlainBytes(strand[1]) \in Nat
         /\ PlainBytes(strand[1]) <= inflight_bytes
  <1>1. Len(strand) \in Nat /\ 1 <= Len(strand) /\ strand[1] \in Handlers
    BY SMT DEF TypeOK, StrandType
  <1>2. strand[1].mark <= reserved
    BY <1>1, SMT DEF Reservations
  <1>3. PlainBytes(strand[1]) \in Nat
    BY <1>1 DEF PlainBytes, Handlers
  <1>4. QED
    BY <1>1, <1>2, <1>3, SMT DEF Reservations, TypeOK, CountersType, OutcomesType, Handlers

\* Queueing a handler that carries the new total keeps the marks in order.
LEMMA PostKeepsReservations ==
  ASSUME TypeOK, Reservations,
         NEW h \in Handlers,
         strand' = Append(strand, h),
         h.mark = reserved',
         reserved' = reserved + PlainBytes(h),
         inflight_bytes' = inflight_bytes + PlainBytes(h)
  PROVE  Reservations'
  <1>1. /\ strand \in Seq(Handlers) /\ Len(strand) \in Nat
        /\ strand' \in Seq(Handlers) /\ Len(strand') = Len(strand) + 1
        /\ strand'[Len(strand')] = h
        /\ \A i \in 1 .. Len(strand) : strand'[i] = strand[i]
        /\ reserved \in Nat /\ inflight_bytes \in Nat
    BY SMT DEF TypeOK, StrandType, CountersType, OutcomesType
  <1>2. PlainBytes(h) \in Nat
    BY DEF PlainBytes, Handlers
  <1>3. \A i \in 1 .. Len(strand) : strand[i].mark \in Nat /\ strand[i].mark <= reserved
    <2>1. SUFFICES ASSUME NEW i \in 1 .. Len(strand)
                   PROVE  strand[i].mark \in Nat /\ strand[i].mark <= reserved
      OBVIOUS
    <2>2. strand # <<>> /\ Len(strand) \in 1 .. Len(strand) /\ i <= Len(strand)
      BY <1>1, SMT
    <2>3. strand[i] \in Handlers
      BY <1>1, SMT
    <2>4. strand[i].mark <= strand[Len(strand)].mark
      BY <2>2 DEF Reservations
    <2>5. QED
      BY <2>2, <2>3, <2>4 DEF Reservations, Handlers
  <1>4. strand' # <<>>
    BY <1>1, SMT
  <1>5. strand'[Len(strand')].mark = reserved'
    BY <1>1
  <1>6. strand'[1].mark = reserved' - inflight_bytes' + PlainBytes(strand'[1])
    <2>1. CASE strand = <<>>
      BY <2>1, <1>1, <1>2, SMT DEF Reservations
    <2>2. CASE strand # <<>>
      <3>0. 1 \in 1 .. Len(strand)
        BY <2>2, <1>1, NonEmptyLen
      <3>1. strand'[1] = strand[1]
        BY <3>0, <1>1
      <3>2. PlainBytes(strand[1]) \in Nat
        <4>1. strand[1] \in Handlers
          BY <3>0, <1>1, SMT
        <4>2. QED
          BY <4>1 DEF PlainBytes, Handlers
      <3>3. QED
        BY <2>2, <3>1, <3>2, <1>1, <1>2, SMT DEF Reservations
    <2>3. QED
      BY <2>1, <2>2
  <1>7. \A i \in 1 .. Len(strand') : i > 1 =>
           strand'[i].mark = strand'[i - 1].mark + PlainBytes(strand'[i])
    <2>1. SUFFICES ASSUME NEW i \in 1 .. Len(strand'), i > 1
                   PROVE  strand'[i].mark = strand'[i - 1].mark + PlainBytes(strand'[i])
      OBVIOUS
    <2>2. CASE i <= Len(strand)
      <3>1. strand'[i] = strand[i] /\ strand'[i - 1] = strand[i - 1]
        BY <2>1, <2>2, <1>1, SMT
      <3>2. QED
        BY <2>1, <2>2, <3>1, <1>1, SMT DEF Reservations
    <2>3. CASE i = Len(strand) + 1
      <3>1. strand'[i] = h /\ strand'[i - 1] = strand[Len(strand)] /\ strand # <<>>
        BY <2>1, <2>3, <1>1, SMT
      <3>2. strand[Len(strand)].mark = reserved
        BY <3>1 DEF Reservations
      <3>3. QED
        BY <3>1, <3>2
    <2>4. QED
      BY <2>1, <2>2, <2>3, <1>1, SMT
  <1>8. \A i, j \in 1 .. Len(strand') : i <= j => strand'[i].mark <= strand'[j].mark
    <2>1. SUFFICES ASSUME NEW i \in 1 .. Len(strand'), NEW j \in 1 .. Len(strand'), i <= j
                   PROVE  strand'[i].mark <= strand'[j].mark
      OBVIOUS
    <2>2. CASE j <= Len(strand)
      BY <2>1, <2>2, <1>1, SMT DEF Reservations
    <2>3. CASE j = Len(strand) + 1 /\ i <= Len(strand)
      BY <2>1, <2>3, <1>1, <1>2, <1>3, SMT
    <2>4. CASE i = Len(strand) + 1 /\ j = Len(strand) + 1
      BY <2>4, <1>1, <1>2, SMT
    <2>5. QED
      BY <2>1, <2>2, <2>3, <2>4, <1>1, SMT
  <1>9. inflight_bytes' <= reserved'
    BY <1>1, <1>2, SMT DEF Reservations
  <1>10. QED
    BY <1>4, <1>5, <1>6, <1>7, <1>8, <1>9 DEF Reservations

\* Finishing the handler at the head, and taking its reservation out of
\* inflight_bytes, keeps the marks in order.
LEMMA PopKeepsReservations ==
  ASSUME TypeOK, Reservations, strand # <<>>,
         strand' = Tail(strand),
         reserved' = reserved,
         inflight_bytes' = inflight_bytes - PlainBytes(strand[1])
  PROVE  Reservations'
  <1> DEFINE n == Len(strand)
  <1>1. /\ strand \in Seq(Handlers) /\ n \in Nat /\ n >= 1
        /\ strand' \in Seq(Handlers) /\ Len(strand') = n - 1
        /\ \A i \in 1 .. Len(strand') : strand'[i] = strand[i + 1]
        /\ reserved \in Nat /\ inflight_bytes \in Nat
    BY NonEmptyLen, SMT DEF TypeOK, StrandType, CountersType, OutcomesType
  <1>2. /\ PlainBytes(strand[1]) \in Nat
        /\ PlainBytes(strand[1]) <= inflight_bytes
    BY HeadReserved
  <1>3. \A i \in 1 .. n : strand[i] \in Handlers /\ PlainBytes(strand[i]) \in Nat
    <2>1. \A i \in 1 .. n : strand[i] \in Handlers
      BY <1>1, SMT
    <2>2. \A h \in Handlers : PlainBytes(h) \in Nat
      BY DEF PlainBytes, Handlers
    <2>3. QED
      BY <2>1, <2>2
  <1>4. strand[1].mark = reserved - inflight_bytes + PlainBytes(strand[1])
    BY DEF Reservations
  <1>5. ASSUME strand' = <<>> PROVE inflight_bytes' = 0
    <2>0. Len(strand') = 0
      BY <1>5, <1>1, EmptyLen
    <2>1. n = 1
      BY <1>1, <2>0, SMT
    <2>2. strand[1].mark = reserved
      BY <2>1 DEF Reservations
    <2>3. QED
      BY <1>1, <1>2, <1>4, <2>2, SMT
  <1>6. ASSUME strand' # <<>>
        PROVE  /\ strand'[Len(strand')].mark = reserved'
               /\ strand'[1].mark = reserved' - inflight_bytes' + PlainBytes(strand'[1])
    <2>0. Len(strand') >= 1
      BY <1>1, <1>6, NonEmptyLen
    <2>1. n >= 2 /\ Len(strand') \in 1 .. Len(strand') /\ 1 \in 1 .. Len(strand')
      BY <1>1, <2>0, SMT
    <2>2. strand'[Len(strand')] = strand[n] /\ strand'[1] = strand[2]
      BY <1>1, <2>1, SMT
    <2>3. strand[n].mark = reserved
      BY DEF Reservations
    <2>4. strand[2].mark = strand[1].mark + PlainBytes(strand[2])
      BY <2>1, <1>1, SMT DEF Reservations
    <2>5. PlainBytes(strand[2]) \in Nat
      BY <2>1, <1>1, <1>3, SMT
    <2>6. strand[2].mark =
             reserved - (inflight_bytes - PlainBytes(strand[1])) + PlainBytes(strand[2])
      BY <1>1, <1>2, <1>4, <2>4, <2>5, SMT
    <2>7. QED
      BY <2>2, <2>3, <2>6
  <1>7. \A i \in 1 .. Len(strand') : i > 1 =>
           strand'[i].mark = strand'[i - 1].mark + PlainBytes(strand'[i])
    <2>1. SUFFICES ASSUME NEW i \in 1 .. Len(strand'), i > 1
                   PROVE  strand'[i].mark = strand'[i - 1].mark + PlainBytes(strand'[i])
      OBVIOUS
    <2>2. strand'[i] = strand[i + 1] /\ strand'[i - 1] = strand[i] /\ i + 1 \in 1 .. n
      BY <2>1, <1>1, SMT
    <2>0. \A k \in 1 .. Len(strand) : k > 1 =>
             strand[k].mark = strand[k - 1].mark + PlainBytes(strand[k])
      BY DEF Reservations
    <2>6. i + 1 \in 1 .. Len(strand) /\ i + 1 > 1
      BY <2>1, <2>2, <1>1, SMT
    <2>3. strand[i + 1].mark = strand[(i + 1) - 1].mark + PlainBytes(strand[i + 1])
      BY <2>0, <2>6
    <2>4. (i + 1) - 1 = i
      BY <1>1, SMT
    <2>5. QED
      BY <2>2, <2>3, <2>4
  <1>8. \A i, j \in 1 .. Len(strand') : i <= j => strand'[i].mark <= strand'[j].mark
    BY <1>1, SMT DEF Reservations
  <1>9. inflight_bytes' <= reserved'
    BY <1>1, <1>2, SMT DEF Reservations
  <1>10. QED
    BY <1>5, <1>6, <1>7, <1>8, <1>9 DEF Reservations

\* Queueing and finishing handlers keeps what is known of them.
LEMMA PostKeepsHandlers ==
  ASSUME TypeOK, HandlersOK, NEW h \in Handlers,
         h.op \in {"plain", "try"} => h.id \in Requests,
         strand' = Append(strand, h), UNCHANGED <<pc, decision>>
  PROVE  HandlersOK'
  <1>1. /\ strand \in Seq(Handlers) /\ Len(strand) \in Nat
        /\ Len(strand') = Len(strand) + 1 /\ strand'[Len(strand')] = h
        /\ \A i \in 1 .. Len(strand) : strand'[i] = strand[i]
    BY SMT DEF TypeOK, StrandType
  <1>2. ASSUME NEW i \in 1 .. Len(strand'), strand'[i].op \in {"plain", "try"}
        PROVE  strand'[i].id \in Requests
    <2>1. CASE i <= Len(strand)
      BY <1>1, <1>2, <2>1, SMT DEF HandlersOK
    <2>2. CASE i = Len(strand')
      BY <1>1, <1>2, <2>2
    <2>3. QED
      BY <1>1, <2>1, <2>2, SMT
  <1>3. strand' # <<>>
    BY <1>1, SMT
  <1>4. ASSUME pc' = "commit"
        PROVE  strand'[1].op = "plain" /\ decision' \in {"Immediate", "Pending"}
    <2>1. strand # <<>> /\ strand[1].op = "plain" /\ decision \in {"Immediate", "Pending"}
      BY <1>4 DEF HandlersOK
    <2>2. strand'[1] = strand[1]
      BY <1>1, <2>1, NonEmptyLen
    <2>3. QED
      BY <2>1, <2>2
  <1>5. QED
    BY <1>2, <1>3, <1>4 DEF HandlersOK

\* Finishing the handler at the front keeps the facts about the others: each
\* posted plain or try handler still names a request.
LEMMA PopKeepsHandlers ==
  ASSUME TypeOK, HandlersOK, strand # <<>>, strand' = Tail(strand), pc' # "commit"
  PROVE  HandlersOK'
  <1>1. /\ Len(strand) \in Nat /\ Len(strand) >= 1 /\ Len(strand') = Len(strand) - 1
        /\ \A i \in 1 .. Len(strand') : strand'[i] = strand[i + 1]
    BY NonEmptyLen, SMT DEF TypeOK, StrandType
  <1>2. ASSUME NEW i \in 1 .. Len(strand'), strand'[i].op \in {"plain", "try"}
        PROVE  strand'[i].id \in Requests
    <2>1. i + 1 \in 1 .. Len(strand) /\ strand'[i] = strand[i + 1]
      BY <1>1, SMT
    <2>2. QED
      BY <1>2, <2>1 DEF HandlersOK
  <1>3. QED
    BY <1>2 DEF HandlersOK

-----------------------------------------------------------------------------
(* Types.  A step that leaves a group of variables alone keeps its type, so  *)
(* the proof of each action deals with the groups the action writes to.      *)

\* The frame rule for types, one conjunct per group of variables.
LEMMA Frame ==
  ASSUME TypeOK
  PROVE  /\ UNCHANGED life => LifeType'
         /\ UNCHANGED counters => CountersType'
         /\ UNCHANGED queues => QueuesType'
         /\ UNCHANGED write => WriteType'
         /\ UNCHANGED strand => StrandType'
         /\ UNCHANGED control => ControlType'
         /\ UNCHANGED <<io, idle>> => IoType'
         /\ UNCHANGED observers => ObserversType'
         /\ UNCHANGED <<accepted, fate, wire, reserved>> => OutcomesType'
  <1>1. UNCHANGED life => LifeType'
    BY DEF TypeOK, life, LifeType
  <1>2. UNCHANGED counters => CountersType'
    BY DEF TypeOK, counters, CountersType
  <1>3. UNCHANGED queues => QueuesType'
    BY DEF TypeOK, queues, QueuesType
  <1>4. UNCHANGED write => WriteType'
    BY DEF TypeOK, write, WriteType
  <1>5. UNCHANGED strand => StrandType'
    BY DEF TypeOK, StrandType
  <1>6. UNCHANGED control => ControlType'
    BY DEF TypeOK, control, ControlType
  <1>7. UNCHANGED <<io, idle>> => IoType'
    BY DEF TypeOK, IoType
  <1>8. UNCHANGED observers => ObserversType'
    BY DEF TypeOK, observers, ObserversType
  <1>9. UNCHANGED <<accepted, fate, wire, reserved>> => OutcomesType'
    BY DEF TypeOK, OutcomesType
  <1>10. QED
    BY <1>1, <1>2, <1>3, <1>4, <1>5, <1>6, <1>7, <1>8, <1>9

\* Queueing a handler.
LEMMA PostType ==
  ASSUME StrandType, NEW op \in HandlerOps, NEW id \in Requests \cup {0},
         NEW n \in Nat, NEW mark \in Nat, Post(Handler(op, id, n, mark))
  PROVE  StrandType' /\ Handler(op, id, n, mark) \in Handlers
  <1>1. Handler(op, id, n, mark) \in Handlers
    BY DEF Handler, Handlers
  <1>2. QED
    BY <1>1, SMT DEF Post, StrandType

\* Finishing a handler.
LEMMA PopType ==
  ASSUME StrandType, strand # <<>>, strand' = Tail(strand)
  PROVE  StrandType' /\ Head(strand) \in Handlers /\ Head(strand) = strand[1]
  BY NonEmptyLen, SMT DEF StrandType

\* The cause that ends a wait is one of the two the code gives.
LEMMA FirstCauseType ==
  ASSUME LifeType
  PROVE  /\ FirstCause("NotReady") \in {NoCause, "CancelledWhileWaiting", "NotReady"}
         /\ FirstCause("CancelledWhileWaiting")
              \in {NoCause, "CancelledWhileWaiting", "NotReady"}
  BY DEF LifeType, FirstCause

\* do_close.
LEMMA CloseType ==
  ASSUME TypeOK, NEW f \in [Requests -> Fates], NEW cb \in BOOLEAN,
         do_close(f, cb), UNCHANGED <<inflight_bytes, stopped>>
  PROVE  /\ LifeType' /\ CountersType' /\ QueuesType' /\ ObserversType'
         /\ idle' \in {"off", "armed", "due"}
         /\ fate' \in [Requests -> Fates]
  <1>1. LifeType'
    BY FirstCauseType DEF do_close, TypeOK, LifeType, life
  <1>2. /\ queue_bytes' \in {queue_bytes, 0} /\ pending_bytes' \in {pending_bytes, 0}
        /\ tx' \in {tx, <<>>} /\ pending' \in {pending, <<>>}
    BY DEF do_close, queues
  <1>3. backpressure_active' \in BOOLEAN
    BY DEF do_close, TypeOK, CountersType
  <1>4. CountersType'
    BY <1>2, <1>3, SMT DEF TypeOK, CountersType
  <1>5. QueuesType'
    BY <1>2, ConcatSeq DEF TypeOK, QueuesType
  <1>6. callbacks' \in BOOLEAN /\ told' \in BOOLEAN
    BY DEF do_close, TypeOK, ObserversType
  <1>7. close_calls' \in {close_calls, close_calls + 1}
    BY DEF do_close
  <1>8. ObserversType'
    BY <1>6, <1>7, SMT DEF TypeOK, ObserversType
  <1>9. idle' \in {"off", "armed", "due"}
    BY DEF do_close, TypeOK, IoType
  <1>10. fate' \in [Requests -> Fates]
    BY LedgerFates DEF do_close
  <1>11. QED
    BY <1>1, <1>4, <1>5, <1>8, <1>9, <1>10

\* report_backpressure.
LEMMA ReportType ==
  ASSUME TypeOK, NEW queued, NEW next \in PCs, report_backpressure(queued, next),
         UNCHANGED <<callbacks, close_calls, stopped>>
  PROVE  /\ queue_bytes' \in Nat /\ pending_bytes' \in Nat
         /\ backpressure_active' \in BOOLEAN
         /\ QueuesType' /\ ObserversType'
         /\ pc' \in PCs
  <1>1. \/ UNCHANGED <<queue_bytes, pending_bytes, tx, pending>>
        \/ /\ tx' = tx \o pending /\ pending' = <<>>
           /\ queue_bytes' = queue_bytes + pending_bytes /\ pending_bytes' = 0
    BY DEF report_backpressure, queues
  <1>2. queue_bytes' \in Nat /\ pending_bytes' \in Nat
    BY <1>1, SMT DEF TypeOK, CountersType
  <1>3. QueuesType'
    BY <1>1, ConcatSeq DEF TypeOK, QueuesType
  <1>4. backpressure_active' \in BOOLEAN
    BY DEF report_backpressure, TypeOK, CountersType
  <1>5. ObserversType'
    BY DEF report_backpressure, TypeOK, ObserversType
  <1>6. pc' \in PCs
    BY DEF report_backpressure, PCs
  <1>7. QED
    BY <1>2, <1>3, <1>4, <1>5, <1>6

\* Queueing a handler that carries nothing.
LEMMA PostEventType ==
  ASSUME TypeOK, NEW op \in HandlerOps, PostEvent(op)
  PROVE  StrandType'
  <1>1. reserved \in Nat /\ 0 \in Nat /\ 0 \in Requests \cup {0} /\ StrandType
    BY DEF TypeOK, OutcomesType
  <1>2. QED
    BY <1>1, PostType DEF PostEvent

\* A socket operation completes.
LEMMA CompleteType ==
  ASSUME TypeOK, NEW op \in HandlerOps, NEW n \in Nat, NEW which,
         Complete(which, Handler(op, 0, n, reserved))
  PROVE  TypeOK'
  <1>1. UNCHANGED <<life, counters, queues, write, control, observers>>
    BY DEF Complete
  <1>2. UNCHANGED <<accepted, fate, wire, reserved>>
    BY DEF Complete
  <1>3. reserved \in Nat /\ 0 \in Requests \cup {0} /\ StrandType
    BY DEF TypeOK, OutcomesType
  <1>4. StrandType'
    BY <1>3, PostType DEF Complete
  <1>5. IoType'
    BY DEF Complete, TypeOK, IoType
  <1>6. QED
    BY <1>1, <1>2, <1>4, <1>5, Frame DEF TypeOK

\* A handler that ran in one step.
LEMMA DoneType ==
  ASSUME TypeOK, strand # <<>>, Done
  PROVE  StrandType' /\ ControlType'
  BY PopType, Frame DEF Done, TypeOK

\* A handler that closes the session or does nothing.
LEMMA CloseOrSkipType ==
  ASSUME TypeOK, strand # <<>>, Done,
         NEW f \in [Requests -> Fates], NEW cb \in BOOLEAN,
         (do_close(f, cb) /\ CloseFrame) \/ Skip,
         WriteType', UNCHANGED io
  PROVE  TypeOK'
  <1>1. StrandType' /\ ControlType'
    BY DoneType
  <1>2. CASE do_close(f, cb) /\ CloseFrame
    <2>1. UNCHANGED <<inflight_bytes, stopped, accepted, wire, reserved>>
      BY <1>2 DEF CloseFrame
    <2>2. /\ LifeType' /\ CountersType' /\ QueuesType' /\ ObserversType'
          /\ idle' \in {"off", "armed", "due"}
          /\ fate' \in [Requests -> Fates]
      BY <1>2, <2>1, CloseType
    <2>3. IoType'
      BY <2>2 DEF TypeOK, IoType
    <2>4. OutcomesType'
      BY <2>1, <2>2 DEF TypeOK, OutcomesType
    <2>5. QED
      BY <1>1, <2>2, <2>3, <2>4 DEF TypeOK
  <1>3. CASE Skip
    <2>1. UNCHANGED <<life, counters, queues, observers>>
      BY <1>3 DEF Skip
    <2>2. UNCHANGED <<accepted, fate, wire, reserved>>
      BY <1>3 DEF Skip
    <2>3. UNCHANGED <<io, idle>>
      BY <1>3 DEF Skip
    <2>4. QED
      BY <1>1, <2>1, <2>2, <2>3, Frame DEF TypeOK
  <1>4. QED
    BY <1>2, <1>3

\* Steps of callers, the owner and the kernel.
LEMMA OutsideType ==
  ASSUME TypeOK, Callers \/ Owner \/ Kernel
  PROVE  TypeOK'
  <1> USE DEF TypeOK
  <1>1. ASSUME NEW n \in 1 .. MaxSize, Write(n)
        PROVE  TypeOK'
    <2>0. n \in Nat /\ accepted + 1 \in Requests /\ reserved + n \in Nat
      BY <1>1, SessionAssumption, SMT DEF Write, Admit, Requests, OutcomesType
    <2>1. UNCHANGED <<life, queues, write, control, <<io, idle>>, observers>>
      BY <1>1 DEF Write, Admit
    <2>2. CountersType'
      <3>1. /\ inflight_bytes' = inflight_bytes + n
            /\ UNCHANGED <<queue_bytes, pending_bytes, backpressure_active>>
        BY <1>1 DEF Write, Admit
      <3>2. QED
        BY <2>0, <3>1, SMT DEF CountersType
    <2>3. StrandType'
      BY <1>1, <2>0, PostType DEF Write, HandlerOps
    <2>4. OutcomesType'
      BY <1>1, <2>0, SMT DEF Write, Admit, OutcomesType, Fates, Requests
    <2>5. QED
      BY <2>1, <2>2, <2>3, <2>4, Frame
  <1>2. ASSUME NEW n \in 1 .. MaxSize, TryWrite(n)
        PROVE  TypeOK'
    <2>0. n \in Nat /\ accepted + 1 \in Requests /\ reserved \in Nat
      BY <1>2, SessionAssumption, SMT DEF TryWrite, Admit, Requests, OutcomesType
    <2>1. UNCHANGED <<life, queues, write, control, <<io, idle>>, observers>>
      BY <1>2 DEF TryWrite, Admit
    <2>2. CountersType'
      <3>1. /\ queue_bytes' = queue_bytes + n
            /\ UNCHANGED <<inflight_bytes, pending_bytes, backpressure_active>>
        BY <1>2 DEF TryWrite, Admit
      <3>2. QED
        BY <2>0, <3>1, SMT DEF CountersType
    <2>3. StrandType'
      BY <1>2, <2>0, PostType DEF TryWrite, HandlerOps
    <2>4. OutcomesType'
      BY <1>2, <2>0, SMT DEF TryWrite, Admit, OutcomesType, Fates, Requests
    <2>5. QED
      BY <2>1, <2>2, <2>3, <2>4, Frame
  <1>3. CASE Start
    <2>1. UNCHANGED <<counters, queues, write, control, <<io, idle>>, observers,
                      <<accepted, fate, wire, reserved>> >>
      BY <1>3 DEF Start
    <2>2. LifeType'
      BY <1>3 DEF Start, LifeType
    <2>3. StrandType'
      BY <1>3, PostEventType DEF Start, HandlerOps
    <2>4. QED
      BY <2>1, <2>2, <2>3, Frame
  <1>4. CASE request_stop
    <2>1. UNCHANGED <<counters, queues, write, strand, control, <<io, idle>> >>
      BY <1>4 DEF request_stop
    <2>2. LifeType'
      BY <1>4, FirstCauseType DEF request_stop, LifeType
    <2>3. OutcomesType'
      BY <1>4, LedgerFates DEF request_stop, OutcomesType
    <2>4. ObserversType'
      BY <1>4 DEF request_stop, ObserversType
    <2>5. QED
      BY <2>1, <2>2, <2>3, <2>4, Frame
  <1>5. CASE cancel_write_wait
    <2>1. UNCHANGED <<counters, queues, write, strand, control, <<io, idle>>, observers,
                      <<accepted, fate, wire, reserved>> >>
      BY <1>5 DEF cancel_write_wait
    <2>2. LifeType'
      BY <1>5, FirstCauseType DEF cancel_write_wait, LifeType
    <2>3. QED
      BY <2>1, <2>2, Frame
  <1>6. CASE async_stop
    <2>1. UNCHANGED <<counters, queues, write, control, <<io, idle>> >>
      BY <1>6 DEF async_stop
    <2>2. LifeType'
      BY <1>6, FirstCauseType DEF async_stop, LifeType
    <2>3. StrandType'
      BY <1>6, PostEventType DEF async_stop, HandlerOps
    <2>4. OutcomesType'
      BY <1>6, LedgerFates DEF async_stop, OutcomesType
    <2>5. ObserversType'
      BY <1>6 DEF async_stop, ObserversType
    <2>6. QED
      BY <2>1, <2>2, <2>3, <2>4, <2>5, Frame
  <1>7. CASE cancel
    <2>1. UNCHANGED <<life, counters, queues, write, control, <<io, idle>>, observers,
                      <<accepted, fate, wire, reserved>> >>
      BY <1>7 DEF cancel
    <2>2. StrandType'
      BY <1>7, PostEventType DEF cancel, HandlerOps
    <2>3. QED
      BY <2>1, <2>2, Frame
  <1>8. CASE CompleteHandshake \/ FailHandshake \/ CompleteRead \/ FailRead
    BY <1>8, CompleteType
       DEF CompleteHandshake, FailHandshake, CompleteRead, FailRead, HandlerOps
  <1>9. CASE CompleteWrite \/ FailWrite
    <2>1. Len(batch) \in Nat /\ \A k \in 0 .. Len(batch) : k \in Nat
      BY SMT DEF WriteType
    <2>2. CASE CompleteWrite
      BY <2>1, <2>2, CompleteType DEF CompleteWrite, HandlerOps
    <2>3. CASE FailWrite
      BY <2>1, <2>3, CompleteType DEF FailWrite, HandlerOps
    <2>4. QED
      BY <1>9, <2>2, <2>3
  <1>10. CASE ExpireIdle
    <2>1. UNCHANGED <<life, counters, queues, write, control, observers,
                      <<accepted, fate, wire, reserved>> >>
      BY <1>10 DEF ExpireIdle
    <2>2. StrandType'
      BY <1>10, PostEventType DEF ExpireIdle, HandlerOps
    <2>3. IoType'
      BY <1>10 DEF ExpireIdle, IoType
    <2>4. QED
      BY <2>1, <2>2, <2>3, Frame
  <1>11. QED
    BY <1>1, <1>2, <1>3, <1>4, <1>5, <1>6, <1>7, <1>8, <1>9, <1>10
       DEF Callers, Owner, Kernel

\* Steps of the strand.
LEMMA StrandStepType ==
  ASSUME TypeOK, HandlersOK, Strand
  PROVE  TypeOK'
  <1> USE DEF TypeOK
  <1>1. CASE RunStart
    <2>1. UNCHANGED <<life, counters, queues, write, observers,
                      <<accepted, fate, wire, reserved>> >>
      BY <1>1 DEF RunStart
    <2>2. StrandType' /\ ControlType'
      BY <1>1, DoneType DEF RunStart, Running
    <2>3. IoType'
      BY <1>1 DEF RunStart, reset_idle_timer, IoType
    <2>4. QED
      BY <2>1, <2>2, <2>3, Frame
  <1>2. CASE RunHandshake
    <2>1. UNCHANGED <<life, counters, queues, write, observers,
                      <<accepted, fate, wire, reserved>> >>
      BY <1>2 DEF RunHandshake
    <2>2. StrandType' /\ ControlType'
      BY <1>2, DoneType DEF RunHandshake, Running
    <2>3. IoType'
      BY <1>2 DEF RunHandshake, reset_idle_timer, IoType
    <2>4. QED
      BY <2>1, <2>2, <2>3, Frame
  <1>3. CASE RunRead
    <2>1. UNCHANGED <<life, counters, queues, write, observers,
                      <<accepted, fate, wire, reserved>> >>
      BY <1>3 DEF RunRead
    <2>2. StrandType' /\ ControlType'
      BY <1>3, DoneType DEF RunRead, Running
    <2>3. IoType'
      BY <1>3 DEF RunRead, reset_idle_timer, IoType
    <2>4. QED
      BY <2>1, <2>2, <2>3, Frame
  <1>4. CASE RunHandshakeFailed \/ RunReadFailed \/ RunIdle
    <2>1. /\ strand # <<>> /\ Done
          /\ (do_close(fate, callbacks) /\ CloseFrame) \/ Skip
          /\ UNCHANGED <<write, io>>
      BY <1>4 DEF RunHandshakeFailed, RunReadFailed, RunIdle, Running
    <2>2. fate \in [Requests -> Fates] /\ callbacks \in BOOLEAN
      BY DEF OutcomesType, ObserversType
    <2>3. QED
      BY <2>1, <2>2, CloseOrSkipType, Frame
  <1>5. CASE RunStop
    <2>1. /\ strand # <<>> /\ Done /\ do_close(fate, FALSE) /\ CloseFrame
          /\ UNCHANGED <<write, io>>
      BY <1>5 DEF RunStop, Running
    <2>2. fate \in [Requests -> Fates] /\ FALSE \in BOOLEAN
      BY DEF OutcomesType
    <2>3. QED
      BY <2>1, <2>2, CloseOrSkipType, Frame
  <1>6. CASE RunCancel
    <2>1. UNCHANGED <<counters, queues, write, observers,
                      <<accepted, fate, wire, reserved>> >>
      BY <1>6 DEF RunCancel
    <2>2. StrandType' /\ ControlType'
      BY <1>6, DoneType DEF RunCancel, Running
    <2>3. LifeType'
      BY <1>6 DEF RunCancel, LifeType
    <2>4. IoType'
      BY <1>6 DEF RunCancel, IoType
    <2>5. QED
      BY <2>1, <2>2, <2>3, <2>4, Frame
  <1>7. CASE RunPlainClosed
    <2>1. UNCHANGED <<life, queues, write, <<io, idle>>, observers,
                      <<accepted, fate, wire, reserved>> >>
      BY <1>7 DEF RunPlainClosed
    <2>2. StrandType' /\ ControlType'
      BY <1>7, DoneType DEF RunPlainClosed, Running
    <2>3. Head(strand).n \in Nat
      BY <1>7, PopType DEF RunPlainClosed, Running, Done, Handlers
    <2>4. /\ inflight_bytes' = release_reserved_limit_bytes(inflight_bytes, Head(strand).n)
          /\ UNCHANGED <<queue_bytes, pending_bytes, backpressure_active>>
      BY <1>7 DEF RunPlainClosed
    <2>5. CountersType'
      BY <2>3, <2>4, SMT DEF release_reserved_limit_bytes, CountersType
    <2>6. QED
      BY <2>1, <2>2, <2>5, Frame
  <1>8. CASE RunPlain
    <2>1. UNCHANGED <<life, counters, queues, write, strand, <<io, idle>>, observers,
                      <<accepted, fate, wire, reserved>> >>
      BY <1>8 DEF RunPlain
    <2>2. ControlType'
      BY <1>8 DEF RunPlain, decide_enqueue, ControlType, PCs
    <2>3. QED
      BY <2>1, <2>2, Frame
  <1>9. CASE Commit
    <2>0. /\ strand # <<>> /\ strand' = Tail(strand) /\ strand[1].op = "plain"
          /\ decision \in {"Immediate", "Pending"}
      BY <1>9 DEF Commit, HandlersOK
    <2>1. UNCHANGED <<life, write, <<io, idle>> >>
      BY <1>9 DEF Commit
    <2>2. StrandType' /\ Head(strand) \in Handlers /\ Head(strand) = strand[1]
      BY <2>0, PopType
    <2>3. Head(strand).id \in Requests
      BY <2>0, <2>2, NonEmptyLen DEF HandlersOK, StrandType
    <2>4. Head(strand).n \in Nat
      BY <2>2 DEF Handlers
    <2>5. Item(Head(strand).id, Head(strand).n, "plain") \in Items
      BY <2>3, <2>4 DEF Item, Items
    <2>6. EnqueueImmediate(Head(strand)) \/ EnqueuePending(Head(strand))
      BY <1>9, <2>0 DEF Commit
    <2>7. UNCHANGED <<backpressure_active, told, fate>>
      BY <2>6 DEF EnqueueImmediate, EnqueuePending
    <2>8. UNCHANGED <<observers, <<accepted, fate, wire, reserved>> >>
      BY <1>9, <2>7 DEF Commit, observers
    <2>9. inflight_bytes' \in Nat
      BY <1>9, <2>4, SMT DEF Commit, release_reserved_limit_bytes, CountersType
    <2>10. /\ queue_bytes' \in {queue_bytes, queue_bytes + Head(strand).n}
           /\ pending_bytes' \in {pending_bytes, pending_bytes + Head(strand).n}
      BY <2>6 DEF EnqueueImmediate, EnqueuePending
    <2>11. CountersType'
      BY <2>4, <2>7, <2>9, <2>10, SMT DEF CountersType
    <2>12. QueuesType'
      <3> DEFINE item == Item(Head(strand).id, Head(strand).n, "plain")
      <3>1. tx' \in {tx, Append(tx, item)} /\ pending' \in {pending, Append(pending, item)}
        BY <2>6 DEF EnqueueImmediate, EnqueuePending
      <3>2. Append(tx, item) \in Seq(Items) /\ Append(pending, item) \in Seq(Items)
        BY <2>5, SMT DEF QueuesType
      <3>3. QED
        BY <3>1, <3>2 DEF QueuesType
    <2>13. pc' \in PCs
      BY <2>6 DEF EnqueueImmediate, EnqueuePending, PCs
    <2>14. ControlType'
      BY <1>9, <2>13 DEF Commit, ControlType
    <2>15. QED
      BY <2>1, <2>2, <2>8, <2>11, <2>12, <2>14, Frame
  <1>10. CASE RunTry
    <2>0. /\ strand # <<>> /\ strand' = Tail(strand) /\ Head(strand).op = "try"
      BY <1>10 DEF RunTry, Running
    <2>1. UNCHANGED <<life, write, <<io, idle>>, observers,
                      <<accepted, fate, wire, reserved>> >>
      BY <1>10 DEF RunTry
    <2>2. StrandType' /\ Head(strand) \in Handlers /\ Head(strand) = strand[1]
      BY <2>0, PopType
    <2>3. Head(strand).id \in Requests
      BY <2>0, <2>2, NonEmptyLen DEF HandlersOK, StrandType
    <2>4. Head(strand).n \in Nat
      BY <2>2 DEF Handlers
    <2>5. Item(Head(strand).id, Head(strand).n, "try") \in Items
      BY <2>3, <2>4 DEF Item, Items
    <2>6. /\ UNCHANGED <<pending_bytes, inflight_bytes, backpressure_active>>
          /\ queue_bytes' \in {queue_bytes,
                               release_reserved_write_bytes(queue_bytes, Head(strand).n)}
      BY <1>10 DEF RunTry
    <2>7. CountersType'
      BY <2>4, <2>6, SMT DEF release_reserved_write_bytes, CountersType
    <2>8. /\ tx' \in {tx, Append(tx, Item(Head(strand).id, Head(strand).n, "try"))}
          /\ pending' = pending
      BY <1>10 DEF RunTry
    <2>9. QueuesType'
      BY <2>5, <2>8, SMT DEF QueuesType
    <2>10. ControlType'
      BY <1>10 DEF RunTry, ControlType, PCs
    <2>11. QED
      BY <2>1, <2>2, <2>7, <2>9, <2>10, Frame
  <1>11. CASE Report
    <2>1. UNCHANGED <<life, write, strand, <<io, idle>>,
                      <<accepted, fate, wire, reserved>> >>
      BY <1>11 DEF Report
    <2>2. UNCHANGED <<inflight_bytes, decision, completing, callbacks, close_calls, stopped>>
      BY <1>11 DEF Report
    <2>3. /\ queue_bytes' \in Nat /\ pending_bytes' \in Nat
          /\ backpressure_active' \in BOOLEAN
          /\ QueuesType' /\ ObserversType' /\ pc' \in PCs
      BY <1>11, <2>2, ReportType DEF Report, PCs
    <2>4. CountersType'
      BY <2>2, <2>3 DEF CountersType
    <2>5. ControlType'
      BY <2>2, <2>3 DEF ControlType
    <2>6. QED
      BY <2>1, <2>3, <2>4, <2>5, Frame
  <1>12. CASE ClearBackpressure \/ RearmBackpressure
    <2>1. UNCHANGED <<life, queues, write, strand, <<io, idle>>,
                      <<accepted, fate, wire, reserved>> >>
      BY <1>12 DEF ClearBackpressure, RearmBackpressure
    <2>2. UNCHANGED <<queue_bytes, pending_bytes, inflight_bytes>>
      BY <1>12 DEF ClearBackpressure, RearmBackpressure
    <2>3. backpressure_active' \in BOOLEAN
      BY <1>12 DEF ClearBackpressure, RearmBackpressure, CountersType
    <2>4. CountersType'
      BY <2>2, <2>3 DEF CountersType
    <2>5. ObserversType'
      BY <1>12 DEF ClearBackpressure, RearmBackpressure, ObserversType
    <2>6. ControlType'
      BY <1>12 DEF ClearBackpressure, RearmBackpressure, ControlType, PCs
    <2>7. QED
      BY <2>1, <2>4, <2>5, <2>6, Frame
  <1>13. CASE DoWrite
    <2>1. UNCHANGED <<life, counters, queues, strand, observers,
                      <<accepted, fate, wire, reserved>> >>
      BY <1>13 DEF DoWrite
    <2>2. /\ batch' \in {batch, <<>>}
          /\ bytes_to_write' \in {bytes_to_write, 0}
      BY <1>13 DEF DoWrite
    <2>3. writing' \in BOOLEAN
      BY <1>13 DEF DoWrite, WriteType
    <2>4. batch' \in Seq(Items)
      BY <2>2, ConcatSeq DEF WriteType
    <2>5. WriteType'
      BY <2>2, <2>3, <2>4, SMT DEF WriteType
    <2>6. ControlType'
      BY <1>13 DEF DoWrite, ControlType, PCs
    <2>7. IoType'
      BY <1>13 DEF DoWrite, IoType, reset_idle_timer
    <2>8. QED
      BY <2>1, <2>5, <2>6, <2>7, Frame
  <1>14. CASE Gather
    <2>1. UNCHANGED <<life, counters, strand, control, <<io, idle>>, observers,
                      <<accepted, fate, wire, reserved>> >>
      BY <1>14 DEF Gather
    <2>2. tx # <<>> /\ tx \in Seq(Items)
      BY <1>14 DEF Gather, GatherMore, QueuesType
    <2>3. Head(tx) \in Items
      BY <2>2, NonEmptyLen
    <2>4. Head(tx).n \in Nat
      BY <2>3 DEF Items
    <2>5. QueuesType'
      BY <1>14, <2>2, SMT DEF Gather, QueuesType
    <2>6. WriteType'
      BY <1>14, <2>3, <2>4, SMT DEF Gather, WriteType
    <2>7. QED
      BY <2>1, <2>5, <2>6, Frame
  <1>15. wire \o Offered(batch) \in Seq([id : Requests, kind : {"plain", "try"}])
    <2>1. Offered(batch) \in Seq([id : Requests, kind : {"plain", "try"}])
      <3>1. batch \in Seq(Items) /\ Len(batch) \in Nat /\ DOMAIN batch = 1 .. Len(batch)
        BY SMT DEF WriteType
      <3>2. \A i \in 1 .. Len(batch) : batch[i] \in Items
        BY <3>1, SMT
      <3>3. \A i \in 1 .. Len(batch) :
               [id |-> batch[i].id, kind |-> batch[i].kind]
                 \in [id : Requests, kind : {"plain", "try"}]
        BY <3>2 DEF Items
      <3>4. QED
        BY <3>1, <3>3, SMT DEF Offered
    <2>2. QED
      BY <2>1, ConcatSeq DEF OutcomesType
  <1>16. CASE BeginBatch
    <2>1. UNCHANGED <<life, counters, queues, write, strand, <<io, idle>>, observers>>
      BY <1>16 DEF BeginBatch
    <2>2. ControlType'
      BY <1>16 DEF BeginBatch, ControlType, PCs
    <2>3. fate' \in [Requests -> Fates]
      BY <1>16, LedgerFates DEF BeginBatch, OutcomesType
    <2>4. OutcomesType'
      BY <1>15, <1>16, <2>3 DEF BeginBatch, OutcomesType
    <2>5. QED
      BY <2>1, <2>2, <2>4, Frame
  <1>17. CASE Handoff
    <2>1. UNCHANGED <<life, counters, queues, write, strand, observers,
                      <<accepted, fate, wire, reserved>> >>
      BY <1>17 DEF Handoff
    <2>2. ControlType'
      BY <1>17 DEF Handoff, ControlType, PCs
    <2>3. IoType'
      BY <1>17 DEF Handoff, IoType
    <2>4. QED
      BY <2>1, <2>2, <2>3, Frame
  <1>18. CASE HandoffThrows
    <2> DEFINE f == LedgerEnd(fate, "loss")
    <2>1. f \in [Requests -> Fates] /\ callbacks \in BOOLEAN
      BY LedgerFates DEF OutcomesType, ObserversType
    <2>2. /\ do_close(f, callbacks)
          /\ UNCHANGED <<inflight_bytes, stopped, accepted, wire, reserved>>
          /\ UNCHANGED <<write, strand, decision, completing, io>>
          /\ pc' = "idle"
      BY <1>18 DEF HandoffThrows, CloseFrame
    <2> HIDE DEF f
    <2>3. /\ LifeType' /\ CountersType' /\ QueuesType' /\ ObserversType'
          /\ idle' \in {"off", "armed", "due"}
          /\ fate' \in [Requests -> Fates]
      BY <2>1, <2>2, CloseType
    <2>4. ControlType'
      BY <2>2 DEF ControlType, PCs
    <2>5. IoType'
      BY <2>2, <2>3 DEF IoType
    <2>6. OutcomesType'
      BY <2>2, <2>3 DEF OutcomesType
    <2>7. QED
      BY <2>2, <2>3, <2>4, <2>5, <2>6, Frame
  <1>19. CASE RunWroteClosed
    <2>1. /\ strand # <<>> /\ Done /\ Skip /\ UNCHANGED io
          /\ batch' = <<>> /\ bytes_to_write' = 0 /\ writing' = writing
      BY <1>19 DEF RunWroteClosed, Running
    <2>2. WriteType'
      BY <2>1, SMT DEF WriteType
    <2>3. fate \in [Requests -> Fates] /\ callbacks \in BOOLEAN
      BY DEF OutcomesType, ObserversType
    <2>4. QED
      BY <2>1, <2>2, <2>3, CloseOrSkipType
  <1>20. CASE RunWrote
    <2>0. strand # <<>> /\ strand' = Tail(strand)
      BY <1>20 DEF RunWrote, Running
    <2>1. UNCHANGED <<life, queues, <<io, idle>>, observers>>
      BY <1>20 DEF RunWrote
    <2>2. StrandType'
      BY <2>0, PopType
    <2>3. /\ queue_bytes' = release_reserved_write_bytes(queue_bytes, bytes_to_write)
          /\ UNCHANGED <<pending_bytes, inflight_bytes, backpressure_active>>
      BY <1>20 DEF RunWrote
    <2>4. CountersType'
      BY <2>3, SMT DEF release_reserved_write_bytes, CountersType, WriteType
    <2>5. batch' = <<>> /\ bytes_to_write' = 0 /\ writing' = writing
      BY <1>20 DEF RunWrote
    <2>6. WriteType'
      BY <2>5, SMT DEF WriteType
    <2>7. ControlType'
      BY <1>20 DEF RunWrote, ControlType, PCs
    <2>8. OutcomesType'
      BY <1>20, LedgerFates DEF RunWrote, OutcomesType
    <2>9. QED
      BY <2>1, <2>2, <2>4, <2>6, <2>7, <2>8, Frame
  <1>21. CASE RunWriteFailed
    <2> DEFINE f == LedgerEnd(LedgerComplete(fate, batch, Head(strand).n), "loss")
    <2>1. f \in [Requests -> Fates] /\ callbacks \in BOOLEAN
      BY LedgerFates DEF OutcomesType, ObserversType
    <2>2. /\ strand # <<>> /\ Done
          /\ do_close(f, callbacks) /\ CloseFrame
          /\ batch' = <<>> /\ bytes_to_write' = 0
          /\ UNCHANGED <<writing, io>>
      BY <1>21 DEF RunWriteFailed, Running
    <2> HIDE DEF f
    <2>3. WriteType'
      BY <2>2, SMT DEF WriteType
    <2>4. QED
      BY <2>1, <2>2, <2>3, CloseOrSkipType
  <1>22. QED
    BY <1>1, <1>2, <1>3, <1>4, <1>5, <1>6, <1>7, <1>8, <1>9, <1>10, <1>11, <1>12,
       <1>13, <1>14, <1>16, <1>17, <1>18, <1>19, <1>20, <1>21 DEF Strand

\* Every step keeps every variable in its type.
LEMMA StepType ==
  ASSUME TypeOK, HandlersOK, [Next]_vars
  PROVE  TypeOK'
  <1>1. CASE UNCHANGED vars
    <2>1. UNCHANGED <<life, counters, queues, write, strand, control, <<io, idle>>,
                      observers, <<accepted, fate, wire, reserved>> >>
      BY <1>1 DEF vars
    <2>2. QED
      BY <2>1, Frame DEF TypeOK
  <1>2. QED
    BY <1>1, OutsideType, StrandStepType DEF Next

-----------------------------------------------------------------------------
(* The inductive invariant.  Safe is what it says beyond the types; a step   *)
(* queues a handler, finishes one, or leaves the strand alone.               *)

Safe == Reservations /\ HandlersOK /\ AcceptedNotRejected

\* A handler without a reservation is queued.
LEMMA PostKeepsSafe ==
  ASSUME TypeOK, Safe, NEW h \in Handlers,
         h.op # "plain", h.op = "try" => h.id \in Requests, h.mark = reserved,
         Post(h), UNCHANGED <<inflight_bytes, reserved, pc, decision>>
  PROVE  Safe'
  <1>1. PlainBytes(h) = 0 /\ reserved \in Nat /\ inflight_bytes \in Nat
    BY DEF PlainBytes, TypeOK, CountersType, OutcomesType
  <1>2. strand' = Append(strand, h)
    BY DEF Post
  <1>3. /\ h.mark = reserved' /\ reserved' = reserved + PlainBytes(h)
        /\ inflight_bytes' = inflight_bytes + PlainBytes(h)
    BY <1>1, SMT
  <1>4. Reservations'
    BY <1>2, <1>3, PostKeepsReservations DEF Safe
  <1>5. HandlersOK'
    BY <1>2, PostKeepsHandlers DEF Safe
  <1>6. QED
    BY <1>4, <1>5 DEF Safe, AcceptedNotRejected

\* A handler without a reservation finishes.
LEMMA PopKeepsSafe ==
  ASSUME TypeOK, Safe, strand # <<>>, Head(strand).op # "plain",
         strand' = Tail(strand), UNCHANGED <<inflight_bytes, reserved, decision>>,
         pc' # "commit"
  PROVE  Safe'
  <1>1. Head(strand) = strand[1]
    BY PopType DEF TypeOK
  <1>2. PlainBytes(strand[1]) = 0 /\ inflight_bytes \in Nat
    BY <1>1 DEF PlainBytes, TypeOK, CountersType
  <1>3. inflight_bytes' = inflight_bytes - PlainBytes(strand[1])
    BY <1>2, SMT
  <1>4. Reservations'
    BY <1>3, PopKeepsReservations DEF Safe
  <1>5. HandlersOK'
    BY PopKeepsHandlers DEF Safe
  <1>6. QED
    BY <1>4, <1>5 DEF Safe, AcceptedNotRejected

\* The strand and its reservations are left alone.
LEMMA QuietKeepsSafe ==
  ASSUME TypeOK, Safe, UNCHANGED <<strand, inflight_bytes, reserved, decision>>,
         pc' = pc \/ pc' # "commit"
  PROVE  Safe'
  BY DEF Safe, Reservations, HandlersOK, AcceptedNotRejected

\* Queueing a handler that carries no request.
LEMMA EventKeepsSafe ==
  ASSUME TypeOK, Safe, NEW op \in HandlerOps \ {"plain", "try"}, NEW n \in Nat,
         Post(Handler(op, 0, n, reserved)),
         UNCHANGED <<inflight_bytes, reserved, pc, decision>>
  PROVE  Safe'
  <1> DEFINE h == Handler(op, 0, n, reserved)
  <1>1. op \in HandlerOps /\ reserved \in Nat /\ 0 \in Requests \cup {0} /\ StrandType
    BY DEF TypeOK, OutcomesType
  <1>2. h \in Handlers
    BY <1>1, PostType
  <1>3. h.op # "plain" /\ h.op # "try" /\ h.mark = reserved
    BY DEF Handler
  <1> HIDE DEF h
  <1>4. Post(h)
    BY DEF h
  <1>5. QED
    BY <1>2, <1>3, <1>4, PostKeepsSafe

\* Steps of callers, the owner and the kernel.
LEMMA OutsideKeepsSafe ==
  ASSUME TypeOK, Safe, Callers \/ Owner \/ Kernel
  PROVE  Safe'
  <1>1. ASSUME NEW n \in 1 .. MaxSize, Write(n)
        PROVE  Safe'
    <2> DEFINE h == Handler("plain", accepted + 1, n, reserved + n)
    <2>0. /\ accepted < MaxRequests
          /\ accepted \in 0 .. MaxRequests /\ reserved \in Nat
      BY <1>1 DEF Write, Admit, TypeOK, OutcomesType
    <2>1. n \in Nat /\ accepted + 1 \in Requests /\ reserved \in Nat /\ reserved + n \in Nat
      BY <2>0, SessionAssumption, SMT DEF Requests
    <2>2. /\ h \in Handlers /\ PlainBytes(h) = n
          /\ h.mark = reserved + n /\ h.id \in Requests
      BY <2>1 DEF Handler, Handlers, HandlerOps, PlainBytes
    <2>3. /\ strand' = Append(strand, h)
          /\ reserved' = reserved + n
          /\ inflight_bytes' = inflight_bytes + n
          /\ UNCHANGED <<pc, decision>>
      BY <1>1 DEF Write, Admit, Post, control
    <2> HIDE DEF h
    <2>4. Reservations'
      BY <2>2, <2>3, PostKeepsReservations DEF Safe
    <2>5. HandlersOK'
      BY <2>2, <2>3, PostKeepsHandlers DEF Safe
    <2>6. QED
      BY <2>3, <2>4, <2>5 DEF Safe, AcceptedNotRejected
  <1>2. ASSUME NEW n \in 1 .. MaxSize, TryWrite(n)
        PROVE  Safe'
    <2> DEFINE h == Handler("try", accepted + 1, n, reserved)
    <2>0. /\ accepted < MaxRequests
          /\ accepted \in 0 .. MaxRequests /\ reserved \in Nat
      BY <1>2 DEF TryWrite, Admit, TypeOK, OutcomesType
    <2>1. n \in Nat /\ accepted + 1 \in Requests /\ reserved \in Nat
      BY <2>0, SessionAssumption, SMT DEF Requests
    <2>2. h \in Handlers /\ h.op # "plain" /\ h.mark = reserved /\ h.id \in Requests
      BY <2>1 DEF Handler, Handlers, HandlerOps
    <2>3. Post(h) /\ UNCHANGED <<inflight_bytes, reserved, pc, decision>>
      BY <1>2 DEF TryWrite, Admit, control
    <2> HIDE DEF h
    <2>4. QED
      BY <2>2, <2>3, PostKeepsSafe
  <1>3. CASE request_stop \/ cancel_write_wait
    BY <1>3, QuietKeepsSafe DEF request_stop, cancel_write_wait, control, counters
  <1>4. CASE Start \/ async_stop \/ cancel \/ ExpireIdle
    <2>1. /\ UNCHANGED <<inflight_bytes, reserved, pc, decision>>
          /\ PostEvent("start") \/ PostEvent("stop") \/ PostEvent("cancel") \/ PostEvent("idle")
      BY <1>4 DEF Start, async_stop, cancel, ExpireIdle, control, counters
    <2>2. {"start", "stop", "cancel", "idle"} \subseteq HandlerOps \ {"plain", "try"}
          /\ 0 \in Nat
      BY DEF HandlerOps
    <2>3. QED
      BY <2>1, <2>2, EventKeepsSafe DEF PostEvent
  <1>5. CASE CompleteHandshake \/ FailHandshake \/ CompleteRead \/ FailRead
               \/ CompleteWrite \/ FailWrite
    <2>1. PICK op \in HandlerOps \ {"plain", "try"}, n \in Nat, which \in {"handshake", "read", "write"} :
             Complete(which, Handler(op, 0, n, reserved))
      <3>1. Len(batch) \in Nat /\ \A k \in 0 .. Len(batch) : k \in Nat
        BY SMT DEF TypeOK, WriteType
      <3>2. {"handshake", "handshake failed", "read", "read failed", "wrote", "write failed"}
               \subseteq HandlerOps \ {"plain", "try"} /\ 0 \in Nat
        BY DEF HandlerOps
      <3>3. QED
        BY <1>5, <3>1, <3>2 DEF CompleteHandshake, FailHandshake, CompleteRead, FailRead,
                         CompleteWrite, FailWrite
    <2>2. /\ Post(Handler(op, 0, n, reserved))
          /\ UNCHANGED <<inflight_bytes, reserved, pc, decision>>
      BY <2>1 DEF Complete, control, counters
    <2>3. QED
      BY <2>2, EventKeepsSafe
  <1>6. QED
    BY <1>1, <1>2, <1>3, <1>4, <1>5 DEF Callers, Owner, Kernel

\* A plain write's handler gives back exactly what was reserved for it: the
\* subtraction does not saturate.
LEMMA ReleaseIsExact ==
  ASSUME TypeOK, Safe, strand # <<>>, Head(strand).op = "plain"
  PROVE  /\ Head(strand) = strand[1] /\ Head(strand).n \in Nat
         /\ PlainBytes(strand[1]) = Head(strand).n
         /\ Head(strand).n <= inflight_bytes
         /\ release_reserved_limit_bytes(inflight_bytes, Head(strand).n)
               = inflight_bytes - Head(strand).n
  <1>1. Head(strand) = strand[1]
    BY NonEmptyLen DEF TypeOK, StrandType
  <1>2. PlainBytes(strand[1]) = Head(strand).n
    BY <1>1 DEF PlainBytes
  <1>3. Head(strand).n \in Nat /\ Head(strand).n <= inflight_bytes
    BY <1>2, HeadReserved DEF Safe
  <1>4. inflight_bytes \in Nat
    BY DEF TypeOK, CountersType
  <1>5. ASSUME NEW b \in Nat, NEW n \in Nat, n <= b
        PROVE  release_reserved_limit_bytes(b, n) = b - n
    BY <1>5, SMT DEF release_reserved_limit_bytes
  <1>6. release_reserved_limit_bytes(inflight_bytes, Head(strand).n)
           = inflight_bytes - Head(strand).n
    BY <1>3, <1>4, <1>5
  <1>7. QED
    BY <1>1, <1>2, <1>3, <1>6

\* Steps of the strand.
LEMMA StrandKeepsSafe ==
  ASSUME TypeOK, Safe, HardLimit, Strand
  PROVE  Safe'
  <1>1. CASE RunStart \/ RunHandshake \/ RunRead \/ RunCancel
    <2>1. /\ strand # <<>> /\ Head(strand).op # "plain" /\ strand' = Tail(strand)
          /\ UNCHANGED <<inflight_bytes, reserved, decision>> /\ pc' # "commit"
      BY <1>1 DEF RunStart, RunHandshake, RunRead, RunCancel, Running, Done, control, counters
    <2>2. QED
      BY <2>1, PopKeepsSafe
  <1>2. CASE RunHandshakeFailed \/ RunReadFailed \/ RunIdle \/ RunStop \/ RunWriteFailed
    <2>1. strand # <<>> /\ Head(strand).op # "plain" /\ Done /\ pc = "idle"
      BY <1>2 DEF RunHandshakeFailed, RunReadFailed, RunIdle, RunStop, RunWriteFailed, Running
    <2>2. CloseFrame \/ Skip
      BY <1>2 DEF RunHandshakeFailed, RunReadFailed, RunIdle, RunStop, RunWriteFailed
    <2>3. /\ strand' = Tail(strand) /\ UNCHANGED <<inflight_bytes, reserved, decision>>
          /\ pc' # "commit"
      BY <2>1, <2>2 DEF Done, CloseFrame, Skip, control, counters
    <2>4. QED
      BY <2>1, <2>3, PopKeepsSafe
  <1>3. CASE RunWroteClosed \/ RunWrote \/ RunTry
    <2>1. /\ strand # <<>> /\ Head(strand).op # "plain" /\ strand' = Tail(strand)
      BY <1>3 DEF RunWroteClosed, RunWrote, RunTry, Running, Done
    <2>2. UNCHANGED <<inflight_bytes, reserved, decision>>
      BY <1>3 DEF RunWroteClosed, RunWrote, RunTry, Skip, Done, control, counters
    <2>3. pc' # "commit"
      BY <1>3 DEF RunWroteClosed, RunWrote, RunTry, Running, Done, control
    <2>4. QED
      BY <2>1, <2>2, <2>3, PopKeepsSafe
  <1>4. CASE RunPlainClosed
    <2>1. /\ strand # <<>> /\ Head(strand).op = "plain" /\ strand' = Tail(strand)
          /\ UNCHANGED <<reserved, decision>> /\ pc' # "commit"
          /\ inflight_bytes' = release_reserved_limit_bytes(inflight_bytes, Head(strand).n)
      BY <1>4 DEF RunPlainClosed, Running, Done, control
    <2>2. inflight_bytes' = inflight_bytes - PlainBytes(strand[1])
      BY <2>1, ReleaseIsExact
    <2>3. Reservations'
      BY <2>1, <2>2, PopKeepsReservations DEF Safe
    <2>4. HandlersOK'
      BY <2>1, PopKeepsHandlers DEF Safe
    <2>5. QED
      BY <2>1, <2>3, <2>4 DEF Safe, AcceptedNotRejected
  <1>5. CASE RunPlain
    <2>1. /\ strand # <<>> /\ Head(strand).op = "plain"
          /\ UNCHANGED <<strand, inflight_bytes, reserved>>
          /\ decision' = decide_enqueue(queue_bytes, pending_bytes, backpressure_active,
                                        Head(strand).n, bp_limit)
      BY <1>5 DEF RunPlain, Running, counters
    <2>2. Head(strand) = strand[1] /\ Head(strand).n \in Nat /\ Head(strand).n <= inflight_bytes
      BY <2>1, ReleaseIsExact
    <2>3. ~(queue_bytes + pending_bytes + Head(strand).n > bp_limit)
      BY <2>2, BoundsType, SMT DEF HardLimit, TypeOK, CountersType
    <2>4. decision' \in {"Immediate", "Pending"}
      BY <2>1, <2>3 DEF decide_enqueue
    <2>5. Reservations'
      BY <2>1 DEF Safe, Reservations
    <2>6. HandlersOK'
      BY <2>1, <2>2, <2>4 DEF Safe, HandlersOK
    <2>7. QED
      BY <2>4, <2>5, <2>6 DEF Safe, AcceptedNotRejected
  <1>6. CASE Commit
    <2>1. strand # <<>> /\ strand[1].op = "plain" /\ decision \in {"Immediate", "Pending"}
      BY <1>6 DEF Commit, Safe, HandlersOK
    <2>2. Head(strand).op = "plain"
      BY <2>1, NonEmptyLen DEF TypeOK, StrandType
    <2>3. /\ strand' = Tail(strand) /\ reserved' = reserved /\ decision' = "none"
          /\ inflight_bytes' = release_reserved_limit_bytes(inflight_bytes, Head(strand).n)
      BY <1>6 DEF Commit
    <2>4. pc' # "commit"
      BY <1>6, <2>1 DEF Commit, EnqueueImmediate, EnqueuePending
    <2>5. inflight_bytes' = inflight_bytes - PlainBytes(strand[1])
      BY <2>1, <2>2, <2>3, ReleaseIsExact
    <2>6. Reservations'
      BY <2>1, <2>3, <2>5, PopKeepsReservations DEF Safe
    <2>7. HandlersOK'
      BY <2>1, <2>3, <2>4, PopKeepsHandlers DEF Safe
    <2>8. QED
      BY <2>3, <2>6, <2>7 DEF Safe, AcceptedNotRejected
  <1>7. CASE Report \/ ClearBackpressure \/ RearmBackpressure
    <2>1. UNCHANGED <<strand, inflight_bytes, reserved, decision>>
      BY <1>7 DEF Report, ClearBackpressure, RearmBackpressure
    <2>2. pc' # "commit"
      BY <1>7 DEF Report, ClearBackpressure, RearmBackpressure, report_backpressure
    <2>3. QED
      BY <2>1, <2>2, QuietKeepsSafe
  <1>8. CASE DoWrite \/ Gather \/ BeginBatch \/ Handoff \/ HandoffThrows
    <2>1. UNCHANGED <<strand, inflight_bytes, reserved, decision>>
      BY <1>8 DEF DoWrite, Gather, BeginBatch, Handoff, HandoffThrows, CloseFrame, counters,
                  control
    <2>2. pc' = pc \/ pc' # "commit"
      BY <1>8 DEF DoWrite, Gather, BeginBatch, Handoff, HandoffThrows, control
    <2>3. QED
      BY <2>1, <2>2, QuietKeepsSafe
  <1>9. QED
    BY <1>1, <1>2, <1>3, <1>4, <1>5, <1>6, <1>7, <1>8 DEF Strand

-----------------------------------------------------------------------------
(* The hard limit.  Only an admission adds bytes; every other step moves     *)
(* them between the counters or takes them away.                             *)

\* do_close empties the queues.
LEMMA CloseLowers ==
  ASSUME TypeOK, NEW f, NEW cb, do_close(f, cb), UNCHANGED inflight_bytes, HardLimit
  PROVE  HardLimit'
  <1>1. \/ queue_bytes' = queue_bytes /\ pending_bytes' = pending_bytes
        \/ queue_bytes' = 0 /\ pending_bytes' = 0
    BY DEF do_close
  <1>2. queue_bytes \in Nat /\ pending_bytes \in Nat /\ inflight_bytes \in Nat
    BY DEF TypeOK, CountersType
  <1>3. QED
    BY <1>1, <1>2, BoundsType, SMT DEF HardLimit

\* Bytes leave the queue.
LEMMA QueueLowers ==
  ASSUME TypeOK, HardLimit, NEW q \in 0 .. queue_bytes, queue_bytes' = q,
         pending_bytes' = pending_bytes, inflight_bytes' = inflight_bytes
  PROVE  HardLimit'
  <1>1. queue_bytes \in Nat /\ pending_bytes \in Nat /\ inflight_bytes \in Nat
    BY DEF TypeOK, CountersType
  <1>2. QED
    BY <1>1, BoundsType, SMT DEF HardLimit

\* No step of the session takes queued, pending and in-flight bytes past
\* bp_limit: reservations check the sum, every other step lowers it or moves
\* bytes between the counters.
LEMMA StepHardLimit ==
  ASSUME TypeOK, Safe, HardLimit, [Next]_vars
  PROVE  HardLimit'
  <1> USE BoundsType DEF TypeOK, CountersType
  <1>1. ASSUME NEW n \in 1 .. MaxSize, Write(n)
        PROVE  HardLimit'
    <2>1. /\ queue_bytes + pending_bytes + inflight_bytes + n <= bp_limit
          /\ inflight_bytes' = inflight_bytes + n
          /\ UNCHANGED <<queue_bytes, pending_bytes>>
      BY <1>1 DEF Write, Admit, try_reserve_limit_bytes
    <2>2. QED
      BY <1>1, <2>1, SMT DEF HardLimit
  <1>2. ASSUME NEW n \in 1 .. MaxSize, TryWrite(n)
        PROVE  HardLimit'
    <2>1. /\ queue_bytes + pending_bytes + inflight_bytes + n <= bp_limit
          /\ queue_bytes' = queue_bytes + n
          /\ UNCHANGED <<inflight_bytes, pending_bytes>>
      BY <1>2 DEF TryWrite, Admit, try_reserve_write_bytes
    <2>2. QED
      BY <1>2, <2>1, SMT DEF HardLimit
  <1>3. CASE UNCHANGED counters
    BY <1>3 DEF counters, HardLimit
  <1>4. ASSUME NEW f, NEW cb, do_close(f, cb), UNCHANGED inflight_bytes
        PROVE  HardLimit'
    BY <1>4, CloseLowers
  <1>5. CASE RunHandshakeFailed \/ RunReadFailed \/ RunIdle
    <2>1. (do_close(fate, callbacks) /\ CloseFrame) \/ Skip
      BY <1>5 DEF RunHandshakeFailed, RunReadFailed, RunIdle
    <2>2. QED
      BY <1>3, <1>4, <2>1 DEF CloseFrame, Skip
  <1>6. CASE RunStop
    BY <1>4, <1>6 DEF RunStop, CloseFrame
  <1>7. CASE RunWriteFailed
    BY <1>4, <1>7 DEF RunWriteFailed, CloseFrame
  <1>8. CASE HandoffThrows
    BY <1>4, <1>8 DEF HandoffThrows, CloseFrame
  <1>9. CASE RunPlainClosed
    <2>1. /\ strand # <<>> /\ Head(strand).op = "plain"
          /\ inflight_bytes' = release_reserved_limit_bytes(inflight_bytes, Head(strand).n)
          /\ UNCHANGED <<queue_bytes, pending_bytes>>
      BY <1>9 DEF RunPlainClosed, Running
    <2>2. Head(strand).n \in Nat /\ inflight_bytes' = inflight_bytes - Head(strand).n
      BY <2>1, ReleaseIsExact
    <2>3. QED
      BY <2>1, <2>2, SMT DEF HardLimit
  <1>10. CASE Commit
    <2>1. strand # <<>> /\ strand[1].op = "plain" /\ decision \in {"Immediate", "Pending"}
      BY <1>10 DEF Commit, Safe, HandlersOK
    <2>2. Head(strand).op = "plain"
      BY <2>1, NonEmptyLen DEF StrandType
    <2>3. /\ Head(strand).n \in Nat /\ Head(strand).n <= inflight_bytes
          /\ inflight_bytes' = inflight_bytes - Head(strand).n
      BY <1>10, <2>1, <2>2, ReleaseIsExact DEF Commit
    <2>4. \/ queue_bytes' = queue_bytes + Head(strand).n /\ pending_bytes' = pending_bytes
          \/ pending_bytes' = pending_bytes + Head(strand).n /\ queue_bytes' = queue_bytes
      BY <1>10, <2>1 DEF Commit, EnqueueImmediate, EnqueuePending
    <2>5. QED
      BY <2>3, <2>4, SMT DEF HardLimit
  <1>11. CASE RunTry
    <2>1. Head(strand).n \in Nat
      <3>1. Head(strand) \in Handlers
        BY <1>11, NonEmptyLen DEF RunTry, Running, StrandType
      <3>2. QED
        BY <3>1 DEF Handlers
    <2>2. /\ UNCHANGED <<pending_bytes, inflight_bytes>>
          /\ queue_bytes' \in {queue_bytes,
                               release_reserved_write_bytes(queue_bytes, Head(strand).n)}
      BY <1>11 DEF RunTry
    <2>3. release_reserved_write_bytes(queue_bytes, Head(strand).n) \in 0 .. queue_bytes
      BY <2>1, SMT DEF release_reserved_write_bytes
    <2>4. queue_bytes' \in 0 .. queue_bytes
      <3>1. queue_bytes \in 0 .. queue_bytes
        BY SMT
      <3>2. QED
        BY <2>2, <2>3, <3>1
    <2>5. pending_bytes' = pending_bytes /\ inflight_bytes' = inflight_bytes
      BY <2>2
    <2>6. QED
      BY <2>4, <2>5, QueueLowers
  <1>12. CASE Report
    <2>1. \/ UNCHANGED <<queue_bytes, pending_bytes>>
          \/ queue_bytes' = queue_bytes + pending_bytes /\ pending_bytes' = 0
      BY <1>12 DEF Report, report_backpressure
    <2>2. inflight_bytes' = inflight_bytes
      BY <1>12 DEF Report
    <2>3. QED
      BY <2>1, <2>2, SMT DEF HardLimit
  <1>13. CASE ClearBackpressure \/ RearmBackpressure
    <2>1. UNCHANGED <<queue_bytes, pending_bytes, inflight_bytes>>
      BY <1>13 DEF ClearBackpressure, RearmBackpressure
    <2>2. QED
      BY <2>1 DEF HardLimit
  <1>14. CASE RunWrote
    <2>1. /\ UNCHANGED <<pending_bytes, inflight_bytes>>
          /\ queue_bytes' = release_reserved_write_bytes(queue_bytes, bytes_to_write)
      BY <1>14 DEF RunWrote
    <2>2. QED
      BY <2>1, SMT DEF release_reserved_write_bytes, HardLimit, WriteType
  <1>15. CASE Owner \/ Kernel \/ UNCHANGED vars
    <2>1. UNCHANGED counters
      BY <1>15 DEF Owner, Start, request_stop, cancel_write_wait, async_stop, cancel,
                   Kernel, CompleteHandshake, FailHandshake, CompleteRead, FailRead,
                   CompleteWrite, FailWrite, Complete, ExpireIdle, vars
    <2>2. QED
      BY <1>3, <2>1
  <1>16. CASE \/ RunStart \/ RunHandshake \/ RunRead \/ RunCancel \/ RunPlain
              \/ DoWrite \/ Gather \/ BeginBatch \/ Handoff \/ RunWroteClosed
    <2>1. UNCHANGED counters
      BY <1>16 DEF RunStart, RunHandshake, RunRead, RunCancel, RunPlain, DoWrite, Gather,
                   BeginBatch, Handoff, RunWroteClosed, Skip
    <2>2. QED
      BY <1>3, <2>1
  <1>17. QED
    BY <1>1, <1>2, <1>5, <1>6, <1>7, <1>8, <1>9, <1>10, <1>11, <1>12, <1>13, <1>14,
       <1>15, <1>16 DEF Next, Callers, Strand

-----------------------------------------------------------------------------
(* The theorems.                                                             *)

\* A newly constructed session satisfies the inductive invariant.
LEMMA InitIInv == Init => IInv
  <1>1. ASSUME Init PROVE TypeOK
    <2>1. LifeType /\ ControlType
      BY <1>1 DEF Init, LifeType, ControlType, PCs
    <2>2. CountersType
      BY <1>1 DEF Init, CountersType
    <2>7. WriteType
      <3>1. batch \in Seq(Items) /\ bytes_to_write \in Nat
        BY <1>1, SMT DEF Init
      <3>2. writing \in BOOLEAN
        BY <1>1 DEF Init
      <3>3. QED
        BY <3>1, <3>2 DEF WriteType
    <2>3. QueuesType /\ StrandType
      BY <1>1, SMT DEF Init, QueuesType, StrandType
    <2>4. IoType /\ ObserversType
      BY <1>1 DEF Init, IoType, ObserversType
    <2>5. OutcomesType
      BY <1>1, SessionAssumption, SMT DEF Init, OutcomesType, Fates
    <2>6. QED
      BY <2>1, <2>2, <2>3, <2>4, <2>5, <2>7 DEF TypeOK
  <1>2. ASSUME Init PROVE Reservations /\ HandlersOK
    BY <1>2, SMT DEF Init, Reservations, HandlersOK
  <1>3. ASSUME Init PROVE HardLimit /\ AcceptedNotRejected
    BY <1>3, BoundsType, SMT DEF Init, HardLimit, AcceptedNotRejected
  <1>4. QED
    BY <1>1, <1>2, <1>3 DEF IInv

\* Every caller, owner, kernel and strand step preserves the inductive
\* invariant.
LEMMA NextIInv == IInv /\ [Next]_vars => IInv'
  <1>1. SUFFICES ASSUME IInv, [Next]_vars PROVE IInv'
    OBVIOUS
  <1>2. TypeOK /\ Safe /\ HardLimit /\ HandlersOK
    BY <1>1 DEF IInv, Safe
  <1>3. TypeOK'
    BY <1>1, <1>2, StepType
  <1>4. Safe'
    <2>1. CASE UNCHANGED vars
      BY <1>2, <2>1, QuietKeepsSafe DEF vars, counters, control
    <2>2. QED
      BY <1>1, <1>2, <2>1, OutsideKeepsSafe, StrandKeepsSafe DEF Next
  <1>5. HardLimit'
    BY <1>1, <1>2, StepHardLimit
  <1>6. QED
    BY <1>3, <1>4, <1>5 DEF IInv, Safe

\* The inductive invariant holds in every reachable state.
THEOREM Invariance == Spec => []IInv
  BY InitIInv, NextIInv, PTL DEF Spec

\* Every variable of a session keeps its type, for every threshold and limit.
THEOREM TypeCorrect == Spec => []TypeOK
  <1>1. IInv => TypeOK
    BY DEF IInv
  <1>2. QED
    BY <1>1, Invariance, PTL

\* try_reserve_limit_bytes and commit_reserved_limit_bytes keep what a session
\* holds for its peer within bp_limit_, whatever callers and strand interleave.
THEOREM HardLimitHolds == Spec => []HardLimit
  <1>1. IInv => HardLimit
    BY DEF IInv
  <1>2. QED
    BY <1>1, Invariance, PTL

\* route_enqueued_buffer never takes its defensive Rejected branch, so a write
\* that was accepted is not dropped for want of room.
THEOREM NeverRejected == Spec => []AcceptedNotRejected
  <1>1. IInv => AcceptedNotRejected
    BY DEF IInv
  <1>2. QED
    BY <1>1, Invariance, PTL

-----------------------------------------------------------------------------
(* How a session ends.                                                     *)

\* While a batch is gathered the session is usable.
GatherUsable == pc = "gather" => Usable

\* Requests not yet accepted have no entry.
FreshUnused == \A r \in Requests : r > accepted => fate[r] = "unused"

Final == Terminated \cup {"written"}

\* What a step may do to the ledger: final entries and unused ones stay.
LedgerKeeps(f, g) ==
    \A r \in Requests : f[r] \in Final \cup {"unused"} => g[r] = f[r]

-----------------------------------------------------------------------------
\* The three ledger operations keep final and unused entries.
LEMMA LedgerOpsKeep ==
  ASSUME NEW f, NEW cause, NEW items, NEW k
  PROVE  /\ LedgerKeeps(f, LedgerEnd(f, cause))
         /\ LedgerKeeps(f, LedgerBegin(f, items))
         /\ LedgerKeeps(f, LedgerComplete(f, items, k))
  <1>1. LedgerKeeps(f, LedgerEnd(f, cause))
    BY DEF LedgerKeeps, LedgerEnd, Final, Terminated
  <1>2. LedgerKeeps(f, LedgerBegin(f, items))
    BY DEF LedgerKeeps, LedgerBegin, Final, Terminated
  <1>3. LedgerKeeps(f, LedgerComplete(f, items, k))
    BY DEF LedgerKeeps, LedgerComplete, Final, Terminated
  <1>4. QED
    BY <1>1, <1>2, <1>3

\* Two ledger operations in a row (complete_batch, then end) keep what each of
\* them keeps.
LEMMA LedgerKeepsTransitive ==
  ASSUME NEW f, NEW g, NEW h, LedgerKeeps(f, g), LedgerKeeps(g, h)
  PROVE  LedgerKeeps(f, h)
  BY DEF LedgerKeeps

\* do_close ends the ledger it is given, or leaves it.
LEMMA CloseKeepsLedger ==
  ASSUME NEW f, NEW cb, LedgerKeeps(fate, f), do_close(f, cb)
  PROVE  LedgerKeeps(fate, fate')
  <1>1. fate' = f \/ fate' = LedgerEnd(f, "loss")
    BY DEF do_close
  <1>2. QED
    BY <1>1, LedgerOpsKeep, LedgerKeepsTransitive, SMT

\* A step that is not an admission keeps final and unused entries.
LEMMA StepKeepsLedger ==
  ASSUME TypeOK, HandlersOK, Owner \/ Kernel \/ Strand \/ UNCHANGED vars
  PROVE  LedgerKeeps(fate, fate') /\ accepted' = accepted
  <1>1. CASE Owner
    <2>1. fate' = fate \/ fate' = LedgerEnd(fate, "stop")
      BY <1>1 DEF Owner, Start, request_stop, cancel_write_wait, async_stop, cancel
    <2>2. accepted' = accepted
      BY <1>1 DEF Owner, Start, request_stop, cancel_write_wait, async_stop, cancel
    <2>3. QED
      BY <2>1, <2>2, LedgerOpsKeep, SMT DEF LedgerKeeps
  <1>2. CASE Kernel \/ UNCHANGED vars
    <2>1. UNCHANGED <<fate, accepted>>
      BY <1>2 DEF Kernel, CompleteHandshake, FailHandshake, CompleteRead, FailRead,
                  CompleteWrite, FailWrite, Complete, ExpireIdle, vars
    <2>2. QED
      BY <2>1 DEF LedgerKeeps
  <1>3. CASE RunHandshakeFailed \/ RunReadFailed \/ RunIdle \/ RunStop
    <2>1. /\ (\E cb : do_close(fate, cb)) \/ fate' = fate
          /\ accepted' = accepted
      BY <1>3 DEF RunHandshakeFailed, RunReadFailed, RunIdle, RunStop, CloseFrame, Skip
    <2>2. LedgerKeeps(fate, fate)
      BY DEF LedgerKeeps
    <2>3. QED
      BY <2>1, <2>2, CloseKeepsLedger
  <1>4. CASE RunWriteFailed
    <2> DEFINE f == LedgerComplete(fate, batch, Head(strand).n)
    <2>1. do_close(LedgerEnd(f, "loss"), callbacks) /\ accepted' = accepted
      BY <1>4 DEF RunWriteFailed, CloseFrame
    <2>2. LedgerKeeps(fate, f) /\ LedgerKeeps(f, LedgerEnd(f, "loss"))
      BY LedgerOpsKeep
    <2> HIDE DEF f
    <2>3. LedgerKeeps(fate, LedgerEnd(f, "loss"))
      BY <2>2, LedgerKeepsTransitive
    <2>4. QED
      BY <2>1, <2>3, CloseKeepsLedger
  <1>5. CASE HandoffThrows
    <2>1. do_close(LedgerEnd(fate, "loss"), callbacks) /\ accepted' = accepted
      BY <1>5 DEF HandoffThrows, CloseFrame
    <2>2. LedgerKeeps(fate, LedgerEnd(fate, "loss"))
      BY LedgerOpsKeep
    <2>3. QED
      BY <2>1, <2>2, CloseKeepsLedger
  <1>6. CASE BeginBatch
    BY <1>6, LedgerOpsKeep DEF BeginBatch
  <1>7. CASE RunWrote
    BY <1>7, LedgerOpsKeep DEF RunWrote
  <1>8. CASE Commit
    <2>1. decision \in {"Immediate", "Pending"}
      BY <1>8 DEF Commit, HandlersOK
    <2>2. UNCHANGED <<fate, accepted>>
      BY <1>8, <2>1 DEF Commit, EnqueueImmediate, EnqueuePending
    <2>3. QED
      BY <2>2 DEF LedgerKeeps
  <1>9. CASE \/ RunStart \/ RunHandshake \/ RunRead \/ RunCancel \/ RunPlainClosed
             \/ RunPlain \/ RunTry \/ Report \/ ClearBackpressure \/ RearmBackpressure
             \/ DoWrite \/ Gather \/ Handoff \/ RunWroteClosed
    <2>1. UNCHANGED <<fate, accepted>>
      BY <1>9 DEF RunStart, RunHandshake, RunRead, RunCancel, RunPlainClosed, RunPlain,
                  RunTry, Report, ClearBackpressure, RearmBackpressure, DoWrite, Gather, Handoff,
                  RunWroteClosed, Skip
    <2>2. QED
      BY <2>1 DEF LedgerKeeps
  <1>10. QED
    BY <1>1, <1>2, <1>3, <1>4, <1>5, <1>6, <1>7, <1>8, <1>9 DEF Strand

\* An admission turns an unused entry into a waiting one and touches no other.
LEMMA AdmitLedger ==
  ASSUME TypeOK, FreshUnused, NEW n \in 1 .. MaxSize, Write(n) \/ TryWrite(n)
  PROVE  /\ \A r \in Requests : fate[r] \in Final => fate'[r] = fate[r]
         /\ FreshUnused'
  <1>1. /\ accepted \in Nat /\ accepted' = accepted + 1 /\ accepted + 1 \in Requests
        /\ fate' = [fate EXCEPT ![accepted + 1] = "waiting"]
    BY SessionAssumption, SMT DEF Write, TryWrite, Admit, Requests, TypeOK, OutcomesType
  <1>2. fate \in [Requests -> Fates]
    BY DEF TypeOK, OutcomesType
  <1>3. fate[accepted + 1] = "unused"
    BY <1>1, SMT DEF FreshUnused, Requests
  <1>4. \A r \in Requests : r # accepted + 1 => fate'[r] = fate[r]
    BY <1>1, <1>2
  <1>5. ASSUME NEW r \in Requests, fate[r] \in Final PROVE fate'[r] = fate[r]
    BY <1>3, <1>4, <1>5 DEF Final, Terminated
  <1>6. ASSUME NEW r \in Requests, r > accepted' PROVE fate'[r] = "unused"
    <2>1. r > accepted /\ r # accepted + 1
      BY <1>1, <1>6, SMT DEF Requests
    <2>2. QED
      BY <1>4, <2>1 DEF FreshUnused
  <1>7. QED
    BY <1>5, <1>6 DEF FreshUnused

\* No step gives an outcome to a request not yet accepted, and none changes an
\* outcome that was already recorded.
LEMMA StepFresh ==
  ASSUME TypeOK, HandlersOK, FreshUnused, [Next]_vars
  PROVE  /\ FreshUnused'
         /\ \A r \in Requests : fate[r] \in Final => fate'[r] = fate[r]
  <1>1. CASE Callers
    BY <1>1, AdmitLedger DEF Callers
  <1>2. CASE Owner \/ Kernel \/ Strand \/ UNCHANGED vars
    BY <1>2, StepKeepsLedger DEF LedgerKeeps, FreshUnused
  <1>3. QED
    BY <1>1, <1>2 DEF Next

\* The first cause of the end of a wait is kept.
LEMMA StepCause ==
  ASSUME HandlersOK, [Next]_vars, wait_ended_by # NoCause
  PROVE  wait_ended_by' = wait_ended_by
  <1>1. \A c : FirstCause(c) = wait_ended_by
    BY DEF FirstCause
  <1>2. \A f, cb : do_close(f, cb) => wait_ended_by' = wait_ended_by
    BY <1>1 DEF do_close, life
  <1>3. CASE Callers
    BY <1>3 DEF Callers, Write, TryWrite, Admit, life
  <1>4. CASE Owner
    BY <1>1, <1>4 DEF Owner, Start, request_stop, cancel_write_wait, async_stop, cancel, life
  <1>5. CASE Kernel \/ UNCHANGED vars
    BY <1>5 DEF Kernel, CompleteHandshake, FailHandshake, CompleteRead, FailRead,
                CompleteWrite, FailWrite, Complete, ExpireIdle, vars, life
  <1>6. CASE \/ RunHandshakeFailed \/ RunReadFailed \/ RunIdle \/ RunStop
             \/ RunWriteFailed \/ HandoffThrows
    <2>1. (\E f, cb : do_close(f, cb)) \/ Skip
      BY <1>6 DEF RunHandshakeFailed, RunReadFailed, RunIdle, RunStop, RunWriteFailed,
                  HandoffThrows
    <2>2. QED
      BY <1>2, <2>1 DEF Skip, life
  <1>7. CASE \/ RunStart \/ RunHandshake \/ RunRead \/ RunCancel \/ RunPlainClosed
             \/ RunPlain \/ Commit \/ RunTry \/ Report \/ ClearBackpressure
             \/ RearmBackpressure \/ DoWrite \/ Gather \/ BeginBatch \/ Handoff \/ RunWroteClosed
             \/ RunWrote
    BY <1>7 DEF RunStart, RunHandshake, RunRead, RunCancel, RunPlainClosed, RunPlain,
                Commit, RunTry, Report, ClearBackpressure, RearmBackpressure, DoWrite,
                Gather, BeginBatch, Handoff, RunWroteClosed, RunWrote, Skip, life
  <1>8. QED
    BY <1>3, <1>4, <1>5, <1>6, <1>7 DEF Next, Strand

\* The life-cycle flags do not change under a gather, which holds the lock.
LEMMA StepGather ==
  ASSUME HandlersOK, GatherUsable, [Next]_vars
  PROVE  GatherUsable'
  <1>1. CASE Callers
    BY <1>1 DEF Callers, Write, TryWrite, Admit, SubmissionFree, control, GatherUsable
  <1>2. CASE Owner
    BY <1>2 DEF Owner, Start, request_stop, cancel_write_wait, async_stop, cancel,
                SubmissionFree, control, life, GatherUsable, Usable
  <1>3. CASE Kernel \/ UNCHANGED vars
    BY <1>3 DEF Kernel, CompleteHandshake, FailHandshake, CompleteRead, FailRead,
                CompleteWrite, FailWrite, Complete, ExpireIdle, vars, life, control,
                GatherUsable, Usable
  <1>4. CASE \/ RunHandshakeFailed \/ RunReadFailed \/ RunIdle \/ RunStop
             \/ RunWriteFailed \/ HandoffThrows
    <2>1. pc' = "idle"
      BY <1>4 DEF RunHandshakeFailed, RunReadFailed, RunIdle, RunStop, RunWriteFailed,
                  HandoffThrows, Running, Done, control
    <2>2. QED
      BY <2>1 DEF GatherUsable
  <1>5. CASE \/ RunStart \/ RunHandshake \/ RunRead \/ RunCancel \/ RunPlainClosed
             \/ RunPlain \/ RunTry \/ BeginBatch \/ Handoff \/ RunWroteClosed \/ RunWrote
    <2>1. pc' # "gather"
      BY <1>5 DEF RunStart, RunHandshake, RunRead, RunCancel, RunPlainClosed, RunPlain,
                  RunTry, BeginBatch, Handoff, RunWroteClosed, RunWrote, Running, Done, control
    <2>2. QED
      BY <2>1 DEF GatherUsable
  <1>6. CASE Commit
    <2>1. decision \in {"Immediate", "Pending"}
      BY <1>6 DEF Commit, HandlersOK
    <2>2. pc' # "gather"
      BY <1>6, <2>1 DEF Commit, EnqueueImmediate, EnqueuePending
    <2>3. QED
      BY <2>2 DEF GatherUsable
  <1>7. CASE Report \/ ClearBackpressure \/ RearmBackpressure
    <2>1. pc' # "gather"
      BY <1>7 DEF Report, ClearBackpressure, RearmBackpressure, report_backpressure
    <2>2. QED
      BY <2>1 DEF GatherUsable
  <1>8. CASE DoWrite
    <2>1. pc' = "gather" => Usable
      BY <1>8 DEF DoWrite
    <2>2. alive' = alive /\ closing' = closing
      BY <1>8 DEF DoWrite, life
    <2>3. QED
      BY <2>1, <2>2 DEF GatherUsable, Usable
  <1>9. CASE Gather
    <2>1. pc' = pc /\ alive' = alive /\ closing' = closing
      BY <1>9 DEF Gather, control, life
    <2>2. QED
      BY <2>1 DEF GatherUsable, Usable
  <1>10. QED
    BY <1>1, <1>2, <1>3, <1>4, <1>5, <1>6, <1>7, <1>8, <1>9 DEF Next, Strand

\* The socket is offered something by a gathering session only.
LEMMA StepWire ==
  ASSUME GatherUsable, HandlersOK, [Next]_vars, closing
  PROVE  wire' = wire
  <1>1. pc # "gather"
    BY DEF GatherUsable, Usable
  <1>2. CASE Callers \/ Owner \/ Kernel \/ UNCHANGED vars
    BY <1>2 DEF Callers, Write, TryWrite, Admit, Owner, Start, request_stop,
                cancel_write_wait, async_stop, cancel, Kernel, CompleteHandshake,
                FailHandshake, CompleteRead, FailRead, CompleteWrite, FailWrite, Complete,
                ExpireIdle, vars
  <1>3. CASE \/ RunHandshakeFailed \/ RunReadFailed \/ RunIdle \/ RunStop \/ RunWriteFailed
             \/ HandoffThrows
    BY <1>3 DEF RunHandshakeFailed, RunReadFailed, RunIdle, RunStop, RunWriteFailed,
                HandoffThrows, CloseFrame, Skip
  <1>4. CASE \/ RunStart \/ RunHandshake \/ RunRead \/ RunCancel \/ RunPlainClosed
             \/ RunPlain \/ Commit \/ RunTry \/ Report \/ ClearBackpressure
             \/ RearmBackpressure \/ DoWrite \/ Gather \/ Handoff \/ RunWroteClosed \/ RunWrote
    BY <1>4 DEF RunStart, RunHandshake, RunRead, RunCancel, RunPlainClosed, RunPlain,
                Commit, RunTry, Report, ClearBackpressure, RearmBackpressure, DoWrite,
                Gather, Handoff, RunWroteClosed, RunWrote, Skip
  <1>5. CASE BeginBatch
    BY <1>1, <1>5 DEF BeginBatch
  <1>6. QED
    BY <1>2, <1>3, <1>4, <1>5 DEF Next, Strand

-----------------------------------------------------------------------------
\* do_write hands nothing to the socket once closing_ is set: request_stop has
\* returned, or a loss was noticed.
THEOREM NoHandoff == Spec => NoHandoffAfterClose
  <1>1. Init => GatherUsable
    BY DEF Init, GatherUsable
  <1>2. IInv /\ GatherUsable /\ [Next]_vars => GatherUsable'
    BY StepGather DEF IInv
  <1>3. IInv /\ GatherUsable /\ [Next]_vars => [closing => wire' = wire]_vars
    BY StepWire DEF IInv
  <1>4. QED
    BY <1>1, <1>2, <1>3, Invariance, PTL DEF Spec, NoHandoffAfterClose

\* The ledger's outcome of a request is never revised, by any order of stops,
\* losses and completions, and a blocked sender is given the first cause.
THEOREM OutcomesAreFinal == Spec => OutcomeIsFinal
  <1>1. Init => FreshUnused
    BY DEF Init, FreshUnused
  <1>2. IInv /\ FreshUnused /\ [Next]_vars => FreshUnused'
    BY StepFresh DEF IInv
  <1>3. IInv /\ FreshUnused /\ [Next]_vars =>
          [/\ \A r \in Requests : fate[r] \in Terminated \cup {"written"} => fate'[r] = fate[r]
           /\ wait_ended_by # NoCause => wait_ended_by' = wait_ended_by]_vars
    BY StepFresh, StepCause DEF IInv, Final
  <1>4. QED
    BY <1>1, <1>2, <1>3, Invariance, PTL DEF Spec, OutcomeIsFinal

-----------------------------------------------------------------------------
(* The UDS session.  Its invariant is that of the TCP session: only the      *)
(* steps it does not share have to be looked at.                             *)

\* The steps of a UDS session that are not steps of a TCP session: the handlers
\* that may close it, and the two that treat the socket and the timer otherwise.
UdsClosing == UdsRunReadFailed \/ UdsRunIdle \/ UdsRunStop \/ UdsRunWriteFailed
UdsOwnStep == UdsClosing \/ UdsHandoffThrows \/ UdsRunStart \/ UdsDoWrite

\* Every other step of uds_server_session.cc is one of tcp_server_session.cc.
LEMMA UdsSteps ==
  ASSUME [UdsNext]_vars
  PROVE  [Next]_vars \/ UdsOwnStep
  <1>1. CASE UdsCallers
    BY <1>1 DEF UdsCallers, UdsWrite, UdsTryWrite, Callers, Next
  <1>2. CASE UdsOwner
    BY <1>2 DEF UdsOwner, UdsStart, uds_request_stop, uds_cancel_write_wait, uds_async_stop,
                Owner, Next
  <1>3. CASE UdsKernel
    BY <1>3 DEF UdsKernel, Kernel, Next
  <1>4. CASE UdsStrand
    BY <1>4 DEF UdsStrand, UdsRunRead, UdsRunPlainClosed, UdsRunPlain, UdsCommit, UdsRunTry,
                UdsReport, UdsBeginBatch, UdsHandoff, UdsRunWroteClosed, UdsRunWrote,
                UdsOwnStep, UdsClosing, Strand, Next
  <1>5. QED
    BY <1>1, <1>2, <1>3, <1>4 DEF UdsNext

\* A handler that closes the session is taken off the strand and closes with a
\* ledger that keeps what was settled, or changes nothing.
LEMMA UdsClosingSteps ==
  ASSUME TypeOK, UdsClosing
  PROVE  /\ pc = "idle" /\ strand # <<>> /\ Head(strand).op # "plain" /\ Done
         /\ UNCHANGED io
         /\ WriteType'
         /\ \E f \in [Requests -> Fates], cb \in BOOLEAN :
               /\ LedgerKeeps(fate, f)
               /\ (do_close(f, cb) /\ CloseFrame) \/ Skip
  <1>0. fate \in [Requests -> Fates] /\ callbacks \in BOOLEAN /\ WriteType
    BY DEF TypeOK, OutcomesType, ObserversType
  <1>1. ASSUME NEW op, NEW condition, NEW cb \in BOOLEAN, UdsCloses(op, condition, cb)
        PROVE  /\ Running(op) /\ Done
               /\ UNCHANGED io
               /\ WriteType'
               /\ (do_close(fate, cb) /\ CloseFrame) \/ Skip
    <2>1. /\ Running(op) /\ Done
          /\ UNCHANGED <<batch, bytes_to_write, io>>
          /\ (do_close(fate, cb) /\ CloseFrame) \/ Skip
      BY <1>1 DEF UdsCloses, uds_do_close
    <2>2. writing' = (writing /\ cleanup_done) \/ writing' = writing
      BY <1>1 DEF UdsCloses, uds_do_close
    <2>3. writing' \in BOOLEAN
      BY <1>0, <2>2 DEF WriteType
    <2>4. WriteType'
      BY <1>0, <2>1, <2>3 DEF WriteType
    <2>5. QED
      BY <2>1, <2>4
  <1>2. LedgerKeeps(fate, fate)
    BY DEF LedgerKeeps
  <1>3. CASE UdsRunReadFailed
    <2>1. UdsCloses("read failed", Usable, callbacks)
      BY <1>3 DEF UdsRunReadFailed
    <2>2. /\ Running("read failed") /\ Done /\ UNCHANGED io /\ WriteType'
          /\ (do_close(fate, callbacks) /\ CloseFrame) \/ Skip
      BY <1>0, <1>1, <2>1
    <2>3. QED
      BY <1>0, <1>2, <2>2 DEF Running
  <1>4. CASE UdsRunIdle
    <2>1. UdsCloses("idle", idle # "armed" /\ Usable, callbacks)
      BY <1>4 DEF UdsRunIdle
    <2>2. /\ Running("idle") /\ Done /\ UNCHANGED io /\ WriteType'
          /\ (do_close(fate, callbacks) /\ CloseFrame) \/ Skip
      BY <1>0, <1>1, <2>1
    <2>3. QED
      BY <1>0, <1>2, <2>2 DEF Running
  <1>5. CASE UdsRunStop
    <2>1. UdsCloses("stop", TRUE, FALSE)
      BY <1>5 DEF UdsRunStop
    <2>2. /\ Running("stop") /\ Done /\ UNCHANGED io /\ WriteType'
          /\ (do_close(fate, FALSE) /\ CloseFrame) \/ Skip
      BY <1>0, <1>1, <2>1
    <2>3. QED
      BY <1>0, <1>2, <2>2 DEF Running
  <1>6. CASE UdsRunWriteFailed
    <2> DEFINE f == LedgerComplete(fate, batch, Head(strand).n)
               g == LedgerEnd(f, "loss")
    <2>1. /\ Running("write failed") /\ Done /\ UNCHANGED io
          /\ batch' = <<>> /\ bytes_to_write' = 0
          /\ do_close(g, callbacks) /\ CloseFrame
          /\ writing' = (writing /\ cleanup_done)
      BY <1>6 DEF UdsRunWriteFailed, uds_do_close
    <2>2. f \in [Requests -> Fates] /\ LedgerKeeps(fate, f)
      BY <1>0, LedgerFates, LedgerOpsKeep
    <2> HIDE DEF f
    <2>3. g \in [Requests -> Fates] /\ LedgerKeeps(f, g)
      BY <2>2, LedgerFates, LedgerOpsKeep
    <2> HIDE DEF g
    <2>4. LedgerKeeps(fate, g)
      BY <2>2, <2>3, LedgerKeepsTransitive
    <2>5. writing' \in BOOLEAN
      BY <2>1
    <2>6. batch' = <<>> /\ bytes_to_write' = 0
      BY <2>1
    <2>7. WriteType'
      BY <2>5, <2>6, SMT DEF WriteType
    <2>8. QED
      BY <1>0, <2>1, <2>3, <2>4, <2>7 DEF Running
  <1>7. QED
    BY <1>3, <1>4, <1>5, <1>6 DEF UdsClosing

\* async_write throws: the session closes with the ledger ended.
LEMMA UdsThrowSteps ==
  ASSUME TypeOK, UdsHandoffThrows
  PROVE  /\ pc = "initiate" /\ pc' = "idle"
         /\ UNCHANGED <<strand, decision, completing, io>>
         /\ WriteType'
         /\ LedgerEnd(fate, "loss") \in [Requests -> Fates]
         /\ LedgerKeeps(fate, LedgerEnd(fate, "loss"))
         /\ do_close(LedgerEnd(fate, "loss"), callbacks) /\ CloseFrame
  <1>1. /\ pc = "initiate" /\ pc' = "idle"
        /\ UNCHANGED <<strand, decision, completing, io>>
        /\ UNCHANGED <<batch, bytes_to_write>>
        /\ do_close(LedgerEnd(fate, "loss"), callbacks) /\ CloseFrame
        /\ writing' = (writing /\ cleanup_done)
    BY DEF UdsHandoffThrows, uds_do_close
  <1>2. fate \in [Requests -> Fates] /\ WriteType
    BY DEF TypeOK, OutcomesType
  <1>3. writing' \in BOOLEAN
    BY <1>1
  <1>4. WriteType'
    BY <1>1, <1>2, <1>3 DEF WriteType
  <1>5. QED
    BY <1>1, <1>2, <1>4, LedgerFates, LedgerOpsKeep

\* The two own steps that do not close leave the counters, the queues and the
\* outcomes alone.
LEMMA UdsQuietSteps ==
  ASSUME TypeOK, UdsRunStart \/ UdsDoWrite
  PROVE  /\ UNCHANGED <<life, counters, queues, observers, <<accepted, fate, wire, reserved>> >>
         /\ WriteType' /\ StrandType' /\ ControlType' /\ IoType'
  <1> USE DEF TypeOK
  <1>1. CASE UdsRunStart
    <2>1. UNCHANGED <<life, counters, queues, write, observers,
                      <<accepted, fate, wire, reserved>> >>
      BY <1>1 DEF UdsRunStart
    <2>2. StrandType' /\ ControlType'
      BY <1>1, DoneType DEF UdsRunStart, Running
    <2>3. IoType'
      BY <1>1 DEF UdsRunStart, reset_idle_timer, IoType
    <2>4. QED
      BY <2>1, <2>2, <2>3, Frame
  <1>2. CASE UdsDoWrite
    <2>1. UNCHANGED <<life, counters, queues, strand, <<io, idle>>, observers,
                      <<accepted, fate, wire, reserved>> >>
      BY <1>2 DEF UdsDoWrite
    <2>2. /\ batch' \in {batch, <<>>}
          /\ bytes_to_write' \in {bytes_to_write, 0}
      BY <1>2 DEF UdsDoWrite
    <2>3. writing' \in BOOLEAN
      BY <1>2 DEF UdsDoWrite, WriteType
    <2>4. batch' \in Seq(Items)
      BY <2>2, ConcatSeq DEF WriteType
    <2>5. WriteType'
      BY <2>2, <2>3, <2>4, SMT DEF WriteType
    <2>6. ControlType'
      BY <1>2 DEF UdsDoWrite, ControlType, PCs
    <2>7. QED
      BY <2>1, <2>5, <2>6, Frame
  <1>3. QED
    BY <1>1, <1>2

\* Each own step keeps the inductive invariant of the TCP session.
LEMMA UdsOwnIInv ==
  ASSUME IInv, UdsOwnStep
  PROVE  IInv'
  <1>0. TypeOK /\ Safe /\ HardLimit
    BY DEF IInv, Safe
  <1>1. CASE UdsClosing
    <2>1. /\ pc = "idle" /\ strand # <<>> /\ Head(strand).op # "plain" /\ Done
          /\ UNCHANGED io
          /\ WriteType'
      BY <1>0, <1>1, UdsClosingSteps
    <2>2. PICK f \in [Requests -> Fates], cb \in BOOLEAN :
             (do_close(f, cb) /\ CloseFrame) \/ Skip
      BY <1>0, <1>1, UdsClosingSteps
    <2>3. TypeOK'
      BY <1>0, <2>1, <2>2, CloseOrSkipType
    <2>4. UNCHANGED <<inflight_bytes, reserved>>
      BY <2>2 DEF CloseFrame, Skip, counters
    <2>5. strand' = Tail(strand) /\ UNCHANGED decision /\ pc' # "commit"
      BY <2>1 DEF Done, control
    <2>6. Safe'
      BY <1>0, <2>1, <2>4, <2>5, PopKeepsSafe
    <2>7. HardLimit'
      <3>1. CASE Skip
        BY <1>0, <3>1 DEF Skip, counters, HardLimit, bp_limit, bp_high
      <3>2. CASE do_close(f, cb)
        BY <1>0, <2>4, <3>2, CloseLowers
      <3>3. QED
        BY <2>2, <3>1, <3>2
    <2>8. QED
      BY <2>3, <2>6, <2>7 DEF IInv, Safe
  <1>2. CASE UdsHandoffThrows
    <2>1. /\ pc' = "idle"
          /\ UNCHANGED <<strand, decision, completing, io>>
          /\ WriteType'
          /\ LedgerEnd(fate, "loss") \in [Requests -> Fates]
          /\ do_close(LedgerEnd(fate, "loss"), callbacks) /\ CloseFrame
      BY <1>0, <1>2, UdsThrowSteps
    <2>2. UNCHANGED <<inflight_bytes, stopped, accepted, wire, reserved>>
      BY <2>1 DEF CloseFrame
    <2>3. callbacks \in BOOLEAN
      BY <1>0 DEF TypeOK, ObserversType
    <2>4. /\ LifeType' /\ CountersType' /\ QueuesType' /\ ObserversType'
          /\ idle' \in {"off", "armed", "due"}
          /\ fate' \in [Requests -> Fates]
      BY <1>0, <2>1, <2>2, <2>3, CloseType
    <2>5. StrandType' /\ IoType' /\ OutcomesType'
      BY <1>0, <2>1, <2>2, <2>4 DEF TypeOK, StrandType, IoType, OutcomesType
    <2>6. ControlType'
      BY <1>0, <2>1 DEF TypeOK, ControlType, PCs
    <2>7. TypeOK'
      BY <2>1, <2>4, <2>5, <2>6 DEF TypeOK
    <2>8. Safe'
      BY <1>0, <2>1, <2>2, QuietKeepsSafe
    <2>9. HardLimit'
      BY <1>0, <2>1, <2>2, CloseLowers
    <2>10. QED
      BY <2>7, <2>8, <2>9 DEF IInv, Safe
  <1>3. CASE UdsRunStart \/ UdsDoWrite
    <2>1. /\ UNCHANGED <<life, counters, queues, observers,
                         <<accepted, fate, wire, reserved>> >>
          /\ WriteType' /\ StrandType' /\ ControlType' /\ IoType'
      BY <1>0, <1>3, UdsQuietSteps
    <2>2. TypeOK'
      BY <1>0, <2>1, Frame DEF TypeOK
    <2>3. UNCHANGED <<inflight_bytes, reserved>>
      BY <2>1 DEF counters
    <2>4. Safe'
      <3>1. CASE UdsRunStart
        <4>1. /\ strand # <<>> /\ Head(strand).op # "plain" /\ strand' = Tail(strand)
              /\ UNCHANGED decision /\ pc' # "commit"
          BY <3>1 DEF UdsRunStart, Running, Done, control
        <4>2. QED
          BY <1>0, <2>3, <4>1, PopKeepsSafe
      <3>2. CASE UdsDoWrite
        <4>1. UNCHANGED <<strand, decision>> /\ pc' # "commit"
          BY <3>2 DEF UdsDoWrite
        <4>2. QED
          BY <1>0, <2>3, <4>1, QuietKeepsSafe
      <3>3. QED
        BY <1>3, <3>1, <3>2
    <2>5. HardLimit'
      BY <1>0, <2>1 DEF counters, HardLimit, bp_limit, bp_high
    <2>6. QED
      BY <2>2, <2>4, <2>5 DEF IInv, Safe
  <1>4. QED
    BY <1>1, <1>2, <1>3 DEF UdsOwnStep

\* Each own step keeps what was settled, offers the socket nothing new, keeps
\* the first cause, and starts gathering only in a usable session.
LEMMA UdsOwnOutcome ==
  ASSUME IInv, UdsOwnStep
  PROVE  /\ LedgerKeeps(fate, fate')
         /\ UNCHANGED <<accepted, wire>>
         /\ wait_ended_by # NoCause => wait_ended_by' = wait_ended_by
         /\ GatherUsable'
  <1>0. TypeOK
    BY DEF IInv
  <1>1. \A c : wait_ended_by # NoCause => FirstCause(c) = wait_ended_by
    BY DEF FirstCause
  <1>2. \A f, cb : do_close(f, cb) /\ wait_ended_by # NoCause => wait_ended_by' = wait_ended_by
    BY <1>1 DEF do_close, life
  <1>3. CASE UdsClosing
    <2>1. pc = "idle" /\ Done
      BY <1>0, <1>3, UdsClosingSteps
    <2>2. PICK f \in [Requests -> Fates], cb \in BOOLEAN :
             /\ LedgerKeeps(fate, f)
             /\ (do_close(f, cb) /\ CloseFrame) \/ Skip
      BY <1>0, <1>3, UdsClosingSteps
    <2>3. GatherUsable'
      BY <2>1 DEF Done, control, GatherUsable
    <2>4. CASE do_close(f, cb) /\ CloseFrame
      <3>1. LedgerKeeps(fate, fate')
        BY <2>2, <2>4, CloseKeepsLedger
      <3>2. UNCHANGED <<accepted, wire>>
        BY <2>4 DEF CloseFrame
      <3>3. QED
        BY <1>2, <2>3, <2>4, <3>1, <3>2
    <2>5. CASE Skip
      <3>1. UNCHANGED <<accepted, wire, fate, wait_ended_by>>
        BY <2>5 DEF Skip, life
      <3>2. QED
        BY <2>3, <3>1 DEF LedgerKeeps
    <2>6. QED
      BY <2>2, <2>4, <2>5
  <1>4. CASE UdsHandoffThrows
    <2>1. /\ pc' = "idle"
          /\ LedgerKeeps(fate, LedgerEnd(fate, "loss"))
          /\ do_close(LedgerEnd(fate, "loss"), callbacks) /\ CloseFrame
      BY <1>0, <1>4, UdsThrowSteps
    <2>2. LedgerKeeps(fate, fate')
      BY <2>1, CloseKeepsLedger
    <2>3. QED
      BY <1>2, <2>1, <2>2 DEF CloseFrame, GatherUsable
  <1>5. CASE UdsRunStart \/ UdsDoWrite
    <2>1. UNCHANGED <<life, <<accepted, fate, wire, reserved>> >>
      BY <1>0, <1>5, UdsQuietSteps
    <2>2. pc' = "gather" => Usable
      BY <1>5 DEF UdsRunStart, UdsDoWrite, Running, Done, control
    <2>3. GatherUsable'
      BY <2>1, <2>2 DEF GatherUsable, Usable, life
    <2>4. QED
      BY <2>1, <2>3 DEF LedgerKeeps, life
  <1>6. QED
    BY <1>3, <1>4, <1>5 DEF UdsOwnStep

\* The inductive invariant of the TCP session is one of the UDS session too.
LEMMA UdsNextIInv == IInv /\ [UdsNext]_vars => IInv'
  BY UdsSteps, UdsOwnIInv, NextIInv

\* The UDS session: the types, the reservations, the byte limit and that no
\* accepted write is rejected, from the invariant above.
THEOREM UdsInvariance == UdsSpec => []IInv
  <1>1. UdsInit => IInv
    BY InitIInv DEF UdsInit
  <1>2. QED
    BY <1>1, UdsNextIInv, PTL DEF UdsSpec

\* What a UDS session holds for its peer never exceeds the hard limit either.
THEOREM UdsHardLimitHolds == UdsSpec => []HardLimit
  <1>1. IInv => HardLimit
    BY DEF IInv
  <1>2. QED
    BY <1>1, UdsInvariance, PTL

\* do_write of a UDS session hands nothing to the socket once closing_ is set.
THEOREM UdsNoHandoff == UdsSpec => NoHandoffAfterClose
  <1>1. UdsInit => GatherUsable
    BY DEF UdsInit, Init, GatherUsable
  <1>2. IInv /\ GatherUsable /\ [UdsNext]_vars => GatherUsable'
    BY UdsSteps, UdsOwnOutcome, StepGather DEF IInv
  <1>3. IInv /\ GatherUsable /\ [UdsNext]_vars => [closing => wire' = wire]_vars
    BY UdsSteps, UdsOwnOutcome, StepWire DEF IInv
  <1>4. QED
    BY <1>1, <1>2, <1>3, UdsInvariance, PTL DEF UdsSpec, NoHandoffAfterClose

\* The outcome of a request on a UDS session and the cause a blocked sender is
\* given are final, although do_close takes writing_ back under a write.
THEOREM UdsOutcomesAreFinal == UdsSpec => OutcomeIsFinal
  <1>1. UdsInit => FreshUnused
    BY DEF UdsInit, Init, FreshUnused
  <1>2. ASSUME IInv, FreshUnused, UdsOwnStep
        PROVE  /\ FreshUnused'
               /\ \A r \in Requests : fate[r] \in Final => fate'[r] = fate[r]
    <2>1. LedgerKeeps(fate, fate') /\ accepted' = accepted
      BY <1>2, UdsOwnOutcome
    <2>2. QED
      BY <1>2, <2>1 DEF LedgerKeeps, FreshUnused
  <1>3. IInv /\ FreshUnused /\ [UdsNext]_vars => FreshUnused'
    BY <1>2, UdsSteps, StepFresh DEF IInv
  <1>4. IInv /\ FreshUnused /\ [UdsNext]_vars =>
          [/\ \A r \in Requests : fate[r] \in Terminated \cup {"written"} => fate'[r] = fate[r]
           /\ wait_ended_by # NoCause => wait_ended_by' = wait_ended_by]_vars
    BY <1>2, UdsSteps, UdsOwnOutcome, StepFresh, StepCause DEF IInv, Final
  <1>5. QED
    BY <1>1, <1>3, <1>4, UdsInvariance, PTL DEF UdsSpec, OutcomeIsFinal

-----------------------------------------------------------------------------
(* The steps of both sessions, sorted.                                       *)

IsWrite(h) == h.op \in {"plain", "try"}

\* Handlers that are not writes come and go; that of a stop comes from the owner.
StrandEvents ==
    \/ UNCHANGED strand
    \/ \E h \in Handlers : /\ ~IsWrite(h) /\ strand' = Append(strand, h)
                           /\ h.op = "stop" => stopped' \/ cleanup_done'
    \/ /\ pc = "idle" /\ strand # <<>> /\ ~IsWrite(Head(strand))
       /\ strand' = Tail(strand)

\* Start, Handoff, cancel, the socket, the timer, and the handlers that find
\* nothing to close.
EventStep ==
    /\ UNCHANGED <<closing, cleanup_done, counters, queues, write, decision, completing,
                   observers, accepted, fate, wire, reserved>>
    /\ UNCHANGED alive \/ (~alive /\ ~cleanup_done /\ alive' = TRUE)
    /\ UNCHANGED pc \/ (pc = "initiate" /\ pc' = "idle")
    /\ StrandEvents

\* request_stop and async_stop.
StopStep ==
    /\ SubmissionFree
    /\ closing' = TRUE
    /\ fate' = LedgerEnd(fate, "stop")
    /\ stopped' = (stopped \/ ~cleanup_done)
    /\ UNCHANGED <<alive, cleanup_done, counters, queues, write, control, callbacks, told,
                   close_calls, accepted, wire, reserved>>
    /\ StrandEvents

\* The ledgers a session closes with.
ClosingLedger(f) ==
    \/ f = fate
    \/ f = LedgerEnd(fate, "loss")
    \/ pc = "idle" /\ \E k : f = LedgerEnd(LedgerComplete(fate, batch, k), "loss")

\* The handler of a stop is the next one.
StopHeads == strand # <<>> /\ Head(strand).op = "stop"

\* A handler that closes the session; only that of a stop has removed the callbacks.
CloseStep ==
    /\ \E f, cb : /\ do_close(f, cb)
                  /\ ClosingLedger(f)
                  /\ cb = callbacks \/ (cb = FALSE /\ StopHeads)
    /\ CloseFrame
    /\ pc \in {"idle", "initiate"} /\ pc' = "idle"
    /\ UNCHANGED <<decision, completing>>
    /\ UNCHANGED <<batch, bytes_to_write>> \/ (batch' = <<>> /\ bytes_to_write' = 0)
    /\ StrandEvents

\* do_write's beginning, whatever becomes of the idle timer.
DoWriteStep ==
    /\ pc = "after"
    /\ IF ~Usable \/ tx = <<>> \/ (writing /\ ~completing)
       THEN /\ pc' = "idle"
            /\ writing' = (writing /\ ~completing)
            /\ UNCHANGED <<batch, bytes_to_write>>
       ELSE /\ pc' = "gather"
            /\ writing' = TRUE
            /\ batch' = <<>> /\ bytes_to_write' = 0
    /\ completing' = FALSE
    /\ UNCHANGED <<life, counters, queues, strand, decision, observers, accepted, fate,
                   wire, reserved>>

SessionStep ==
    \/ EventStep \/ StopStep \/ CloseStep \/ Callers
    \/ RunPlainClosed \/ RunPlain \/ Commit \/ RunTry
    \/ Report \/ ClearBackpressure \/ RearmBackpressure
    \/ DoWriteStep \/ Gather \/ BeginBatch
    \/ RunWroteClosed \/ RunWrote

\* Posting a handler that is not a write.
LEMMA PostEvents ==
  ASSUME TypeOK, NEW op \in HandlerOps, op \notin {"plain", "try"}, NEW n \in Nat,
         op = "stop" => stopped' \/ cleanup_done', Post(Handler(op, 0, n, reserved))
  PROVE  StrandEvents
  <1>1. /\ Handler(op, 0, n, reserved) \in Handlers /\ ~IsWrite(Handler(op, 0, n, reserved))
        /\ Handler(op, 0, n, reserved).op = op
    BY DEF TypeOK, OutcomesType, Handler, Handlers, IsWrite
  <1>2. QED
    BY <1>1 DEF Post, StrandEvents

\* The end of a handler that is not a write.
LEMMA DoneEvents ==
  ASSUME NEW op, op \notin {"plain", "try"}, Running(op), Done
  PROVE  StrandEvents /\ pc = "idle" /\ UNCHANGED control
  BY DEF Running, Done, StrandEvents, IsWrite

\* A handler of either session that closes it, or finds nothing to do.
LEMMA CloseOrSkip ==
  ASSUME NEW op, op \notin {"plain", "try"}, Running(op), Done,
         NEW f, NEW cb, ClosingLedger(f), cb = callbacks \/ (cb = FALSE /\ op = "stop"),
         (do_close(f, cb) /\ CloseFrame) \/ (Skip /\ UNCHANGED write),
         UNCHANGED <<batch, bytes_to_write>> \/ (batch' = <<>> /\ bytes_to_write' = 0)
  PROVE  EventStep \/ CloseStep
  <1>1. StrandEvents /\ pc = "idle" /\ UNCHANGED <<pc, decision, completing>>
    BY DoneEvents DEF control
  <1>2. CASE do_close(f, cb) /\ CloseFrame
    BY <1>1, <1>2 DEF CloseStep, StopHeads, Running
  <1>3. CASE Skip /\ UNCHANGED write
    BY <1>1, <1>3 DEF EventStep, Skip, life
  <1>4. QED
    BY <1>2, <1>3

\* The owner's, the socket's and the timer's steps.
LEMMA OutsideSteps ==
  ASSUME TypeOK, Owner \/ Kernel \/ UNCHANGED vars
  PROVE  EventStep \/ StopStep
  <1>0. 0 \in Nat /\ Len(batch) \in Nat
    BY SMT DEF TypeOK, WriteType
  <1>1. ASSUME NEW op \in HandlerOps, op \notin {"plain", "try"}, PostEvent(op),
               op = "stop" => stopped' \/ cleanup_done'
        PROVE  StrandEvents
    BY <1>0, <1>1, PostEvents DEF PostEvent
  <1>2. ASSUME NEW which, NEW op \in HandlerOps, op \notin {"plain", "try", "stop"}, NEW n \in Nat,
               Complete(which, Handler(op, 0, n, reserved))
        PROVE  EventStep
    <2>1. StrandEvents
      BY <1>2, PostEvents DEF Complete
    <2>2. QED
      BY <1>2, <2>1 DEF Complete, EventStep, life, control
  <1>3. CASE Start
    <2>1. StrandEvents
      BY <1>1, <1>3 DEF Start, HandlerOps
    <2>2. QED
      BY <1>3, <2>1 DEF Start, EventStep, control
  <1>4. CASE request_stop
    BY <1>4 DEF request_stop, StopStep, StrandEvents
  <1>5. CASE cancel_write_wait \/ UNCHANGED vars
    BY <1>5 DEF cancel_write_wait, vars, EventStep, StrandEvents, life, control
  <1>6. CASE async_stop
    <2>1. StrandEvents
      BY <1>1, <1>6 DEF async_stop, HandlerOps
    <2>2. QED
      BY <1>6, <2>1 DEF async_stop, StopStep
  <1>7. CASE cancel
    <2>1. StrandEvents
      BY <1>1, <1>7 DEF cancel, HandlerOps
    <2>2. QED
      BY <1>7, <2>1 DEF cancel, EventStep, life, control
  <1>8. CASE ExpireIdle
    <2>1. StrandEvents
      BY <1>1, <1>8 DEF ExpireIdle, HandlerOps
    <2>2. QED
      BY <1>8, <2>1 DEF ExpireIdle, EventStep, life, control
  <1>9. CASE CompleteHandshake \/ FailHandshake \/ CompleteRead \/ FailRead
    BY <1>0, <1>2, <1>9 DEF CompleteHandshake, FailHandshake, CompleteRead, FailRead, HandlerOps
  <1>10. CASE CompleteWrite
    BY <1>0, <1>2, <1>10 DEF CompleteWrite, HandlerOps
  <1>11. CASE FailWrite
    <2>1. PICK k \in 0 .. Len(batch) : Complete("write", Handler("write failed", 0, k, reserved))
      BY <1>11 DEF FailWrite
    <2>2. k \in Nat
      BY <1>0, SMT
    <2>3. QED
      BY <1>2, <2>1, <2>2 DEF HandlerOps
  <1>12. QED
    BY <1>3, <1>4, <1>5, <1>6, <1>7, <1>8, <1>9, <1>10, <1>11 DEF Owner, Kernel

\* The strand's own steps.
LEMMA StrandSteps ==
  ASSUME Strand
  PROVE  SessionStep
  <1>1. CASE RunStart \/ RunHandshake \/ RunRead \/ RunCancel
    <2>1. StrandEvents /\ pc = "idle" /\ UNCHANGED <<pc, decision, completing>>
      BY <1>1, DoneEvents DEF RunStart, RunHandshake, RunRead, RunCancel, control
    <2>2. EventStep
      BY <1>1, <2>1 DEF RunStart, RunHandshake, RunRead, RunCancel, EventStep, life
    <2>3. QED
      BY <2>2 DEF SessionStep
  <1>2. CASE RunHandshakeFailed \/ RunReadFailed \/ RunIdle \/ RunStop
    <2>1. PICK op \in {"handshake failed", "read failed", "idle", "stop"}, cb \in {callbacks, FALSE} :
             /\ Running(op) /\ (cb = callbacks \/ (cb = FALSE /\ op = "stop"))
             /\ (do_close(fate, cb) /\ CloseFrame) \/ Skip
      BY <1>2 DEF RunHandshakeFailed, RunReadFailed, RunIdle, RunStop
    <2>3. Done /\ UNCHANGED write
      BY <1>2 DEF RunHandshakeFailed, RunReadFailed, RunIdle, RunStop
    <2>4. ClosingLedger(fate) /\ UNCHANGED <<batch, bytes_to_write>>
      BY <2>3 DEF ClosingLedger, write
    <2>5. EventStep \/ CloseStep
      BY <2>1, <2>3, <2>4, CloseOrSkip
    <2>6. QED
      BY <2>5 DEF SessionStep
  <1>3. CASE RunWriteFailed
    <2> DEFINE f == LedgerEnd(LedgerComplete(fate, batch, Head(strand).n), "loss")
    <2>1. /\ Running("write failed") /\ Done /\ do_close(f, callbacks) /\ CloseFrame
          /\ batch' = <<>> /\ bytes_to_write' = 0
      BY <1>3 DEF RunWriteFailed
    <2>2. ClosingLedger(f)
      BY <2>1 DEF ClosingLedger, Running
    <2> HIDE DEF f
    <2>3. EventStep \/ CloseStep
      BY <2>1, <2>2, CloseOrSkip
    <2>4. QED
      BY <2>3 DEF SessionStep
  <1>4. CASE Handoff
    <2>1. EventStep
      BY <1>4 DEF Handoff, EventStep, StrandEvents, life
    <2>2. QED
      BY <2>1 DEF SessionStep
  <1>5. CASE HandoffThrows
    <2>1. CloseStep
      BY <1>5 DEF HandoffThrows, CloseStep, ClosingLedger, StrandEvents, write
    <2>2. QED
      BY <2>1 DEF SessionStep
  <1>6. CASE DoWrite
    <2>1. DoWriteStep
      BY <1>6 DEF DoWrite, DoWriteStep
    <2>2. QED
      BY <2>1 DEF SessionStep
  <1>7. CASE \/ RunPlainClosed \/ RunPlain \/ Commit \/ RunTry \/ Report
             \/ ClearBackpressure \/ RearmBackpressure \/ Gather \/ BeginBatch
             \/ RunWroteClosed \/ RunWrote
    BY <1>7 DEF SessionStep
  <1>8. QED
    BY <1>1, <1>2, <1>3, <1>4, <1>5, <1>6, <1>7 DEF Strand

\* The UDS session's own steps.
LEMMA UdsOwnSteps ==
  ASSUME UdsOwnStep
  PROVE  SessionStep
  <1>1. CASE UdsRunReadFailed \/ UdsRunIdle \/ UdsRunStop
    <2>1. PICK op \in {"read failed", "idle", "stop"}, condition \in BOOLEAN,
               cb \in {callbacks, FALSE} :
             UdsCloses(op, condition, cb) /\ (cb = callbacks \/ (cb = FALSE /\ op = "stop"))
      <3>1. CASE UdsRunReadFailed
        BY <3>1 DEF UdsRunReadFailed, Usable
      <3>2. CASE UdsRunIdle
        BY <3>2 DEF UdsRunIdle, Usable
      <3>3. CASE UdsRunStop
        BY <3>3 DEF UdsRunStop
      <3>4. QED
        BY <1>1, <3>1, <3>2, <3>3
    <2>2. /\ Running(op) /\ Done
          /\ UNCHANGED <<batch, bytes_to_write>>
          /\ (do_close(fate, cb) /\ CloseFrame) \/ (Skip /\ UNCHANGED writing)
      BY <2>1 DEF UdsCloses, uds_do_close
    <2>3. ClosingLedger(fate)
      BY DEF ClosingLedger
    <2>4. (do_close(fate, cb) /\ CloseFrame) \/ (Skip /\ UNCHANGED write)
      BY <2>2 DEF write
    <2>5. EventStep \/ CloseStep
      BY <2>1, <2>2, <2>3, <2>4, CloseOrSkip
    <2>6. QED
      BY <2>5 DEF SessionStep
  <1>2. CASE UdsRunWriteFailed
    <2> DEFINE f == LedgerEnd(LedgerComplete(fate, batch, Head(strand).n), "loss")
    <2>1. /\ Running("write failed") /\ Done /\ do_close(f, callbacks) /\ CloseFrame
          /\ batch' = <<>> /\ bytes_to_write' = 0
      BY <1>2 DEF UdsRunWriteFailed, uds_do_close
    <2>2. ClosingLedger(f)
      BY <2>1 DEF ClosingLedger, Running
    <2> HIDE DEF f
    <2>3. EventStep \/ CloseStep
      BY <2>1, <2>2, CloseOrSkip
    <2>4. QED
      BY <2>3 DEF SessionStep
  <1>3. CASE UdsHandoffThrows
    <2>1. CloseStep
      BY <1>3 DEF UdsHandoffThrows, uds_do_close, CloseStep, ClosingLedger, StrandEvents
    <2>2. QED
      BY <2>1 DEF SessionStep
  <1>4. CASE UdsRunStart
    <2>1. StrandEvents /\ pc = "idle" /\ UNCHANGED <<pc, decision, completing>>
      BY <1>4, DoneEvents DEF UdsRunStart, control
    <2>2. EventStep
      BY <1>4, <2>1 DEF UdsRunStart, EventStep, life
    <2>3. QED
      BY <2>2 DEF SessionStep
  <1>5. CASE UdsDoWrite
    <2>1. DoWriteStep
      BY <1>5 DEF UdsDoWrite, DoWriteStep
    <2>2. QED
      BY <2>1 DEF SessionStep
  <1>6. QED
    BY <1>1, <1>2, <1>3, <1>4, <1>5 DEF UdsOwnStep, UdsClosing

\* Every step of either session is one of the sorted ones.
LEMMA SessionSteps ==
  ASSUME TypeOK, [Next]_vars \/ [UdsNext]_vars
  PROVE  SessionStep
  <1>1. CASE [Next]_vars
    BY <1>1, OutsideSteps, StrandSteps DEF Next, SessionStep
  <1>2. CASE UdsOwnStep
    BY <1>2, UdsOwnSteps
  <1>3. QED
    BY <1>1, <1>2, UdsSteps

-----------------------------------------------------------------------------
(* The end of a session.                                                     *)

\* The handler of a stop is on the strand only when the owner asked for it.
StopKnown ==
    \A i \in 1 .. Len(strand) : strand[i].op = "stop" => stopped \/ cleanup_done

\* The cleanup ends the session for good, between handlers, and takes the callbacks.
Ended ==
    /\ cleanup_done => closing /\ ~alive
    /\ pc # "idle" => ~cleanup_done
    /\ callbacks = ~cleanup_done
    /\ StopKnown
    /\ CloseToldOnce

\* do_close the first time: everything is dropped and the callbacks removed.
FirstClose ==
    /\ ~cleanup_done
    /\ cleanup_done' /\ ~alive' /\ closing'
    /\ \E f : ClosingLedger(f) /\ fate' = LedgerEnd(f, "loss")
    /\ tx' = <<>> /\ queue_bytes' = 0
    /\ pending' = <<>> /\ pending_bytes' = 0
    /\ ~backpressure_active'
    /\ ~callbacks'
    /\ UNCHANGED stopped
    /\ close_calls' = close_calls + 1 \/ (close_calls' = close_calls /\ stopped)

\* do_close again: nothing is left to do, whatever the ledger's handler did.
CloseAgain ==
    /\ cleanup_done
    /\ UNCHANGED <<alive, closing, cleanup_done, queue_bytes, pending_bytes,
                   backpressure_active, tx, pending, callbacks, told, close_calls, stopped>>
    /\ ClosingLedger(fate')

\* Every step that closes does so for the first time or finds it done.
LEMMA CloseOnce ==
  ASSUME TypeOK, Ended, CloseStep
  PROVE  FirstClose \/ CloseAgain
  <1>1. PICK f, cb : /\ do_close(f, cb) /\ ClosingLedger(f)
                     /\ cb = callbacks \/ (cb = FALSE /\ StopHeads)
    BY DEF CloseStep
  <1>0. UNCHANGED stopped
    BY DEF CloseStep, CloseFrame
  <1>2. CASE cleanup_done
    <2>1. callbacks = FALSE
      BY <1>2 DEF Ended
    <2>2. cb = FALSE
      BY <1>1, <2>1
    <2>3. /\ fate' = f /\ callbacks' = cb
          /\ UNCHANGED <<life, queue_bytes, pending_bytes, backpressure_active,
                         queues, idle, told, close_calls>>
      BY <1>1, <1>2 DEF do_close
    <2>4. ClosingLedger(fate') /\ UNCHANGED callbacks
      BY <1>1, <2>1, <2>2, <2>3
    <2>5. QED
      BY <1>0, <1>2, <2>3, <2>4 DEF CloseAgain, life, queues
  <1>3. CASE ~cleanup_done
    <2>1. /\ cleanup_done' /\ ~alive' /\ closing'
          /\ ClosingLedger(f) /\ fate' = LedgerEnd(f, "loss")
          /\ tx' = <<>> /\ queue_bytes' = 0
          /\ pending' = <<>> /\ pending_bytes' = 0
          /\ ~backpressure_active'
          /\ ~callbacks'
      BY <1>1, <1>3 DEF do_close
    <2>2. close_calls' = IF cb THEN close_calls + 1 ELSE close_calls
      BY <1>1, <1>3 DEF do_close
    <2>3. cb \/ (~cb /\ stopped)
      <3>1. callbacks = TRUE
        BY <1>3 DEF Ended
      <3>2. StopHeads => stopped
        <4>1. SUFFICES ASSUME StopHeads PROVE stopped
          OBVIOUS
        <4>2. 1 \in 1 .. Len(strand) /\ strand[1].op = "stop"
          BY <4>1, SMT DEF StopHeads, TypeOK, StrandType
        <4>3. QED
          BY <1>3, <4>2 DEF Ended, StopKnown
      <3>3. QED
        BY <1>1, <3>1, <3>2
    <2>4. QED
      BY <1>0, <1>3, <2>1, <2>2, <2>3 DEF FirstClose
  <1>4. QED
    BY <1>2, <1>3

\* The steps of the write path leave the life cycle and on_close_ alone.
LEMMA WritePathLife ==
  ASSUME HandlersOK, SessionStep, ~EventStep, ~StopStep, ~CloseStep
  PROVE  UNCHANGED <<alive, closing, cleanup_done, callbacks, close_calls, stopped>>
  <1> USE DEF life, observers
  <1>1. CASE Callers
    BY <1>1 DEF Callers, Write, TryWrite, Admit
  <1>2. CASE RunPlainClosed \/ RunPlain \/ RunTry \/ RunWroteClosed \/ RunWrote
    BY <1>2 DEF RunPlainClosed, RunPlain, RunTry, RunWroteClosed, RunWrote, Skip
  <1>3. CASE Commit
    BY <1>3 DEF Commit
  <1>4. CASE Report \/ ClearBackpressure \/ RearmBackpressure
    BY <1>4 DEF Report, ClearBackpressure, RearmBackpressure
  <1>5. CASE DoWriteStep \/ Gather \/ BeginBatch
    BY <1>5 DEF DoWriteStep, Gather, BeginBatch
  <1>6. QED
    BY <1>1, <1>2, <1>3, <1>4, <1>5 DEF SessionStep

\* Where a step of the write path leaves the running handler.
LEMMA WritePathControl ==
  ASSUME HandlersOK, SessionStep, ~EventStep, ~StopStep, ~CloseStep
  PROVE  pc' # "idle" => pc # "idle" \/ (alive /\ ~closing)
  <1>1. CASE Callers \/ RunPlainClosed \/ RunWroteClosed
    BY <1>1 DEF Callers, Write, TryWrite, Admit, RunPlainClosed, RunWroteClosed, Done, control
  <1>2. CASE RunPlain \/ RunTry \/ RunWrote
    BY <1>2 DEF RunPlain, RunTry, RunWrote, Running, Usable
  <1>3. CASE Commit \/ Report \/ ClearBackpressure \/ RearmBackpressure
    BY <1>3 DEF Commit, Report, ClearBackpressure, RearmBackpressure
  <1>4. CASE DoWriteStep \/ Gather \/ BeginBatch
    BY <1>4 DEF DoWriteStep, Gather, BeginBatch
  <1>5. QED
    BY <1>1, <1>2, <1>3, <1>4 DEF SessionStep

\* What a step does to the strand.
LEMMA StepStrand ==
  ASSUME TypeOK, HandlersOK, SessionStep
  PROVE  \/ UNCHANGED strand
         \/ strand # <<>> /\ strand' = Tail(strand)
         \/ \E h \in Handlers : /\ strand' = Append(strand, h)
                                /\ h.op = "stop" => stopped' \/ cleanup_done'
  <1>1. CASE EventStep \/ StopStep \/ CloseStep
    <2>1. StrandEvents
      BY <1>1 DEF EventStep, StopStep, CloseStep
    <2>2. QED
      BY <2>1 DEF StrandEvents
  <1>2. CASE Callers
    <2>1. PICK n \in 1 .. MaxSize : Write(n) \/ TryWrite(n)
      BY <1>2 DEF Callers
    <2>2. n \in Nat /\ reserved \in Nat /\ reserved + n \in Nat
      BY <2>1, SMT DEF TypeOK, OutcomesType
    <2>3. accepted + 1 \in Requests
      <3>1. accepted < MaxRequests
        BY <2>1 DEF Write, TryWrite, Admit
      <3>2. QED
        BY <3>1, SessionAssumption, SMT DEF TypeOK, OutcomesType, Requests
    <2>4. CASE Write(n)
      <3> DEFINE h == Handler("plain", accepted + 1, n, reserved + n)
      <3>1. h \in Handlers /\ h.op # "stop"
        BY <2>2, <2>3 DEF Handler, Handlers, HandlerOps
      <3>2. strand' = Append(strand, h)
        BY <2>4 DEF Write, Post
      <3>3. QED
        BY <3>1, <3>2
    <2>5. CASE TryWrite(n)
      <3> DEFINE h == Handler("try", accepted + 1, n, reserved)
      <3>1. h \in Handlers /\ h.op # "stop"
        BY <2>2, <2>3 DEF Handler, Handlers, HandlerOps
      <3>2. strand' = Append(strand, h)
        BY <2>5 DEF TryWrite, Post
      <3>3. QED
        BY <3>1, <3>2
    <2>6. QED
      BY <2>1, <2>4, <2>5
  <1>3. CASE RunPlainClosed \/ RunTry \/ RunWroteClosed \/ RunWrote
    BY <1>3 DEF RunPlainClosed, RunTry, RunWroteClosed, RunWrote, Running, Done
  <1>4. CASE Commit
    BY <1>4 DEF Commit, HandlersOK
  <1>5. CASE RunPlain \/ Report \/ ClearBackpressure \/ RearmBackpressure \/ DoWriteStep
             \/ Gather \/ BeginBatch
    BY <1>5 DEF RunPlain, Report, ClearBackpressure, RearmBackpressure, DoWriteStep,
                Gather, BeginBatch
  <1>6. QED
    BY <1>1, <1>2, <1>3, <1>4, <1>5 DEF SessionStep

\* A stop stays known: what the owner asked for, and the cleanup, are not taken back.
LEMMA StepStopKnown ==
  ASSUME TypeOK, HandlersOK, StopKnown, SessionStep, stopped => stopped',
         cleanup_done => cleanup_done'
  PROVE  StopKnown'
  <1>1. strand \in Seq(Handlers)
    BY DEF TypeOK, StrandType
  <1>2. SUFFICES ASSUME NEW i \in 1 .. Len(strand'), strand'[i].op = "stop"
                 PROVE  stopped' \/ cleanup_done'
    BY DEF StopKnown
  <1>3. ASSUME NEW j \in 1 .. Len(strand), strand[j] = strand'[i]
        PROVE  stopped' \/ cleanup_done'
    BY <1>2, <1>3 DEF StopKnown
  <1>4. CASE UNCHANGED strand
    BY <1>3, <1>4
  <1>5. CASE strand # <<>> /\ strand' = Tail(strand)
    <2>1. i + 1 \in 1 .. Len(strand) /\ strand[i + 1] = strand'[i]
      BY <1>1, <1>5, SMT
    <2>2. QED
      BY <1>3, <2>1
  <1>6. CASE \E h \in Handlers : /\ strand' = Append(strand, h)
                                 /\ h.op = "stop" => stopped' \/ cleanup_done'
    <2>1. PICK h \in Handlers : /\ strand' = Append(strand, h)
                                /\ h.op = "stop" => stopped' \/ cleanup_done'
      BY <1>6
    <2>2. \/ i \in 1 .. Len(strand) /\ strand[i] = strand'[i]
          \/ strand'[i] = h
      BY <1>1, <2>1, SMT
    <2>3. QED
      BY <1>2, <1>3, <2>1, <2>2
  <1>7. QED
    BY <1>4, <1>5, <1>6, StepStrand

\* One step of either session keeps it.
LEMMA StepEnded ==
  ASSUME TypeOK, HandlersOK, Ended, SessionStep
  PROVE  Ended'
  <1>0. close_calls \in Nat /\ callbacks \in BOOLEAN /\ cleanup_done \in BOOLEAN
    BY DEF TypeOK, ObserversType, LifeType
  <1>1. CASE EventStep
    <2>1. UNCHANGED <<closing, cleanup_done, callbacks, close_calls, stopped>>
      BY <1>1 DEF EventStep, observers
    <2>2. cleanup_done => alive' = alive
      BY <1>1 DEF EventStep
    <2>3. pc' = pc \/ pc' = "idle"
      BY <1>1 DEF EventStep
    <2>4. StopKnown'
      BY <2>1, StepStopKnown DEF Ended
    <2>5. QED
      BY <2>1, <2>2, <2>3, <2>4, SMT DEF Ended, CloseToldOnce
  <1>2. CASE StopStep
    <2>1. /\ UNCHANGED <<alive, cleanup_done, pc, callbacks, close_calls>> /\ closing'
          /\ stopped' = (stopped \/ ~cleanup_done)
      BY <1>2 DEF StopStep, control
    <2>2. StopKnown'
      BY <2>1, StepStopKnown DEF Ended
    <2>3. CloseToldOnce'
      BY <2>1 DEF Ended, CloseToldOnce
    <2>4. QED
      BY <2>1, <2>2, <2>3 DEF Ended
  <1>3. CASE CloseStep
    <2>1. pc' = "idle"
      BY <1>3 DEF CloseStep
    <2>2. CASE FirstClose
      <3>1. close_calls = 0
        BY <1>0, <2>2, SMT DEF FirstClose, Ended, CloseToldOnce
      <3>2. close_calls' = 1 \/ (close_calls' = 0 /\ stopped')
        BY <2>2, <3>1, SMT DEF FirstClose
      <3>3. close_calls' <= 1
        BY <3>2, SMT
      <3>4. cleanup_done' \in BOOLEAN /\ callbacks' \in BOOLEAN
        BY <1>3, <1>0 DEF CloseStep, do_close, life
      <3>5. callbacks' = ~cleanup_done'
        BY <2>2, <3>4 DEF FirstClose
      <3>6. StopKnown'
        BY <2>2, StepStopKnown DEF Ended, FirstClose
      <3>7. CloseToldOnce'
        BY <2>2, <3>2, <3>3 DEF FirstClose, CloseToldOnce
      <3>8. QED
        BY <2>1, <2>2, <3>5, <3>6, <3>7 DEF FirstClose, Ended
    <2>3. CASE CloseAgain
      <3>1. StopKnown'
        BY <2>3, StepStopKnown DEF Ended, CloseAgain
      <3>2. QED
        BY <2>1, <2>3, <3>1 DEF CloseAgain, Ended, CloseToldOnce
    <2>4. QED
      BY <1>3, <2>2, <2>3, CloseOnce
  <1>4. CASE ~EventStep /\ ~StopStep /\ ~CloseStep
    <2>1. UNCHANGED <<alive, closing, cleanup_done, callbacks, close_calls, stopped>>
      BY <1>4, WritePathLife
    <2>2. pc' # "idle" => pc # "idle" \/ (alive /\ ~closing)
      BY <1>4, WritePathControl
    <2>3. StopKnown'
      BY <2>1, StepStopKnown DEF Ended
    <2>4. QED
      BY <2>1, <2>2, <2>3 DEF Ended, CloseToldOnce
  <1>5. QED
    BY <1>1, <1>2, <1>3, <1>4

\* Every step of either session keeps the flag and the last report equal.
Reported == callbacks => told = backpressure_active

\* One step of either session keeps the report true.
LEMMA StepReported ==
  ASSUME TypeOK, HandlersOK, Ended, Reported, SessionStep
  PROVE  Reported'
  <1>0. told \in BOOLEAN /\ backpressure_active \in BOOLEAN /\ callbacks \in BOOLEAN
    BY DEF TypeOK, ObserversType, CountersType
  <1>1. CASE EventStep
    BY <1>1 DEF EventStep, observers, counters, Reported
  <1>2. CASE StopStep
    BY <1>2 DEF StopStep, counters, Reported
  <1>3. CASE CloseStep
    BY <1>3, CloseOnce DEF FirstClose, CloseAgain, Reported
  <1>4. CASE \/ Callers \/ RunPlainClosed \/ RunPlain \/ RunTry \/ DoWriteStep \/ Gather
             \/ BeginBatch \/ RunWroteClosed \/ RunWrote
    <2>1. UNCHANGED <<told, backpressure_active, callbacks>>
      BY <1>4 DEF Callers, Write, TryWrite, Admit, RunPlainClosed, RunPlain, RunTry,
                  DoWriteStep, Gather, BeginBatch, RunWroteClosed, RunWrote, Skip,
                  observers, counters
    <2>2. QED
      BY <2>1 DEF Reported
  <1>5. CASE Commit
    <2>1. decision \in {"Immediate", "Pending"}
      BY <1>5 DEF Commit, HandlersOK
    <2>2. UNCHANGED <<told, backpressure_active, callbacks>>
      BY <1>5, <2>1 DEF Commit, EnqueueImmediate, EnqueuePending
    <2>3. QED
      BY <2>2 DEF Reported
  <1>6. CASE Report
    <2>1. /\ report_backpressure(queue_bytes, "after")
          /\ callbacks' = callbacks
      BY <1>6 DEF Report
    <2>2. \/ UNCHANGED <<told, backpressure_active>>
          \/ backpressure_active' = TRUE /\ told' = IF callbacks THEN TRUE ELSE told
      BY <2>1 DEF report_backpressure
    <2>3. QED
      BY <2>1, <2>2 DEF Reported
  <1>7. CASE ClearBackpressure \/ RearmBackpressure
    <2>1. /\ callbacks' = callbacks
          /\ \/ UNCHANGED <<told, backpressure_active>>
             \/ backpressure_active' = TRUE /\ told' = IF callbacks THEN TRUE ELSE told
             \/ backpressure_active' = FALSE /\ told' = IF callbacks THEN FALSE ELSE told
      BY <1>7 DEF ClearBackpressure, RearmBackpressure
    <2>2. QED
      <3>1. CASE UNCHANGED <<told, backpressure_active>>
        BY <2>1, <3>1 DEF Reported
      <3>2. CASE backpressure_active' = TRUE /\ told' = IF callbacks THEN TRUE ELSE told
        BY <2>1, <3>2 DEF Reported
      <3>3. CASE backpressure_active' = FALSE /\ told' = IF callbacks THEN FALSE ELSE told
        BY <2>1, <3>3 DEF Reported
      <3>4. QED
        BY <2>1, <3>1, <3>2, <3>3
  <1>8. QED
    BY <1>1, <1>2, <1>3, <1>4, <1>5, <1>6, <1>7 DEF SessionStep

-----------------------------------------------------------------------------
(* The flags of the write path.                                              *)

\* Nothing is queued before the start; writing_ covers the batch; only a
\* completion handler is completing; the falling edge has cleared the flag.
Control ==
    /\ ~alive /\ ~cleanup_done => pc = "idle" /\ ~backpressure_active /\ batch = <<>>
    /\ pc \in {"gather", "initiate"} => writing
    /\ pc \in {"idle", "commit", "gather", "initiate"} => ~completing
    /\ batch # <<>> /\ ~closing => writing /\ ~completing
    /\ pc = "cleared" => ~backpressure_active

\* One step of either session keeps it.
LEMMA StepControl ==
  ASSUME TypeOK, HandlersOK, Ended, Control, SessionStep
  PROVE  Control'
  <1>1. CASE EventStep
    <2>1. UNCHANGED <<closing, cleanup_done, backpressure_active, batch, writing, completing>>
      BY <1>1 DEF EventStep, counters, write
    <2>2. /\ alive' = alive \/ alive' = TRUE
          /\ pc' = pc \/ (pc = "initiate" /\ pc' = "idle")
      BY <1>1 DEF EventStep
    <2>3. QED
      BY <2>1, <2>2, SMT DEF Control
  <1>2. CASE StopStep
    BY <1>2 DEF StopStep, counters, write, control, Control
  <1>3. CASE CloseStep
    <2>1. /\ pc \in {"idle", "initiate"} /\ pc' = "idle" /\ UNCHANGED completing
      BY <1>3 DEF CloseStep
    <2>2. closing' /\ cleanup_done'
      BY <1>3, CloseOnce, SMT DEF FirstClose, CloseAgain, Ended
    <2>3. QED
      BY <2>1, <2>2 DEF Control
  <1>4. CASE Callers
    <2>1. /\ alive /\ UNCHANGED <<alive, closing, cleanup_done, backpressure_active,
                                  batch, writing, completing, pc>>
      BY <1>4 DEF Callers, Write, TryWrite, Admit, life, write, control
    <2>2. QED
      BY <2>1 DEF Control
  <1>5. CASE RunPlainClosed
    <2>1. UNCHANGED <<alive, closing, cleanup_done, backpressure_active, batch, writing,
                      completing, pc>>
      BY <1>5 DEF RunPlainClosed, Done, life, write, control
    <2>2. QED
      BY <2>1 DEF Control
  <1>6. CASE RunPlain
    <2>1. /\ alive /\ pc = "idle" /\ pc' = "commit"
          /\ UNCHANGED <<alive, closing, cleanup_done, backpressure_active, batch, writing,
                         completing>>
      BY <1>6 DEF RunPlain, Running, Usable, life, counters, write
    <2>2. QED
      BY <2>1 DEF Control
  <1>7. CASE Commit
    <2>1. decision \in {"Immediate", "Pending"}
      BY <1>7 DEF Commit, HandlersOK
    <2>2. /\ pc = "commit" /\ pc' \in {"report", "idle"}
          /\ UNCHANGED <<alive, closing, cleanup_done, backpressure_active, batch, writing,
                         completing>>
      BY <1>7, <2>1 DEF Commit, EnqueueImmediate, EnqueuePending, life, write
    <2>3. QED
      BY <2>2 DEF Control
  <1>8. CASE RunTry
    <2>1. /\ pc = "idle"
          /\ pc' = pc \/ (alive /\ pc' = "report")
          /\ UNCHANGED <<alive, closing, cleanup_done, backpressure_active, batch, writing,
                         completing>>
      BY <1>8 DEF RunTry, Running, Usable, life, write
    <2>2. QED
      BY <2>1 DEF Control
  <1>9. CASE Report
    <2>1. /\ pc = "report" /\ pc' \in {"after", "flushed"}
          /\ UNCHANGED <<alive, closing, cleanup_done, batch, writing, completing>>
      BY <1>9 DEF Report, report_backpressure, life, write
    <2>2. QED
      BY <2>1 DEF Control
  <1>10. CASE ClearBackpressure
    <2>1. /\ pc = "flushed" /\ pc' = "cleared" /\ ~backpressure_active'
          /\ UNCHANGED <<alive, closing, cleanup_done, batch, writing, completing>>
      BY <1>10 DEF ClearBackpressure, life, write
    <2>2. QED
      BY <2>1 DEF Control
  <1>11. CASE RearmBackpressure
    <2>1. /\ pc = "cleared" /\ pc' = "after"
          /\ UNCHANGED <<alive, closing, cleanup_done, batch, writing, completing>>
      BY <1>11 DEF RearmBackpressure, life, write
    <2>2. QED
      BY <2>1 DEF Control
  <1>12. CASE DoWriteStep
    <2>1. /\ pc = "after" /\ completing' = FALSE
          /\ UNCHANGED <<alive, closing, cleanup_done, backpressure_active>>
          /\ \/ pc' = "idle" /\ writing' = (writing /\ ~completing) /\ batch' = batch
             \/ pc' = "gather" /\ writing' = TRUE /\ batch' = <<>>
      BY <1>12 DEF DoWriteStep, life, counters
    <2>2. QED
      BY <2>1 DEF Control
  <1>13. CASE Gather \/ BeginBatch
    <2>1. /\ pc = "gather" /\ pc' \in {"gather", "initiate"}
          /\ UNCHANGED <<alive, closing, cleanup_done, backpressure_active, writing, completing>>
      BY <1>13 DEF Gather, BeginBatch, life, counters, control, write
    <2>2. QED
      BY <2>1 DEF Control
  <1>14. CASE RunWroteClosed
    <2>1. /\ batch' = <<>>
          /\ UNCHANGED <<alive, closing, cleanup_done, backpressure_active, writing,
                         completing, pc>>
      BY <1>14 DEF RunWroteClosed, Done, Skip, life, counters, control
    <2>2. QED
      BY <2>1 DEF Control
  <1>15. CASE RunWrote
    <2>1. /\ alive /\ batch' = <<>> /\ pc' = "report"
          /\ UNCHANGED <<alive, closing, cleanup_done, backpressure_active>>
      BY <1>15 DEF RunWrote, Usable, life
    <2>2. QED
      BY <2>1 DEF Control
  <1>16. QED
    BY <1>1, <1>2, <1>3, <1>4, <1>5, <1>6, <1>7, <1>8, <1>9, <1>10, <1>11, <1>12, <1>13,
       <1>14, <1>15 DEF SessionStep

-----------------------------------------------------------------------------
(* The theorems on the end of a session.                                     *)

\* What the later proofs know of a session.
EInv == IInv /\ GatherUsable /\ FreshUnused /\ Ended /\ Reported /\ Control

\* A new session has not ended.
LEMMA InitEInv ==
  ASSUME Init
  PROVE  EInv
  <1>1. IInv
    BY InitIInv
  <1>2. /\ alive = FALSE /\ closing = FALSE /\ cleanup_done = FALSE
        /\ backpressure_active = FALSE /\ batch = <<>>
        /\ pc = "idle" /\ completing = FALSE
        /\ callbacks = TRUE /\ told = FALSE /\ close_calls = 0 /\ strand = <<>>
    BY DEF Init
  <1>3. GatherUsable /\ Control
    BY <1>2 DEF GatherUsable, Control
  <1>4. FreshUnused
    BY DEF Init, FreshUnused
  <1>5. Reported
    BY <1>2 DEF Reported
  <1>6. Ended
    <2>1. close_calls <= 1 /\ close_calls # 1
      BY <1>2, SMT
    <2>2. callbacks = ~cleanup_done
      BY <1>2
    <2>3. StopKnown
      BY <1>2, SMT DEF StopKnown
    <2>4. QED
      BY <1>2, <2>1, <2>2, <2>3 DEF Ended, CloseToldOnce
  <1>7. QED
    BY <1>1, <1>3, <1>4, <1>5, <1>6 DEF EInv

\* Steps of either session keep it.
LEMMA StepEInv ==
  ASSUME EInv, [Next]_vars \/ [UdsNext]_vars
  PROVE  EInv' /\ SessionStep
  <1>1. IInv /\ TypeOK /\ HandlersOK
    BY DEF EInv, IInv
  <1>2. IInv'
    BY <1>1, NextIInv, UdsNextIInv
  <1>3. SessionStep
    BY <1>1, SessionSteps
  <1>4. GatherUsable'
    BY <1>1, UdsSteps, UdsOwnOutcome, StepGather DEF EInv
  <1>5. FreshUnused'
    <2>1. CASE [Next]_vars
      BY <1>1, <2>1, StepFresh DEF EInv
    <2>2. CASE UdsOwnStep
      <3>1. LedgerKeeps(fate, fate') /\ accepted' = accepted
        BY <1>1, <2>2, UdsOwnOutcome
      <3>2. QED
        BY <3>1 DEF EInv, LedgerKeeps, FreshUnused
    <2>3. QED
      BY <2>1, <2>2, UdsSteps
  <1>6. Ended' /\ Reported' /\ Control'
    BY <1>1, <1>3, StepEnded, StepReported, StepControl DEF EInv
  <1>7. QED
    BY <1>2, <1>3, <1>4, <1>5, <1>6 DEF EInv

\* The invariant of a TCP session.
THEOREM EndInvariance == Spec => []EInv
  <1>1. EInv /\ [Next]_vars => EInv'
    BY StepEInv
  <1>2. QED
    BY <1>1, InitEInv, PTL DEF Spec

\* And of a UDS session.
THEOREM UdsEndInvariance == UdsSpec => []EInv
  <1>1. EInv /\ [UdsNext]_vars => EInv'
    BY StepEInv
  <1>2. UdsInit => EInv
    BY InitEInv DEF UdsInit
  <1>3. QED
    BY <1>1, <1>2, PTL DEF UdsSpec

\* What it says to the user.
LEMMA EInvGives ==
  ASSUME EInv
  PROVE  CloseToldOnce /\ BackpressureReported
  BY DEF EInv, Ended, Reported, BackpressureReported

\* on_close of a TCP session that closes by itself is called exactly once, and that
\* of one its owner stopped at most once.
THEOREM CloseIsToldOnce == Spec => []CloseToldOnce
  BY EInvGives, EndInvariance, PTL

\* So is on_close of a UDS session.
THEOREM UdsCloseIsToldOnce == UdsSpec => []CloseToldOnce
  BY EInvGives, UdsEndInvariance, PTL

\* Between handlers, the last pressure callback agrees with the flag.
THEOREM PressureIsReported == Spec => []BackpressureReported
  BY EInvGives, EndInvariance, PTL

\* So it does on a UDS session.
THEOREM UdsPressureIsReported == UdsSpec => []BackpressureReported
  BY EInvGives, UdsEndInvariance, PTL
=============================================================================
