---------------------- MODULE TcpServerSessionQueueProofs ----------------------
(***************************************************************************)
(* The requests of a TCP or UDS session on their way to the wire, for      *)
(* every value of the constants: those of one family are written in the    *)
(* order in which they were accepted, and the ledger tells those that      *)
(* reached the wire from those that did not.                               *)
(*                                                                         *)
(* Then its byte counters: each is exactly the bytes it stands for, and a  *)
(* session under pressure has something that will relieve it.              *)
(***************************************************************************)
EXTENDS TcpServerSessionProofs

\* Most steps are first-order; those that need arithmetic, sequences or records of
\* numbers cite SMT.
USE Zenon

-----------------------------------------------------------------------------
(* The order of the requests.                                                *)

Slots == [id : Requests, kind : {"plain", "try"}]
Slot(x) == [id |-> x.id, kind |-> x.kind]

\* The batch while do_write gathers it.
Gathering == IF pc = "gather" THEN batch ELSE <<>>

\* Everything written, being gathered and queued, in the order of the wire.
Front == (wire \o Offered(Gathering)) \o Offered(tx)

\* a may stand before b: two requests, in acceptance order within a family.
Before(a, b) == a.id # b.id /\ (a.kind = b.kind => a.id < b.id)

\* The request of a write's handler.
Posted(h) == [id |-> h.id, kind |-> h.op]

\* Requests of one family stay in acceptance order on their way: the front of the
\* line, the requests held back behind it, and the handlers still on the strand.
Order ==
    /\ \A i, j \in 1 .. Len(Front) : i < j => Before(Front[i], Front[j])
    /\ \A i, j \in 1 .. Len(pending) : i < j => Before(pending[i], pending[j])
    /\ \A i \in 1 .. Len(Front), j \in 1 .. Len(pending) : Before(Front[i], pending[j])
    /\ \A i, j \in 1 .. Len(strand) :
          i < j /\ IsWrite(strand[i]) /\ IsWrite(strand[j]) => strand[i].id < strand[j].id
    /\ \A i \in 1 .. Len(Front), j \in 1 .. Len(strand) :
          IsWrite(strand[j]) => Before(Front[i], Posted(strand[j]))
    /\ \A i \in 1 .. Len(pending), j \in 1 .. Len(strand) :
          IsWrite(strand[j]) => Before(pending[i], Posted(strand[j]))
    /\ \A i \in 1 .. Len(pending) : pending[i].kind = "plain"

\* Only accepted requests are on their way.
Known ==
    /\ \A i \in 1 .. Len(Front) : Front[i].id <= accepted
    /\ \A i \in 1 .. Len(pending) : pending[i].id <= accepted
    /\ \A i \in 1 .. Len(strand) : IsWrite(strand[i]) => strand[i].id <= accepted

\* Requests are held back under pressure only, so a write that is not held back
\* overtakes none of its family.
Held ==
    /\ pending # <<>> => backpressure_active
    /\ pc = "commit" /\ decision = "Immediate" => ~backpressure_active
    /\ pc = "commit" /\ decision = "Pending" => backpressure_active
    /\ pc = "flushed" => pending = <<>>

\* What begin_batch records of a queue.
LEMMA OfferedSeq ==
  ASSUME NEW s \in Seq(Items)
  PROVE  /\ Offered(s) \in Seq(Slots) /\ Len(Offered(s)) = Len(s)
         /\ \A i \in 1 .. Len(s) : Offered(s)[i] = Slot(s[i])
  <1>1. \A x \in Items : Slot(x) \in Slots
    BY DEF Items, Slots, Slot
  <1>2. \A i \in 1 .. Len(s) : Slot(s[i]) \in Slots
    BY <1>1, SMT
  <1>3. Offered(s) = [i \in 1 .. Len(s) |-> Slot(s[i])]
    BY SMT DEF Offered, Slot
  <1>4. QED
    BY <1>2, <1>3, SMT

\* The front of the line is a sequence of slots that starts with the wire.
LEMMA FrontType ==
  ASSUME TypeOK
  PROVE  /\ wire \in Seq(Slots) /\ Gathering \in Seq(Items)
         /\ Offered(Gathering) \in Seq(Slots) /\ Offered(tx) \in Seq(Slots)
         /\ wire \o Offered(Gathering) \in Seq(Slots)
         /\ Front \in Seq(Slots)
  <1>1. wire \in Seq(Slots) /\ tx \in Seq(Items) /\ batch \in Seq(Items)
    BY DEF TypeOK, OutcomesType, QueuesType, WriteType, Slots
  <1>2. Gathering \in Seq(Items)
    BY <1>1, SMT DEF Gathering
  <1>3. Offered(Gathering) \in Seq(Slots) /\ Offered(tx) \in Seq(Slots)
    BY <1>1, <1>2, OfferedSeq
  <1>4. wire \o Offered(Gathering) \in Seq(Slots)
    BY <1>1, <1>3, ConcatSeq
  <1>5. QED
    BY <1>1, <1>2, <1>3, <1>4, ConcatSeq DEF Front

\* The writes on the strand were there before, k places further back.
Shifted(k) ==
    \A j \in 1 .. Len(strand') : IsWrite(strand'[j]) =>
        j + k \in 1 .. Len(strand) /\ strand'[j] = strand[j + k]

\* No write is posted.
LEMMA StrandShifted ==
  ASSUME TypeOK, StrandEvents \/ (strand # <<>> /\ strand' = Tail(strand))
  PROVE  \E k \in Nat : Shifted(k)
  <1>1. strand \in Seq(Handlers) /\ Len(strand) \in Nat
    BY SMT DEF TypeOK, StrandType
  <1>2. CASE UNCHANGED strand
    <2>1. Shifted(0)
      BY <1>1, <1>2, SMT DEF Shifted
    <2>2. QED
      BY <2>1
  <1>3. CASE \E h \in Handlers : ~IsWrite(h) /\ strand' = Append(strand, h)
    <2>1. PICK h \in Handlers : ~IsWrite(h) /\ strand' = Append(strand, h)
      BY <1>3
    <2>2. /\ Len(strand') = Len(strand) + 1 /\ strand'[Len(strand) + 1] = h
          /\ \A j \in 1 .. Len(strand) : strand'[j] = strand[j]
      BY <1>1, <2>1, SMT
    <2>3. ASSUME NEW j \in 1 .. Len(strand'), IsWrite(strand'[j])
          PROVE  j + 0 \in 1 .. Len(strand) /\ strand'[j] = strand[j + 0]
      <3>1. j # Len(strand) + 1
        BY <2>1, <2>2, <2>3
      <3>2. j \in 1 .. Len(strand) /\ j + 0 = j
        BY <1>1, <2>2, <3>1, SMT
      <3>3. QED
        BY <2>2, <3>2
    <2>4. Shifted(0)
      BY <2>3 DEF Shifted
    <2>5. QED
      BY <2>4
  <1>4. CASE strand # <<>> /\ strand' = Tail(strand)
    <2>1. /\ Len(strand') = Len(strand) - 1
          /\ \A j \in 1 .. Len(strand') : strand'[j] = strand[j + 1]
      BY <1>1, <1>4, SMT
    <2>2. \A j \in 1 .. Len(strand') : j + 1 \in 1 .. Len(strand)
      BY <1>1, <2>1, SMT
    <2>3. Shifted(1)
      BY <2>1, <2>2 DEF Shifted
    <2>4. QED
      BY <2>3
  <1>5. QED
    BY <1>2, <1>3, <1>4 DEF StrandEvents

-----------------------------------------------------------------------------
(* The ledger agrees with the wire.                                          *)

Begun == {"active", "written", "stop aborted", "loss aborted"}

\* Until the session is closing, the requests on their way are waiting.
Waiting ==
    /\ \A i \in 1 .. Len(tx) : fate[tx[i].id] = "waiting"
    /\ \A i \in 1 .. Len(pending) : fate[pending[i].id] = "waiting"
    /\ pc = "gather" => \A i \in 1 .. Len(batch) : fate[batch[i].id] = "waiting"
    /\ \A j \in 1 .. Len(strand) : IsWrite(strand[j]) => fate[strand[j].id] = "waiting"

\* The ledger tells the requests on the wire from those that never got there,
\* and the batch with the socket is on the wire.
Taken ==
    /\ LossPhaseIsTrue
    /\ pc # "gather" => Ids(batch) \subseteq Ids(wire)
    /\ ~closing => Waiting

\* Ending the ledger keeps the two phases apart.
LEMMA EndPhase ==
  ASSUME NEW f, NEW cause \in {"stop", "loss"}, NEW r \in Requests
  PROVE  LedgerEnd(f, cause)[r] \in Begun <=> f[r] \in Begun
  BY DEF LedgerEnd, Begun

\* So does completing a batch that had been begun, and it does not touch a
\* request that waits.
LEMMA CompletePhase ==
  ASSUME NEW f, NEW items, NEW k, \A r \in Requests : r \in Ids(items) => f[r] \in Begun,
         NEW r \in Requests
  PROVE  /\ LedgerComplete(f, items, k)[r] \in Begun <=> f[r] \in Begun
         /\ f[r] = "waiting" => LedgerComplete(f, items, k)[r] = "waiting"
  <1>1. CASE r \in Ids(items)
    BY <1>1 DEF LedgerComplete, Begun
  <1>2. CASE r \notin Ids(items)
    BY <1>2 DEF LedgerComplete, Begun
  <1>3. QED
    BY <1>1, <1>2

\* The batch with the socket has been begun.
LEMMA BatchBegun ==
  ASSUME Taken, pc # "gather", NEW r \in Requests, r \in Ids(batch)
  PROVE  fate[r] \in Begun
  BY DEF Taken, LossPhaseIsTrue, Begun

\* The ledger a session closes with tells the phases apart.
LEMMA ClosingPhase ==
  ASSUME Taken, pc # "gather", NEW f, ClosingLedger(f), NEW r \in Requests
  PROVE  f[r] \in Begun <=> fate[r] \in Begun
  <1>1. CASE f = fate
    BY <1>1
  <1>2. CASE f = LedgerEnd(fate, "loss")
    BY <1>2, EndPhase
  <1>3. CASE \E k : f = LedgerEnd(LedgerComplete(fate, batch, k), "loss")
    <2>1. PICK k : f = LedgerEnd(LedgerComplete(fate, batch, k), "loss")
      BY <1>3
    <2>2. \A q \in Requests : q \in Ids(batch) => fate[q] \in Begun
      BY BatchBegun
    <2> DEFINE g == LedgerComplete(fate, batch, k)
    <2>3. g[r] \in Begun <=> fate[r] \in Begun
      BY <2>2, CompletePhase
    <2>4. f = LedgerEnd(g, "loss")
      BY <2>1
    <2> HIDE DEF g
    <2>5. QED
      BY <2>3, <2>4, EndPhase
  <1>4. QED
    BY <1>1, <1>2, <1>3 DEF ClosingLedger

\* The requests of a sequence, by position.
LEMMA IdsAt ==
  ASSUME NEW S, NEW s \in Seq(S)
  PROVE  /\ \A i \in 1 .. Len(s) : s[i].id \in Ids(s)
         /\ \A r \in Ids(s) : \E i \in 1 .. Len(s) : r = s[i].id
  BY SMT DEF Ids

\* Steps that leave the ledger and the wire alone and move requests along.
LEMMA MovesTaken ==
  ASSUME TypeOK, Taken, UNCHANGED <<fate, wire, closing>>,
         pc' # "gather" => pc # "gather" /\ (batch' = batch \/ batch' = <<>>),
         ~closing => Waiting'
  PROVE  Taken'
  <1>1. LossPhaseIsTrue'
    BY DEF Taken, LossPhaseIsTrue
  <1>2. Ids(<<>>) = {}
    BY SMT DEF Ids
  <1>3. pc' # "gather" => Ids(batch') \subseteq Ids(wire')
    BY <1>2 DEF Taken
  <1>4. QED
    BY <1>1, <1>3 DEF Taken

\* Closing or forbidding further writes.
LEMMA ClosingTaken ==
  ASSUME TypeOK, Taken, closing', wire' = wire,
         \A r \in Requests : fate'[r] \in Begun <=> fate[r] \in Begun,
         pc' # "gather" => pc # "gather" /\ (batch' = batch \/ batch' = <<>>)
  PROVE  Taken'
  <1>1. LossPhaseIsTrue'
    BY DEF Taken, LossPhaseIsTrue, Begun
  <1>2. Ids(<<>>) = {}
    BY SMT DEF Ids
  <1>3. pc' # "gather" => Ids(batch') \subseteq Ids(wire')
    BY <1>2 DEF Taken
  <1>4. QED
    BY <1>1, <1>3 DEF Taken

\* What an item offers keeps its identity.
LEMMA SlotId ==
  ASSUME NEW x
  PROVE  Slot(x).id = x.id
  BY DEF Slot

\* begin_batch: the whole batch waits, so all of it becomes active, and the
\* requests behind it are other ones.
LEMMA BeginTaken ==
  ASSUME TypeOK, HandlersOK, GatherUsable, Order, Taken, BeginBatch
  PROVE  Taken'
  <1>1. /\ pc = "gather" /\ pc' = "initiate" /\ wire' = wire \o Offered(batch)
        /\ fate' = LedgerBegin(fate, batch)
        /\ UNCHANGED <<closing, tx, pending, batch, strand>>
    BY DEF BeginBatch, life, queues, write
  <1>2. ~closing /\ Waiting
    BY <1>1 DEF GatherUsable, Usable, Taken
  <1>3. /\ batch \in Seq(Items) /\ tx \in Seq(Items) /\ pending \in Seq(Items)
        /\ wire \in Seq(Slots) /\ Len(batch) \in Nat /\ Len(wire) \in Nat /\ Len(tx) \in Nat
        /\ strand \in Seq(Handlers)
    BY FrontType, SMT DEF TypeOK, WriteType, QueuesType, StrandType
  <1>4. \A r \in Ids(batch) : fate[r] = "waiting"
    <2>1. \A i \in 1 .. Len(batch) : fate[batch[i].id] = "waiting"
      BY <1>1, <1>2 DEF Waiting
    <2>2. \A r \in Ids(batch) : \E i \in 1 .. Len(batch) : r = batch[i].id
      BY ONLY <1>3, IdsAt
    <2>3. QED
      BY <2>1, <2>2, SMT
  <1>5. \A r \in Requests : fate'[r] = IF r \in Ids(batch) THEN "active" ELSE fate[r]
    BY <1>1, <1>4 DEF LedgerBegin
  <1> DEFINE b == Offered(batch)
             c == Offered(tx)
  <1>6. /\ b \in Seq(Slots) /\ Len(b) = Len(batch)
        /\ \A i \in 1 .. Len(batch) : b[i] = Slot(batch[i])
    BY <1>3, OfferedSeq
  <1>7. /\ c \in Seq(Slots) /\ Len(c) = Len(tx)
        /\ \A i \in 1 .. Len(tx) : c[i] = Slot(tx[i])
    BY <1>3, OfferedSeq
  <1>8. \A i \in 1 .. Len(batch) : b[i].id = batch[i].id
    BY ONLY <1>6, SlotId
  <1>9. \A i \in 1 .. Len(tx) : c[i].id = tx[i].id
    BY ONLY <1>7, SlotId
  <1>10. Front = wire' \o c /\ wire' = wire \o b
    BY <1>1 DEF Front, Gathering
  <1> HIDE DEF b, c
  <1>23. wire \in Seq(Slots) /\ b \in Seq(Slots)
    BY <1>3, <1>6
  <1>11. /\ wire \o b \in Seq(Slots) /\ Len(wire \o b) = Len(wire) + Len(b)
         /\ \A i \in 1 .. Len(wire) : (wire \o b)[i] = wire[i]
         /\ \A i \in 1 .. Len(b) : (wire \o b)[Len(wire) + i] = b[i]
    BY ONLY <1>23, ConcatAt, SMT
  <1>12. wire' \in Seq(Slots) /\ c \in Seq(Slots)
    BY <1>7, <1>10, <1>11
  <1>13. /\ Len(wire' \o c) = Len(wire') + Len(c)
         /\ \A i \in 1 .. Len(wire') : (wire' \o c)[i] = wire'[i]
         /\ \A i \in 1 .. Len(c) : (wire' \o c)[Len(wire') + i] = c[i]
    BY ONLY <1>12, ConcatAt, SMT
  <1>14. ASSUME NEW i \in 1 .. Len(batch)
         PROVE  /\ Len(wire) + i \in 1 .. Len(wire') /\ Len(wire) + i \in 1 .. Len(Front)
                /\ wire'[Len(wire) + i].id = batch[i].id
                /\ Front[Len(wire) + i].id = batch[i].id
    <2>1. Len(wire') = Len(wire) + Len(batch) /\ Len(Front) = Len(wire') + Len(tx)
      BY <1>6, <1>7, <1>10, <1>11, <1>13
    <2>2. Len(wire) + i \in 1 .. Len(wire') /\ Len(wire) + i \in 1 .. Len(Front)
      BY <1>3, <2>1, SMT
    <2>3. wire'[Len(wire) + i] = b[i]
      BY <1>6, <1>10, <1>11
    <2>4. Front[Len(wire) + i] = wire'[Len(wire) + i]
      BY <1>10, <1>13, <2>2
    <2>5. QED
      BY <1>8, <2>2, <2>3, <2>4
  <1>15. ASSUME NEW j \in 1 .. Len(tx) PROVE tx[j].id \notin Ids(batch)
    <2>1. SUFFICES ASSUME NEW i \in 1 .. Len(batch), tx[j].id = batch[i].id PROVE FALSE
      BY <1>3, IdsAt
    <2>2. Len(Front) = Len(wire') + Len(tx) /\ Len(wire') = Len(wire) + Len(batch)
      BY <1>6, <1>7, <1>10, <1>11, <1>13
    <2>3. /\ Len(wire) + i \in 1 .. Len(Front) /\ Len(wire') + j \in 1 .. Len(Front)
          /\ Len(wire) + i < Len(wire') + j
      BY <1>3, <2>2, SMT
    <2>4. Before(Front[Len(wire) + i], Front[Len(wire') + j])
      BY <2>3 DEF Order
    <2>5. Front[Len(wire) + i].id = batch[i].id /\ Front[Len(wire') + j].id = tx[j].id
      BY <1>7, <1>9, <1>10, <1>13, <1>14
    <2>6. QED
      BY <2>1, <2>4, <2>5 DEF Before
  <1>16. ASSUME NEW j \in 1 .. Len(pending) PROVE pending[j].id \notin Ids(batch)
    <2>1. SUFFICES ASSUME NEW i \in 1 .. Len(batch), pending[j].id = batch[i].id PROVE FALSE
      BY <1>3, IdsAt
    <2>2. Before(Front[Len(wire) + i], pending[j])
      BY <1>14 DEF Order
    <2>3. QED
      BY <1>14, <2>1, <2>2 DEF Before
  <1>17. ASSUME NEW j \in 1 .. Len(strand), IsWrite(strand[j]) PROVE strand[j].id \notin Ids(batch)
    <2>1. SUFFICES ASSUME NEW i \in 1 .. Len(batch), strand[j].id = batch[i].id PROVE FALSE
      BY <1>3, IdsAt
    <2>2. Before(Front[Len(wire) + i], Posted(strand[j]))
      BY <1>14, <1>17 DEF Order
    <2>3. Posted(strand[j]).id = strand[j].id
      BY DEF Posted
    <2>4. QED
      BY <1>14, <2>1, <2>2, <2>3 DEF Before
  <1>18. Ids(wire') = Ids(wire) \cup Ids(batch)
    <2>1. ASSUME NEW r \in Ids(wire') PROVE r \in Ids(wire) \cup Ids(batch)
      <3>1. PICK i \in 1 .. Len(wire') : r = wire'[i].id
        BY <1>12, IdsAt
      <3>2. CASE i \in 1 .. Len(wire)
        BY <1>3, <1>10, <1>11, <3>1, <3>2, IdsAt
      <3>3. CASE i \notin 1 .. Len(wire)
        <4>1. i - Len(wire) \in 1 .. Len(b) /\ i = Len(wire) + (i - Len(wire))
          BY <1>3, <1>6, <1>10, <1>11, <3>3, SMT
        <4>2. PICK a \in 1 .. Len(b) : i = Len(wire) + a
          BY <4>1
        <4>3. r = batch[a].id /\ a \in 1 .. Len(batch)
          BY <1>6, <1>8, <1>10, <1>11, <3>1, <4>2
        <4>4. QED
          BY <1>3, <4>3, IdsAt
      <3>4. QED
        BY <3>2, <3>3
    <2>2. ASSUME NEW r \in Ids(wire) PROVE r \in Ids(wire')
      <3>1. PICK i \in 1 .. Len(wire) : r = wire[i].id
        BY <1>3, IdsAt
      <3>2. i \in 1 .. Len(wire') /\ wire'[i] = wire[i]
        BY <1>3, <1>6, <1>10, <1>11, SMT
      <3>3. QED
        BY <1>12, <3>1, <3>2, IdsAt
    <2>3. ASSUME NEW r \in Ids(batch) PROVE r \in Ids(wire')
      <3>1. PICK i \in 1 .. Len(batch) : r = batch[i].id
        BY <1>3, IdsAt
      <3>2. QED
        BY <1>12, <1>14, <3>1, IdsAt
    <2>4. QED
      BY <2>1, <2>2, <2>3
  <1>19. LossPhaseIsTrue'
    <2>1. ASSUME NEW r \in Requests PROVE fate'[r] \in Begun <=> r \in Ids(wire')
      <3>1. CASE r \in Ids(batch)
        BY <1>5, <1>18, <3>1 DEF Begun
      <3>2. CASE r \notin Ids(batch)
        BY <1>5, <1>18, <3>2 DEF Taken, LossPhaseIsTrue, Begun
      <3>3. QED
        BY <3>1, <3>2
    <2>2. QED
      BY <2>1 DEF LossPhaseIsTrue, Begun
  <1>20. /\ \A i \in 1 .. Len(tx) : tx[i].id \in Requests
         /\ \A i \in 1 .. Len(pending) : pending[i].id \in Requests
    <2>1. \A x \in Items : x.id \in Requests
      BY DEF Items
    <2>2. QED
      BY <1>3, <2>1, SMT
  <1>21. \A j \in 1 .. Len(strand) : IsWrite(strand[j]) /\ strand[j].id \in Requests =>
            fate'[strand[j].id] = "waiting"
    BY <1>2, <1>5, <1>17 DEF Waiting
  <1>22. Waiting'
    <2>1. \A i \in 1 .. Len(tx) : fate'[tx[i].id] = "waiting"
      BY <1>2, <1>5, <1>15, <1>20 DEF Waiting
    <2>2. \A i \in 1 .. Len(pending) : fate'[pending[i].id] = "waiting"
      BY <1>2, <1>5, <1>16, <1>20 DEF Waiting
    <2>3. \A j \in 1 .. Len(strand) : IsWrite(strand[j]) => fate'[strand[j].id] = "waiting"
      BY <1>21 DEF HandlersOK, IsWrite
    <2>4. QED
      BY <1>1, <2>1, <2>2, <2>3 DEF Waiting
  <1>24. QED
    BY <1>1, <1>18, <1>19, <1>22 DEF Taken

\* Handlers that stay on the strand keep waiting while the ledger stands.
LEMMA StrandWaits ==
  ASSUME TypeOK, Waiting, fate' = fate,
         StrandEvents \/ (strand # <<>> /\ strand' = Tail(strand))
  PROVE  \A j \in 1 .. Len(strand') : IsWrite(strand'[j]) => fate'[strand'[j].id] = "waiting"
  <1>1. PICK k \in Nat : Shifted(k)
    BY StrandShifted
  <1>2. QED
    BY <1>1 DEF Shifted, Waiting

\* A queue of waiting requests that one more waiting request joins waits.
LEMMA AppendWaits ==
  ASSUME NEW s \in Seq(Items), NEW x \in Items, NEW f,
         \A i \in 1 .. Len(s) : f[s[i].id] = "waiting", f[x.id] = "waiting"
  PROVE  \A i \in 1 .. Len(Append(s, x)) : f[Append(s, x)[i].id] = "waiting"
  BY SMT

\* So does one that a waiting queue joins.
LEMMA JoinWaits ==
  ASSUME NEW s \in Seq(Items), NEW t \in Seq(Items), NEW f,
         \A i \in 1 .. Len(s) : f[s[i].id] = "waiting",
         \A i \in 1 .. Len(t) : f[t[i].id] = "waiting"
  PROVE  \A i \in 1 .. Len(s \o t) : f[(s \o t)[i].id] = "waiting"
  <1>1. TAKE i \in 1 .. Len(s \o t)
  <1>2. Len(s) \in Nat /\ Len(t) \in Nat /\ Len(s \o t) = Len(s) + Len(t)
    BY SMT
  <1>3. CASE i \in 1 .. Len(s)
    <2>1. (s \o t)[i] = s[i]
      BY <1>3, SMT
    <2>2. QED
      BY <1>3, <2>1
  <1>4. CASE i \notin 1 .. Len(s)
    <2>1. i - Len(s) \in 1 .. Len(t) /\ i = Len(s) + (i - Len(s))
      BY <1>2, <1>4, SMT
    <2>2. PICK a \in 1 .. Len(t) : i = Len(s) + a
      BY <2>1
    <2>3. (s \o t)[Len(s) + a] = t[a]
      BY ONLY s \in Seq(Items), t \in Seq(Items), a \in 1 .. Len(t), ConcatAt, SMT
    <2>4. QED
      BY <2>2, <2>3
  <1>5. QED
    BY <1>3, <1>4

\* And one that loses its head.
LEMMA TailWaits ==
  ASSUME NEW s \in Seq(Items), NEW f, s # <<>>,
         \A i \in 1 .. Len(s) : f[s[i].id] = "waiting"
  PROVE  \A i \in 1 .. Len(Tail(s)) : f[Tail(s)[i].id] = "waiting"
  BY SMT

\* Accepting a request: it is not on the wire, and no other is touched.
LEMMA AcceptTaken ==
  ASSUME TypeOK, HandlersOK, FreshUnused, Known, Taken, Callers
  PROVE  Taken'
  <1>1. PICK n \in 1 .. MaxSize : Write(n) \/ TryWrite(n)
    BY DEF Callers
  <1>2. /\ UNCHANGED <<wire, tx, batch, pending, pc, closing>> /\ ~closing
        /\ fate' = [fate EXCEPT ![accepted + 1] = "waiting"]
    BY <1>1 DEF Write, TryWrite, Admit, queues, write, control, life
  <1>3. /\ accepted + 1 \in Requests /\ accepted \in Nat /\ fate \in [Requests -> Fates]
    BY <1>1, SessionAssumption, SMT DEF Write, TryWrite, Admit, TypeOK, OutcomesType, Requests
  <1>4. fate[accepted + 1] = "unused"
    BY <1>3, SMT DEF FreshUnused, Requests
  <1>5. /\ fate'[accepted + 1] = "waiting"
        /\ \A r \in Requests : r # accepted + 1 => fate'[r] = fate[r]
    BY <1>2, <1>3
  <1>6. LossPhaseIsTrue'
    <2>1. ASSUME NEW r \in Requests PROVE fate'[r] \in Begun <=> fate[r] \in Begun
      BY <1>4, <1>5 DEF Begun
    <2>2. QED
      BY <1>2, <2>1 DEF Taken, LossPhaseIsTrue, Begun
  <1>7. \A r \in Requests : fate[r] = "waiting" => fate'[r] = "waiting"
    BY <1>5
  <1>8. /\ batch \in Seq(Items) /\ tx \in Seq(Items) /\ pending \in Seq(Items)
        /\ strand \in Seq(Handlers) /\ Len(strand) \in Nat
    BY SMT DEF TypeOK, WriteType, QueuesType, StrandType
  <1>9. \A s \in Seq(Items) : \A i \in 1 .. Len(s) : s[i].id \in Requests
    <2>1. \A x \in Items : x.id \in Requests
      BY DEF Items
    <2>2. \A s \in Seq(Items) : \A i \in 1 .. Len(s) : s[i] \in Items
      BY SMT
    <2>3. QED
      BY <2>1, <2>2
  <1>10. Waiting
    BY <1>2 DEF Taken
  <1>11. \E h : h.id = accepted + 1 /\ strand' = Append(strand, h)
    <2>1. Handler("plain", accepted + 1, n, reserved + n).id = accepted + 1
      BY DEF Handler
    <2>2. Handler("try", accepted + 1, n, reserved).id = accepted + 1
      BY DEF Handler
    <2>3. QED
      BY <1>1, <2>1, <2>2 DEF Write, TryWrite, Post
  <1>12. PICK h : h.id = accepted + 1 /\ strand' = Append(strand, h)
    BY <1>11
  <1>13. ASSUME NEW j \in 1 .. Len(strand'), IsWrite(strand'[j])
         PROVE  fate'[strand'[j].id] = "waiting"
    <2>1. CASE j \in 1 .. Len(strand)
      <3>1. strand'[j] = strand[j]
        BY <1>8, <1>12, <2>1, SMT
      <3>2. strand[j].id \in Requests
        BY <1>13, <2>1, <3>1 DEF HandlersOK, IsWrite
      <3>3. fate[strand[j].id] = "waiting"
        BY <1>10, <1>13, <2>1, <3>1 DEF Waiting
      <3>4. QED
        BY <1>7, <3>1, <3>2, <3>3
    <2>2. CASE j \notin 1 .. Len(strand)
      <3>1. j = Len(strand) + 1 /\ strand'[j] = h
        BY <1>8, <1>12, <2>2, SMT
      <3>2. QED
        BY <1>5, <1>12, <3>1
    <2>3. QED
      BY <2>1, <2>2
  <1>14. Waiting'
    <2>1. \A i \in 1 .. Len(tx) : fate'[tx[i].id] = "waiting"
      BY <1>7, <1>8, <1>9, <1>10 DEF Waiting
    <2>2. \A i \in 1 .. Len(pending) : fate'[pending[i].id] = "waiting"
      BY <1>7, <1>8, <1>9, <1>10 DEF Waiting
    <2>3. pc = "gather" => \A i \in 1 .. Len(batch) : fate'[batch[i].id] = "waiting"
      BY <1>7, <1>8, <1>9, <1>10 DEF Waiting
    <2>4. QED
      BY <1>2, <1>13, <2>1, <2>2, <2>3 DEF Waiting
  <1>15. QED
    BY <1>2, <1>6, <1>14 DEF Taken

\* A completed write: its batch was on the wire, and what waits is not touched.
LEMMA WroteTaken ==
  ASSUME TypeOK, HandlersOK, Taken, RunWrote
  PROVE  Taken'
  <1>1. /\ pc = "idle" /\ pc' = "report" /\ fate' = LedgerComplete(fate, batch, Head(strand).n)
        /\ batch' = <<>> /\ strand # <<>> /\ strand' = Tail(strand)
        /\ UNCHANGED <<closing, tx, pending, wire>>
    BY DEF RunWrote, Running, life, queues
  <1>2. \A q \in Requests : q \in Ids(batch) => fate[q] \in Begun
    BY <1>1, BatchBegun
  <1>3. \A r \in Requests : /\ fate'[r] \in Begun <=> fate[r] \in Begun
                            /\ fate[r] = "waiting" => fate'[r] = "waiting"
    BY <1>1, <1>2, CompletePhase
  <1>4. LossPhaseIsTrue'
    BY <1>1, <1>3 DEF Taken, LossPhaseIsTrue, Begun
  <1>5. Ids(batch') = {}
    BY <1>1, SMT DEF Ids
  <1>6. /\ tx \in Seq(Items) /\ pending \in Seq(Items)
    BY DEF TypeOK, QueuesType
  <1>7. \A x \in Items : x.id \in Requests
    BY DEF Items
  <1>8. ASSUME ~closing PROVE Waiting'
    <2>0. Waiting
      BY <1>8 DEF Taken
    <2>1. \A i \in 1 .. Len(tx) : fate'[tx[i].id] = "waiting"
      BY <1>3, <1>6, <1>7, <2>0, SMT DEF Waiting
    <2>2. \A i \in 1 .. Len(pending) : fate'[pending[i].id] = "waiting"
      BY <1>3, <1>6, <1>7, <2>0, SMT DEF Waiting
    <2>3. PICK k \in Nat : Shifted(k)
      BY <1>1, StrandShifted
    <2>4. ASSUME NEW j \in 1 .. Len(strand'), IsWrite(strand'[j])
          PROVE  fate'[strand'[j].id] = "waiting"
      <3>1. j + k \in 1 .. Len(strand) /\ strand'[j] = strand[j + k]
        BY <2>3, <2>4 DEF Shifted
      <3>2. strand'[j].id \in Requests /\ fate[strand'[j].id] = "waiting"
        BY <2>0, <2>4, <3>1 DEF HandlersOK, IsWrite, Waiting
      <3>3. QED
        BY <1>3, <3>2
    <2>5. QED
      BY <1>1, <2>1, <2>2, <2>4 DEF Waiting
  <1>9. QED
    BY <1>1, <1>4, <1>5, <1>8 DEF Taken

\* No step of a session breaks the agreement of ledger and wire.
LEMMA StepTaken ==
  ASSUME TypeOK, HandlersOK, GatherUsable, FreshUnused, Ended, Control, Order, Known, Taken,
         SessionStep
  PROVE  Taken'
  <1>0. /\ batch \in Seq(Items) /\ tx \in Seq(Items) /\ pending \in Seq(Items)
        /\ strand \in Seq(Handlers)
    BY DEF TypeOK, WriteType, QueuesType, StrandType
  <1>1. ASSUME Waiting, fate' = fate, UNCHANGED <<tx, pending>>,
               pc' = "gather" => (pc = "gather" /\ batch' = batch) \/ batch' = <<>>,
               StrandEvents \/ (strand # <<>> /\ strand' = Tail(strand))
        PROVE  Waiting'
    <2>1. \A j \in 1 .. Len(strand') : IsWrite(strand'[j]) => fate'[strand'[j].id] = "waiting"
      BY <1>1, StrandWaits
    <2>2. pc' = "gather" => \A i \in 1 .. Len(batch') : fate'[batch'[i].id] = "waiting"
      BY <1>1, SMT DEF Waiting
    <2>3. QED
      BY <1>1, <2>1, <2>2 DEF Waiting
  <1>2. CASE EventStep
    <2>1. /\ UNCHANGED <<wire, tx, batch, pending, fate, closing>> /\ StrandEvents
          /\ (pc' = pc \/ (pc = "initiate" /\ pc' = "idle"))
      BY <1>2 DEF EventStep, queues, write
    <2>2. ~closing => Waiting'
      BY <1>1, <2>1 DEF Taken
    <2>3. QED
      BY <2>1, <2>2, MovesTaken
  <1>3. CASE StopStep
    <2>1. /\ UNCHANGED <<wire, batch, pc>> /\ closing' /\ fate' = LedgerEnd(fate, "stop")
      BY <1>3 DEF StopStep, write, control
    <2>2. \A r \in Requests : fate'[r] \in Begun <=> fate[r] \in Begun
      BY <2>1, EndPhase
    <2>3. QED
      BY <2>1, <2>2, ClosingTaken
  <1>4. CASE CloseStep
    <2>1. /\ UNCHANGED wire /\ pc # "gather" /\ pc' = "idle"
          /\ batch' = batch \/ batch' = <<>>
      BY <1>4 DEF CloseStep, CloseFrame
    <2>2. CASE FirstClose
      <3>1. PICK f : ClosingLedger(f) /\ fate' = LedgerEnd(f, "loss")
        BY <2>2 DEF FirstClose
      <3>2. \A r \in Requests : fate'[r] \in Begun <=> fate[r] \in Begun
        BY <2>1, <3>1, ClosingPhase, EndPhase
      <3>3. closing'
        BY <2>2 DEF FirstClose
      <3>4. QED
        BY <2>1, <3>2, <3>3, ClosingTaken
    <2>3. CASE CloseAgain
      <3>1. \A r \in Requests : fate'[r] \in Begun <=> fate[r] \in Begun
        BY <2>1, <2>3, ClosingPhase DEF CloseAgain
      <3>2. closing'
        BY <2>3 DEF CloseAgain, Ended
      <3>3. QED
        BY <2>1, <3>1, <3>2, ClosingTaken
    <2>4. QED
      BY <1>4, <2>2, <2>3, CloseOnce
  <1>5. CASE Callers
    BY <1>5, AcceptTaken
  <1>6. CASE RunPlainClosed \/ RunWroteClosed
    <2>1. /\ UNCHANGED <<wire, tx, pending, fate, closing>> /\ pc' = "idle" /\ pc = "idle"
          /\ strand # <<>> /\ strand' = Tail(strand)
          /\ batch' = batch \/ batch' = <<>>
      BY <1>6 DEF RunPlainClosed, RunWroteClosed, Running, Done, Skip, queues, control, life, write
    <2>2. ~closing => Waiting'
      BY <1>1, <2>1 DEF Taken
    <2>3. QED
      BY <2>1, <2>2, MovesTaken
  <1>7. CASE RunPlain \/ ClearBackpressure \/ RearmBackpressure
    <2>1. /\ UNCHANGED <<wire, tx, pending, batch, fate, closing, strand>>
          /\ pc # "gather" /\ pc' # "gather"
      BY <1>7 DEF RunPlain, ClearBackpressure, RearmBackpressure, Running, queues, life, write
    <2>2. ~closing => Waiting'
      BY <1>1, <2>1 DEF Taken, StrandEvents
    <2>3. QED
      BY <2>1, <2>2, MovesTaken
  <1>8. ASSUME Waiting, fate' = fate, strand # <<>>, IsWrite(Head(strand)), strand' = Tail(strand),
               NEW op, NEW x, x = Item(Head(strand).id, Head(strand).n, op), op \in {"plain", "try"},
               pc' # "gather",
               \/ tx' = Append(tx, x) /\ UNCHANGED pending
               \/ pending' = Append(pending, x) /\ UNCHANGED tx
        PROVE  Waiting'
    <2>1. 1 \in 1 .. Len(strand) /\ Head(strand) = strand[1] /\ Head(strand) \in Handlers
      BY <1>8, NonEmptyLen DEF TypeOK, StrandType
    <2>2. Head(strand).id \in Requests /\ Head(strand).n \in Nat
      BY <1>8, <2>1 DEF HandlersOK, IsWrite, Handlers
    <2>3. x \in Items /\ x.id = Head(strand).id
      BY <1>8, <2>2 DEF Item, Items
    <2>4. fate[x.id] = "waiting"
      BY <1>8, <2>1, <2>3 DEF Waiting
    <2>5. \A j \in 1 .. Len(strand') : IsWrite(strand'[j]) => fate'[strand'[j].id] = "waiting"
      BY <1>8, StrandWaits
    <2>6. /\ \A i \in 1 .. Len(Append(tx, x)) : fate[Append(tx, x)[i].id] = "waiting"
          /\ \A i \in 1 .. Len(Append(pending, x)) : fate[Append(pending, x)[i].id] = "waiting"
      <3>1. /\ \A i \in 1 .. Len(tx) : fate[tx[i].id] = "waiting"
            /\ \A i \in 1 .. Len(pending) : fate[pending[i].id] = "waiting"
        BY <1>8 DEF Waiting
      <3>2. x \in Items
        BY <2>3
      <3>3. \A i \in 1 .. Len(Append(tx, x)) : fate[Append(tx, x)[i].id] = "waiting"
        BY ONLY <1>0, <2>4, <3>1, <3>2, AppendWaits, Zenon
      <3>4. \A i \in 1 .. Len(Append(pending, x)) : fate[Append(pending, x)[i].id] = "waiting"
        BY ONLY <1>0, <2>4, <3>1, <3>2, AppendWaits, Zenon
      <3>5. QED
        BY <3>3, <3>4
    <2>7. /\ \A i \in 1 .. Len(tx') : fate'[tx'[i].id] = "waiting"
          /\ \A i \in 1 .. Len(pending') : fate'[pending'[i].id] = "waiting"
      BY <1>8, <2>6 DEF Waiting
    <2>8. QED
      BY <1>8, <2>5, <2>7 DEF Waiting
  <1>9. CASE Commit
    <2>1. /\ pc = "commit" /\ strand # <<>> /\ strand[1].op = "plain"
          /\ decision \in {"Immediate", "Pending"}
      BY <1>9 DEF Commit, HandlersOK
    <2>2. IsWrite(Head(strand))
      BY <2>1, NonEmptyLen DEF TypeOK, StrandType, IsWrite
    <2>3. strand' = Tail(strand) /\ UNCHANGED <<wire, closing, batch>>
      BY <1>9 DEF Commit, life, write
    <2> DEFINE x == Item(Head(strand).id, Head(strand).n, "plain")
    <2>4. /\ fate' = fate /\ pc' # "gather"
          /\ \/ tx' = Append(tx, x) /\ UNCHANGED pending
             \/ pending' = Append(pending, x) /\ UNCHANGED tx
      BY <1>9, <2>1 DEF Commit, EnqueueImmediate, EnqueuePending
    <2>5. Waiting => Waiting'
      <3> HIDE DEF x
      <3>1. x = Item(Head(strand).id, Head(strand).n, "plain")
        BY DEF x
      <3>2. QED
        BY <1>8, <2>1, <2>2, <2>3, <2>4, <3>1
    <2>6. ~closing => Waiting'
      BY <2>5 DEF Taken
    <2>7. QED
      BY <2>1, <2>3, <2>4, <2>6, MovesTaken
  <1>10. CASE RunTry
    <2>1. /\ pc = "idle" /\ strand # <<>> /\ Head(strand).op = "try" /\ strand' = Tail(strand)
          /\ pc' # "gather"
          /\ UNCHANGED <<wire, pending, fate, closing, batch>>
      BY <1>10 DEF RunTry, Running, life, write
    <2>2. CASE ~Usable
      <3>1. UNCHANGED tx
        BY <1>10, <2>2 DEF RunTry
      <3>2. ~closing => Waiting'
        BY <1>1, <2>1, <3>1 DEF Taken
      <3>3. QED
        BY <2>1, <3>2, MovesTaken
    <2>3. CASE Usable
      <3> DEFINE x == Item(Head(strand).id, Head(strand).n, "try")
      <3>1. tx' = Append(tx, x)
        BY <1>10, <2>3 DEF RunTry
      <3>2. IsWrite(Head(strand))
        BY <2>1 DEF IsWrite
      <3>3. x = Item(Head(strand).id, Head(strand).n, "try")
        OBVIOUS
      <3> HIDE DEF x
      <3>4. Waiting => Waiting'
        BY <1>8, <2>1, <3>1, <3>2, <3>3
      <3>5. ~closing => Waiting'
        BY <3>4 DEF Taken
      <3>6. QED
        BY <2>1, <3>5, MovesTaken
    <2>4. QED
      BY <2>2, <2>3
  <1>11. CASE Report
    <2>1. /\ pc = "report" /\ report_backpressure(queue_bytes, "after")
          /\ UNCHANGED <<wire, fate, closing, strand, batch>>
      BY <1>11 DEF Report, life, write
    <2>2. /\ pc' \in {"after", "flushed"}
          /\ \/ UNCHANGED <<tx, pending>>
             \/ tx' = tx \o pending /\ pending' = <<>>
      BY <2>1 DEF report_backpressure, queues
    <2>3. CASE UNCHANGED <<tx, pending>>
      <3>1. ~closing => Waiting'
        BY <1>1, <2>1, <2>2, <2>3 DEF Taken, StrandEvents
      <3>2. QED
        BY <2>1, <2>2, <3>1, MovesTaken
    <2>4. CASE tx' = tx \o pending /\ pending' = <<>>
      <3>1. ASSUME ~closing PROVE Waiting'
        <4>1. Waiting
          BY <3>1 DEF Taken
        <4>2. \A i \in 1 .. Len(tx \o pending) : fate[(tx \o pending)[i].id] = "waiting"
          <5>1. /\ \A i \in 1 .. Len(tx) : fate[tx[i].id] = "waiting"
                /\ \A i \in 1 .. Len(pending) : fate[pending[i].id] = "waiting"
            BY <4>1 DEF Waiting
          <5>2. QED
            BY ONLY <1>0, <5>1, JoinWaits, SMT
        <4>3. /\ \A i \in 1 .. Len(tx') : fate'[tx'[i].id] = "waiting"
              /\ Len(pending') = 0 /\ pc' # "gather"
          BY <2>1, <2>2, <2>4, <4>2
        <4>4. \A j \in 1 .. Len(strand') : IsWrite(strand'[j]) => fate'[strand'[j].id] = "waiting"
          BY <2>1, <4>1 DEF Waiting
        <4>5. QED
          BY <4>3, <4>4, SMT DEF Waiting
      <3>2. QED
        BY <2>1, <2>2, <3>1, MovesTaken
    <2>5. QED
      BY <2>2, <2>3, <2>4
  <1>12. CASE DoWriteStep
    <2>1. /\ UNCHANGED <<wire, tx, pending, fate, closing, strand>> /\ pc = "after"
          /\ \/ pc' = "idle" /\ batch' = batch
             \/ pc' = "gather" /\ batch' = <<>>
      BY <1>12 DEF DoWriteStep, queues, life
    <2>2. ~closing => Waiting'
      BY <1>1, <2>1 DEF Taken, StrandEvents
    <2>3. QED
      BY <2>1, <2>2, MovesTaken
  <1>13. CASE Gather
    <2>1. /\ UNCHANGED <<wire, pending, fate, closing, strand, pc>> /\ pc = "gather"
          /\ tx # <<>> /\ batch' = Append(batch, Head(tx)) /\ tx' = Tail(tx)
      BY <1>13 DEF Gather, GatherMore, life, control
    <2>2. ASSUME ~closing PROVE Waiting'
      <3>1. Waiting
        BY <2>2 DEF Taken
      <3>2. Head(tx) \in Items /\ fate[Head(tx).id] = "waiting"
        BY <1>0, <2>1, <3>1, NonEmptyLen DEF Waiting
      <3>3. /\ \A i \in 1 .. Len(Append(batch, Head(tx))) : fate[Append(batch, Head(tx))[i].id] = "waiting"
            /\ \A i \in 1 .. Len(Tail(tx)) : fate[Tail(tx)[i].id] = "waiting"
        <4>1. /\ \A i \in 1 .. Len(tx) : fate[tx[i].id] = "waiting"
              /\ \A i \in 1 .. Len(batch) : fate[batch[i].id] = "waiting"
          BY <2>1, <3>1 DEF Waiting
        <4>2. tx # <<>>
          BY <2>1
        <4>3. \A i \in 1 .. Len(Append(batch, Head(tx))) : fate[Append(batch, Head(tx))[i].id] = "waiting"
          BY ONLY <1>0, <3>2, <4>1, AppendWaits, Zenon
        <4>4. \A i \in 1 .. Len(Tail(tx)) : fate[Tail(tx)[i].id] = "waiting"
          BY ONLY <1>0, <4>1, <4>2, TailWaits, Zenon
        <4>5. QED
          BY <4>3, <4>4
      <3>4. QED
        BY <2>1, <3>1, <3>3 DEF Waiting
    <2>3. QED
      BY <2>1, <2>2, MovesTaken
  <1>14. CASE BeginBatch
    BY <1>14, BeginTaken
  <1>15. CASE RunWrote
    BY <1>15, WroteTaken
  <1>16. QED
    BY <1>2, <1>3, <1>4, <1>5, <1>6, <1>7, <1>9, <1>10, <1>11, <1>12, <1>13, <1>14, <1>15
       DEF SessionStep

-----------------------------------------------------------------------------
(* How the front of the line moves.                                          *)

\* Appending an item to a queue appends what it offers.
LEMMA OfferedAppend ==
  ASSUME NEW s \in Seq(Items), NEW x \in Items
  PROVE  Offered(Append(s, x)) = Append(Offered(s), Slot(x)) /\ Slot(x) \in Slots
  <1>1. Slot(x) \in Slots
    BY DEF Items, Slots, Slot
  <1>2. Append(s, x) \in Seq(Items) /\ Len(Append(s, x)) = Len(s) + 1
    BY SMT
  <1>3. /\ Offered(Append(s, x)) \in Seq(Slots) /\ Len(Offered(Append(s, x))) = Len(s) + 1
        /\ \A i \in 1 .. Len(s) + 1 : Offered(Append(s, x))[i] = Slot(Append(s, x)[i])
    BY <1>2, OfferedSeq
  <1>4. /\ Offered(s) \in Seq(Slots) /\ Len(Offered(s)) = Len(s)
        /\ \A i \in 1 .. Len(s) : Offered(s)[i] = Slot(s[i])
    BY OfferedSeq
  <1>5. /\ Append(Offered(s), Slot(x)) \in Seq(Slots)
        /\ Len(Append(Offered(s), Slot(x))) = Len(s) + 1
    BY <1>1, <1>4, SMT
  <1>6. ASSUME NEW i \in 1 .. Len(s) + 1
        PROVE  Offered(Append(s, x))[i] = Append(Offered(s), Slot(x))[i]
    <2>1. CASE i = Len(s) + 1
      BY <1>1, <1>3, <1>4, <2>1, SMT
    <2>2. CASE i # Len(s) + 1
      <3>1. i \in 1 .. Len(s)
        BY <2>2, SMT
      <3>2. Append(s, x)[i] = s[i]
        BY <3>1, SMT
      <3>3. Append(Offered(s), Slot(x))[i] = Offered(s)[i]
        BY <1>1, <1>4, <3>1, SMT
      <3>4. QED
        BY <1>3, <1>4, <3>1, <3>2, <3>3
    <2>3. QED
      BY <2>1, <2>2
  <1>7. QED
    BY <1>1, <1>3, <1>5, <1>6, SameSeq

\* Joining two queues joins what they offer.
LEMMA OfferedConcat ==
  ASSUME NEW s \in Seq(Items), NEW t \in Seq(Items)
  PROVE  Offered(s \o t) = Offered(s) \o Offered(t)
  <1>1. /\ s \o t \in Seq(Items) /\ Len(s \o t) = Len(s) + Len(t)
        /\ \A i \in 1 .. Len(s) : (s \o t)[i] = s[i]
        /\ \A i \in 1 .. Len(t) : (s \o t)[Len(s) + i] = t[i]
    BY ConcatAt, SMT
  <1> DEFINE a == Offered(s)
             b == Offered(t)
             c == Offered(s \o t)
  <1>2. /\ a \in Seq(Slots) /\ Len(a) = Len(s)
        /\ \A i \in 1 .. Len(s) : a[i] = Slot(s[i])
    BY OfferedSeq
  <1>3. /\ b \in Seq(Slots) /\ Len(b) = Len(t)
        /\ \A i \in 1 .. Len(t) : b[i] = Slot(t[i])
    BY OfferedSeq
  <1>4. /\ c \in Seq(Slots) /\ Len(c) = Len(s) + Len(t)
        /\ \A i \in 1 .. Len(s) + Len(t) : c[i] = Slot((s \o t)[i])
    BY <1>1, OfferedSeq
  <1>5. Len(s) \in Nat /\ Len(t) \in Nat
    BY SMT
  <1> HIDE DEF a, b, c
  <1>6. /\ a \o b \in Seq(Slots) /\ Len(a \o b) = Len(a) + Len(b)
        /\ \A i \in 1 .. Len(a) : (a \o b)[i] = a[i]
        /\ \A i \in 1 .. Len(b) : (a \o b)[Len(a) + i] = b[i]
    <2>1. a \in Seq(Slots) /\ b \in Seq(Slots)
      BY <1>2, <1>3
    <2>2. QED
      BY ONLY <2>1, ConcatAt, SMT
  <1>7. ASSUME NEW i \in 1 .. Len(c) PROVE c[i] = (a \o b)[i]
    <2>0. i \in 1 .. Len(s) + Len(t) /\ c[i] = Slot((s \o t)[i])
      BY <1>4, <1>7
    <2>1. CASE i \in 1 .. Len(s)
      <3>1. (a \o b)[i] = a[i] /\ a[i] = Slot(s[i])
        BY <1>2, <1>6, <2>1
      <3>2. QED
        BY <1>1, <2>0, <2>1, <3>1
    <2>2. CASE i \notin 1 .. Len(s)
      <3>1. PICK j \in 1 .. Len(t) : i = Len(s) + j
        <4>1. i - Len(s) \in 1 .. Len(t) /\ i = Len(s) + (i - Len(s))
          BY <1>5, <2>0, <2>2, SMT
        <4>2. QED
          BY <4>1
      <3>2. (a \o b)[Len(s) + j] = b[j] /\ b[j] = Slot(t[j])
        BY <1>2, <1>3, <1>6
      <3>3. QED
        BY <1>1, <2>0, <3>1, <3>2
    <2>3. QED
      BY <2>1, <2>2
  <1>8. Len(a \o b) = Len(c) /\ c \in Seq(Slots) /\ a \o b \in Seq(Slots)
    BY <1>2, <1>3, <1>4, <1>6
  <1>9. c = a \o b
    BY <1>7, <1>8, SameSeq
  <1>10. QED
    BY <1>9 DEF a, b, c

\* Concatenation is associative.
LEMMA Assoc ==
  ASSUME NEW S, NEW a \in Seq(S), NEW b \in Seq(S), NEW c \in Seq(S)
  PROVE  (a \o b) \o c = a \o (b \o c)
  BY SMT

\* Appending to the second of two sequences appends to both.
LEMMA AppendLast ==
  ASSUME NEW S, NEW a \in Seq(S), NEW b \in Seq(S), NEW e \in S
  PROVE  a \o Append(b, e) = Append(a \o b, e)
  BY SMT

\* One element moves from the front of c to the end of b.
LEMMA MoveOne ==
  ASSUME NEW S, NEW d \in Seq(S), NEW c \in Seq(S), c # <<>>
  PROVE  Append(d, Head(c)) \o Tail(c) = d \o c
  <1>1. Head(c) \in S /\ Tail(c) \in Seq(S) /\ <<Head(c)>> \in Seq(S)
    BY SMT
  <1>2. Append(d, Head(c)) = d \o <<Head(c)>>
    BY SMT
  <1>3. <<Head(c)>> \o Tail(c) = c
    BY SMT
  <1>4. (d \o <<Head(c)>>) \o Tail(c) = d \o (<<Head(c)>> \o Tail(c))
    BY ONLY <1>1, Assoc, SMT
  <1>5. QED
    BY <1>2, <1>3, <1>4

\* A request is queued.
LEMMA FrontAppend ==
  ASSUME TypeOK, NEW x \in Items, tx' = Append(tx, x), wire' = wire, Gathering' = Gathering
  PROVE  Front' = Append(Front, Slot(x)) /\ Slot(x) \in Slots
  <1>1. Offered(tx') = Append(Offered(tx), Slot(x)) /\ Slot(x) \in Slots
    BY OfferedAppend DEF TypeOK, QueuesType
  <1> DEFINE a == wire \o Offered(Gathering)
             b == Offered(tx)
  <1>2. a \in Seq(Slots) /\ b \in Seq(Slots)
    BY FrontType
  <1>3. Front = a \o b /\ Front' = a \o Append(b, Slot(x))
    BY <1>1 DEF Front
  <1> HIDE DEF a, b
  <1>4. a \o Append(b, Slot(x)) = Append(a \o b, Slot(x))
    BY ONLY <1>1, <1>2, AppendLast, SMT
  <1>5. QED
    BY <1>1, <1>3, <1>4

\* The held-back requests are queued.
LEMMA FrontFlush ==
  ASSUME TypeOK, tx' = tx \o pending, wire' = wire, Gathering' = Gathering
  PROVE  Front' = Front \o Offered(pending)
  <1>1. Offered(tx') = Offered(tx) \o Offered(pending) /\ Offered(pending) \in Seq(Slots)
    BY OfferedConcat, OfferedSeq DEF TypeOK, QueuesType
  <1> DEFINE a == wire \o Offered(Gathering)
             b == Offered(tx)
             c == Offered(pending)
  <1>2. a \in Seq(Slots) /\ b \in Seq(Slots) /\ c \in Seq(Slots)
    BY <1>1, FrontType
  <1>3. Front = a \o b /\ Front' = a \o (b \o c)
    BY <1>1 DEF Front
  <1> HIDE DEF a, b, c
  <1>4. (a \o b) \o c = a \o (b \o c)
    BY ONLY <1>2, Assoc, SMT
  <1>5. Front' = Front \o c
    BY <1>3, <1>4
  <1>6. QED
    BY <1>5 DEF c

\* take_gather_batch and the end of do_write's critical section move requests
\* along the line, and change nothing about it.
LEMMA FrontGather ==
  ASSUME TypeOK, Gather
  PROVE  Front' = Front
  <1>1. /\ pc = "gather" /\ pc' = "gather" /\ wire' = wire
        /\ tx # <<>> /\ batch' = Append(batch, Head(tx)) /\ tx' = Tail(tx)
    BY DEF Gather, GatherMore, control
  <1>2. Gathering = batch /\ Gathering' = batch'
    BY <1>1 DEF Gathering
  <1>3. /\ tx \in Seq(Items) /\ batch \in Seq(Items)
        /\ Head(tx) \in Items /\ Tail(tx) \in Seq(Items)
    BY <1>1, SMT DEF TypeOK, QueuesType, WriteType
  <1>4. batch' \o tx' = batch \o tx
    BY <1>1, <1>3, MoveOne
  <1>5. batch' \in Seq(Items) /\ tx' \in Seq(Items)
    BY <1>1, <1>3, SMT
  <1>6. Offered(batch' \o tx') = Offered(batch') \o Offered(tx')
    BY <1>5, OfferedConcat
  <1>7. Offered(batch \o tx) = Offered(batch) \o Offered(tx)
    BY <1>3, OfferedConcat
  <1> DEFINE b == Offered(batch)
             c == Offered(tx)
             d == Offered(batch')
             e == Offered(tx')
  <1>8. /\ wire \in Seq(Slots) /\ b \in Seq(Slots) /\ c \in Seq(Slots)
        /\ d \in Seq(Slots) /\ e \in Seq(Slots)
    BY <1>3, <1>5, OfferedSeq, FrontType
  <1>9. d \o e = b \o c
    BY <1>4, <1>6, <1>7
  <1>10. Front = (wire \o b) \o c
    BY <1>2 DEF Front
  <1>11. Front' = (wire \o d) \o e
    BY <1>1, <1>2 DEF Front
  <1> HIDE DEF b, c, d, e
  <1> DEFINE Cat(x, y) == x \o y
             S == Seq(Slots)
  <1>12. \A w, x, y \in S : Cat(Cat(w, x), y) = Cat(w, Cat(x, y))
    BY ONLY Assoc, SMT
  <1>13. wire \in S /\ b \in S /\ c \in S /\ d \in S /\ e \in S
    BY ONLY <1>8
  <1>14. /\ Cat(d, e) = Cat(b, c)
         /\ Front = Cat(Cat(wire, b), c) /\ Front' = Cat(Cat(wire, d), e)
    BY ONLY <1>9, <1>10, <1>11
  <1> HIDE DEF Cat, S
  <1>15. Cat(Cat(wire, b), c) = Cat(wire, Cat(b, c))
    BY ONLY <1>12, <1>13, SMT
  <1>16. Cat(Cat(wire, d), e) = Cat(wire, Cat(d, e))
    BY ONLY <1>12, <1>13, SMT
  <1>17. QED
    BY ONLY <1>14, <1>15, <1>16

\* begin_batch moves the gathered batch onto the wire: the line is the same.
LEMMA FrontBegin ==
  ASSUME TypeOK, BeginBatch
  PROVE  Front' = Front
  <1>1. /\ pc = "gather" /\ pc' = "initiate" /\ wire' = wire \o Offered(batch)
        /\ UNCHANGED <<tx, batch>>
    BY DEF BeginBatch, queues, write
  <1>2. Gathering = batch /\ Gathering' = <<>>
    BY <1>1 DEF Gathering
  <1>3. Offered(<<>>) = <<>>
    BY SMT DEF Offered
  <1>4. Front = wire' \o Offered(tx) /\ Front' = (wire' \o <<>>) \o Offered(tx)
    BY <1>1, <1>2, <1>3 DEF Front
  <1>5. wire' \in Seq(Slots)
    BY <1>1, <1>2, FrontType
  <1>6. wire' \o <<>> = wire'
    BY <1>5, SMT
  <1>7. QED
    BY <1>4, <1>6

\* Nothing moves.
LEMMA FrontSame ==
  ASSUME UNCHANGED <<wire, tx>>, Gathering' = Gathering
  PROVE  Front' = Front
  BY DEF Front

\* do_close drops what was not written.
LEMMA FrontCut ==
  ASSUME TypeOK, tx' = <<>>, wire' = wire, Gathering' = <<>>
  PROVE  Front' = wire
  <1>1. Offered(<<>>) = <<>>
    BY SMT DEF Offered
  <1>2. wire \in Seq(Slots)
    BY FrontType
  <1>3. Front' = (wire \o <<>>) \o <<>>
    BY <1>1 DEF Front
  <1>4. QED
    BY <1>2, <1>3, SMT

\* The wire is the beginning of the line.
LEMMA WireInFront ==
  ASSUME TypeOK
  PROVE  /\ Len(wire) \in Nat /\ Len(Front) \in Nat /\ Len(wire) <= Len(Front)
         /\ \A i \in 1 .. Len(wire) : Front[i] = wire[i]
  <1> DEFINE b == Offered(Gathering)
             c == Offered(tx)
  <1>1. wire \in Seq(Slots) /\ b \in Seq(Slots) /\ c \in Seq(Slots)
    BY FrontType
  <1>2. Front = (wire \o b) \o c
    BY DEF Front
  <1> HIDE DEF b, c
  <1>3. (wire \o b) \o c = wire \o (b \o c) /\ b \o c \in Seq(Slots)
    BY ONLY <1>1, Assoc, ConcatSeq, SMT
  <1>4. /\ Len(wire \o (b \o c)) = Len(wire) + Len(b \o c)
        /\ \A i \in 1 .. Len(wire) : (wire \o (b \o c))[i] = wire[i]
    BY ONLY <1>1, <1>3, ConcatAt, SMT
  <1>5. Len(wire) \in Nat /\ Len(b \o c) \in Nat
    BY <1>1, <1>3, SMT
  <1>6. QED
    BY <1>2, <1>3, <1>4, <1>5, SMT

-----------------------------------------------------------------------------
(* How the steps keep the order.                                             *)

\* Steps that add nothing to the line.
LEMMA OrderShrinks ==
  ASSUME TypeOK, Order, Known,
         Len(Front) \in Nat, Len(Front') \in Nat, Len(Front') <= Len(Front),
         \A i \in 1 .. Len(Front') : Front'[i] = Front[i],
         pending' = pending \/ pending' = <<>>,
         NEW k \in Nat, Shifted(k),
         accepted' = accepted
  PROVE  Order' /\ Known'
  <1>1. \A i \in 1 .. Len(Front') : i \in 1 .. Len(Front) /\ Front'[i] = Front[i]
    BY SMT
  <1>2. pending \in Seq(Items) /\ strand \in Seq(Handlers)
    BY DEF TypeOK, QueuesType, StrandType
  <1>3. \A i \in 1 .. Len(pending') : i \in 1 .. Len(pending) /\ pending'[i] = pending[i]
    <2>1. CASE pending' = pending
      BY <2>1
    <2>2. CASE pending' = <<>>
      BY <2>2, SMT
    <2>3. QED
      BY <2>1, <2>2
  <1>4. \A i, j \in 1 .. Len(Front') : i < j => Before(Front'[i], Front'[j])
    BY <1>1 DEF Order
  <1>5. \A i, j \in 1 .. Len(pending') : i < j => Before(pending'[i], pending'[j])
    BY <1>3 DEF Order
  <1>6. \A i \in 1 .. Len(Front'), j \in 1 .. Len(pending') : Before(Front'[i], pending'[j])
    BY <1>1, <1>3 DEF Order
  <1>7. ASSUME NEW i \in 1 .. Len(strand'), NEW j \in 1 .. Len(strand'), i < j,
               IsWrite(strand'[i]), IsWrite(strand'[j])
        PROVE  strand'[i].id < strand'[j].id
    <2>1. /\ i + k \in 1 .. Len(strand) /\ strand'[i] = strand[i + k]
          /\ j + k \in 1 .. Len(strand) /\ strand'[j] = strand[j + k]
      BY <1>7 DEF Shifted
    <2>2. i + k < j + k
      BY <1>7, SMT
    <2>3. QED
      BY <1>7, <2>1, <2>2 DEF Order
  <1>8. \A i \in 1 .. Len(Front'), j \in 1 .. Len(strand') :
          IsWrite(strand'[j]) => Before(Front'[i], Posted(strand'[j]))
    BY <1>1 DEF Order, Shifted
  <1>9. \A i \in 1 .. Len(pending'), j \in 1 .. Len(strand') :
          IsWrite(strand'[j]) => Before(pending'[i], Posted(strand'[j]))
    BY <1>3 DEF Order, Shifted
  <1>10. \A i \in 1 .. Len(pending') : pending'[i].kind = "plain"
    BY <1>3 DEF Order
  <1>11. Order'
    BY <1>4, <1>5, <1>6, <1>7, <1>8, <1>9, <1>10 DEF Order
  <1>12. /\ \A i \in 1 .. Len(Front') : Front'[i].id <= accepted'
         /\ \A i \in 1 .. Len(pending') : pending'[i].id <= accepted'
    BY <1>1, <1>3 DEF Known
  <1>13. \A i \in 1 .. Len(strand') : IsWrite(strand'[i]) => strand'[i].id <= accepted'
    BY DEF Known, Shifted
  <1>14. Known'
    BY <1>12, <1>13 DEF Known
  <1>15. QED
    BY <1>11, <1>14

\* The write at the head of the strand stands before every other one on it and
\* behind the whole line.
LEMMA HeadOrdered ==
  ASSUME TypeOK, HandlersOK, Order, Known, strand # <<>>, IsWrite(Head(strand))
  PROVE  LET h == Posted(Head(strand)) IN
         /\ h \in Slots /\ h.id <= accepted
         /\ \A i \in 1 .. Len(Front) : Before(Front[i], h)
         /\ \A i \in 1 .. Len(pending) : Before(pending[i], h)
         /\ \A j \in 1 .. Len(strand) :
               j > 1 /\ IsWrite(strand[j]) => Before(h, Posted(strand[j]))
  <1>1. /\ 1 \in 1 .. Len(strand) /\ Head(strand) = strand[1] /\ Len(strand) \in Nat
    BY NonEmptyLen DEF TypeOK, StrandType
  <1>2. strand[1].id \in Requests /\ strand[1].id <= accepted /\ strand[1].op \in {"plain", "try"}
    BY <1>1 DEF HandlersOK, Known, IsWrite
  <1>3. Posted(strand[1]) \in Slots /\ Posted(strand[1]).id <= accepted
    BY <1>2 DEF Posted, Slots
  <1>4. /\ \A i \in 1 .. Len(Front) : Before(Front[i], Posted(strand[1]))
        /\ \A i \in 1 .. Len(pending) : Before(pending[i], Posted(strand[1]))
    BY <1>1 DEF Order
  <1>5. ASSUME NEW j \in 1 .. Len(strand), j > 1, IsWrite(strand[j])
        PROVE  Before(Posted(strand[1]), Posted(strand[j]))
    <2>1. strand[1].id < strand[j].id
      BY <1>1, <1>5 DEF Order
    <2>2. strand[j].id \in Nat /\ strand[1].id \in Nat
      BY <1>2, <1>5, SMT DEF HandlersOK, IsWrite, Requests
    <2>3. QED
      BY <2>1, <2>2, SMT DEF Before, Posted
  <1>6. QED
    BY <1>1, <1>3, <1>4, <1>5

\* The write at the head of the strand joins the line.
LEMMA OrderQueues ==
  ASSUME TypeOK, HandlersOK, Order, Known, strand # <<>>, IsWrite(Head(strand)),
         strand' = Tail(strand), accepted' = accepted, pending' = pending,
         Front \in Seq(Slots), Front' = Append(Front, Posted(Head(strand))),
         \A j \in 1 .. Len(pending) : Before(Posted(Head(strand)), pending[j])
  PROVE  Order' /\ Known'
  <1> DEFINE h == Posted(Head(strand))
             n == Len(Front)
  <1>1. /\ h \in Slots /\ h.id <= accepted
        /\ \A i \in 1 .. n : Before(Front[i], h)
        /\ \A j \in 1 .. Len(strand) : j > 1 /\ IsWrite(strand[j]) => Before(h, Posted(strand[j]))
    BY HeadOrdered
  <1> HIDE DEF h
  <1>2. /\ n \in Nat /\ Len(Front') = n + 1 /\ Front'[n + 1] = h
        /\ \A i \in 1 .. n : Front'[i] = Front[i]
    BY <1>1, SMT DEF h
  <1>3. /\ strand \in Seq(Handlers) /\ Len(strand) \in Nat /\ Len(strand') = Len(strand) - 1
        /\ \A j \in 1 .. Len(strand') : strand'[j] = strand[j + 1]
    BY SMT DEF TypeOK, StrandType
  <1>4. \A j \in 1 .. Len(strand') : j + 1 \in 1 .. Len(strand) /\ j + 1 > 1
    BY <1>3, SMT
  <1>5. \A i \in 1 .. Len(Front') : i = n + 1 \/ i \in 1 .. n
    BY <1>2, SMT
  <1>6. ASSUME NEW i \in 1 .. Len(Front'), NEW j \in 1 .. Len(Front'), i < j
        PROVE  Before(Front'[i], Front'[j])
    <2>1. i \in 1 .. n
      BY <1>2, <1>6, SMT
    <2>2. CASE j = n + 1
      BY <1>1, <1>2, <2>1, <2>2
    <2>3. CASE j \in 1 .. n
      BY <1>2, <1>6, <2>1, <2>3 DEF Order
    <2>4. QED
      BY <1>5, <2>2, <2>3
  <1>7. \A i \in 1 .. Len(Front'), j \in 1 .. Len(pending) : Before(Front'[i], pending[j])
    BY <1>2, <1>5 DEF Order, h
  <1>8. ASSUME NEW i \in 1 .. Len(strand'), NEW j \in 1 .. Len(strand'), i < j,
               IsWrite(strand'[i]), IsWrite(strand'[j])
        PROVE  strand'[i].id < strand'[j].id
    <2>1. i + 1 \in 1 .. Len(strand) /\ j + 1 \in 1 .. Len(strand) /\ i + 1 < j + 1
      BY <1>4, <1>8, SMT
    <2>2. QED
      BY <1>3, <1>8, <2>1 DEF Order
  <1>9. ASSUME NEW i \in 1 .. Len(Front'), NEW j \in 1 .. Len(strand'), IsWrite(strand'[j])
        PROVE  Before(Front'[i], Posted(strand'[j]))
    <2>1. j + 1 \in 1 .. Len(strand) /\ j + 1 > 1 /\ strand'[j] = strand[j + 1]
      BY <1>3, <1>4
    <2>2. CASE i = n + 1
      BY <1>1, <1>2, <1>9, <2>1, <2>2
    <2>3. CASE i \in 1 .. n
      BY <1>2, <1>9, <2>1, <2>3 DEF Order
    <2>4. QED
      BY <1>5, <2>2, <2>3
  <1>10. \A i \in 1 .. Len(pending), j \in 1 .. Len(strand') :
          IsWrite(strand'[j]) => Before(pending[i], Posted(strand'[j]))
    BY <1>3, <1>4 DEF Order
  <1>11. Order'
    BY <1>6, <1>7, <1>8, <1>9, <1>10 DEF Order
  <1>12. \A i \in 1 .. Len(Front') : Front'[i].id <= accepted
    BY <1>1, <1>2, <1>5 DEF Known
  <1>13. \A i \in 1 .. Len(strand') : IsWrite(strand'[i]) => strand'[i].id <= accepted
    BY <1>3, <1>4 DEF Known
  <1>14. Known'
    BY <1>12, <1>13 DEF Known
  <1>15. QED
    BY <1>11, <1>14

\* The write at the head of the strand is held back.
LEMMA OrderHolds ==
  ASSUME TypeOK, HandlersOK, Order, Known, strand # <<>>, Head(strand).op = "plain",
         strand' = Tail(strand), accepted' = accepted, Front' = Front,
         NEW x \in Items, x.id = Head(strand).id, x.kind = "plain",
         pending' = Append(pending, x)
  PROVE  Order' /\ Known'
  <1> DEFINE h == Posted(Head(strand))
             n == Len(pending)
  <1>1. /\ h \in Slots /\ h.id <= accepted
        /\ \A i \in 1 .. Len(Front) : Before(Front[i], h)
        /\ \A i \in 1 .. n : Before(pending[i], h)
        /\ \A j \in 1 .. Len(strand) : j > 1 /\ IsWrite(strand[j]) => Before(h, Posted(strand[j]))
    BY HeadOrdered DEF IsWrite
  <1>2. h.id = x.id /\ h.kind = x.kind
    BY DEF Posted
  <1> HIDE DEF h
  <1>3. /\ x.id <= accepted
        /\ \A i \in 1 .. Len(Front) : Before(Front[i], x)
        /\ \A i \in 1 .. n : Before(pending[i], x)
        /\ \A j \in 1 .. Len(strand) : j > 1 /\ IsWrite(strand[j]) => Before(x, Posted(strand[j]))
    BY <1>1, <1>2 DEF Before
  <1>4. /\ n \in Nat /\ Len(pending') = n + 1 /\ pending'[n + 1] = x
        /\ \A i \in 1 .. n : pending'[i] = pending[i]
    BY SMT DEF TypeOK, QueuesType
  <1>5. /\ strand \in Seq(Handlers) /\ Len(strand) \in Nat /\ Len(strand') = Len(strand) - 1
        /\ \A j \in 1 .. Len(strand') : strand'[j] = strand[j + 1]
    BY SMT DEF TypeOK, StrandType
  <1>6. \A j \in 1 .. Len(strand') : j + 1 \in 1 .. Len(strand) /\ j + 1 > 1
    BY <1>5, SMT
  <1>7. \A i \in 1 .. Len(pending') : i = n + 1 \/ i \in 1 .. n
    BY <1>4, SMT
  <1>8. ASSUME NEW i \in 1 .. Len(pending'), NEW j \in 1 .. Len(pending'), i < j
        PROVE  Before(pending'[i], pending'[j])
    <2>1. i \in 1 .. n
      BY <1>4, <1>8, SMT
    <2>2. CASE j = n + 1
      BY <1>3, <1>4, <2>1, <2>2
    <2>3. CASE j \in 1 .. n
      BY <1>4, <1>8, <2>1, <2>3 DEF Order
    <2>4. QED
      BY <1>7, <2>2, <2>3
  <1>9. \A i \in 1 .. Len(Front), j \in 1 .. Len(pending') : Before(Front[i], pending'[j])
    BY <1>3, <1>4, <1>7 DEF Order
  <1>10. ASSUME NEW i \in 1 .. Len(strand'), NEW j \in 1 .. Len(strand'), i < j,
                IsWrite(strand'[i]), IsWrite(strand'[j])
         PROVE  strand'[i].id < strand'[j].id
    <2>1. i + 1 \in 1 .. Len(strand) /\ j + 1 \in 1 .. Len(strand) /\ i + 1 < j + 1
      BY <1>6, <1>10, SMT
    <2>2. QED
      BY <1>5, <1>10, <2>1 DEF Order
  <1>11. \A i \in 1 .. Len(Front), j \in 1 .. Len(strand') :
          IsWrite(strand'[j]) => Before(Front[i], Posted(strand'[j]))
    BY <1>5, <1>6 DEF Order
  <1>12. ASSUME NEW i \in 1 .. Len(pending'), NEW j \in 1 .. Len(strand'), IsWrite(strand'[j])
         PROVE  Before(pending'[i], Posted(strand'[j]))
    <2>1. j + 1 \in 1 .. Len(strand) /\ j + 1 > 1 /\ strand'[j] = strand[j + 1]
      BY <1>5, <1>6
    <2>2. CASE i = n + 1
      BY <1>3, <1>4, <1>12, <2>1, <2>2
    <2>3. CASE i \in 1 .. n
      BY <1>4, <1>12, <2>1, <2>3 DEF Order
    <2>4. QED
      BY <1>7, <2>2, <2>3
  <1>13. \A i \in 1 .. Len(pending') : pending'[i].kind = "plain"
    BY <1>4, <1>7 DEF Order
  <1>14. Order'
    BY <1>8, <1>9, <1>10, <1>11, <1>12, <1>13 DEF Order
  <1>15. \A i \in 1 .. Len(pending') : pending'[i].id <= accepted
    BY <1>3, <1>4, <1>7 DEF Known
  <1>16. \A i \in 1 .. Len(strand') : IsWrite(strand'[i]) => strand'[i].id <= accepted
    BY <1>5, <1>6 DEF Known
  <1>17. Known'
    BY <1>15, <1>16 DEF Known
  <1>18. QED
    BY <1>14, <1>17

\* The held-back requests join the line, in their order.
LEMMA OrderFlushes ==
  ASSUME TypeOK, Order, Known, Front \in Seq(Slots),
         Front' = Front \o Offered(pending), pending' = <<>>,
         UNCHANGED <<strand, accepted>>
  PROVE  Order' /\ Known'
  <1> DEFINE n == Len(Front)
             m == Len(pending)
             c == Offered(pending)
  <1>1. /\ c \in Seq(Slots) /\ Len(c) = m
        /\ \A i \in 1 .. m : c[i] = Slot(pending[i])
    BY OfferedSeq DEF TypeOK, QueuesType
  <1>2. n \in Nat /\ m \in Nat
    BY SMT DEF TypeOK, QueuesType
  <1> HIDE DEF c
  <1>3. ASSUME NEW i \in 1 .. m
        PROVE  c[i].id = pending[i].id /\ c[i].kind = pending[i].kind
    <2>1. c[i] = Slot(pending[i])
      BY <1>1
    <2>2. QED
      BY <2>1, SMT DEF Slot
  <1>4. /\ Len(Front \o c) = Len(Front) + Len(c)
        /\ \A i \in 1 .. Len(Front) : (Front \o c)[i] = Front[i]
        /\ \A i \in 1 .. Len(c) : (Front \o c)[Len(Front) + i] = c[i]
    <2>1. Front \in Seq(Slots) /\ c \in Seq(Slots)
      BY <1>1
    <2>2. QED
      BY ONLY <2>1, ConcatAt, SMT
  <1>5. Front' = Front \o c
    BY DEF c
  <1>6. /\ Len(Front') = n + m
        /\ \A i \in 1 .. n : Front'[i] = Front[i]
        /\ \A i \in 1 .. m : Front'[n + i] = c[i]
    BY <1>1, <1>4, <1>5
  <1> HIDE DEF n, m
  <1>7. ASSUME NEW i \in 1 .. n + m
        PROVE  i \in 1 .. n \/ \E j \in 1 .. m : i = n + j
    <2>1. CASE i \in 1 .. n
      BY <2>1
    <2>2. CASE i \notin 1 .. n
      <3>1. i - n \in 1 .. m /\ i = n + (i - n)
        BY <1>2, <2>2, SMT
      <3>2. QED
        BY <3>1
    <2>3. QED
      BY <2>1, <2>2
  <1>8. ASSUME NEW i \in 1 .. Len(Front'), NEW j \in 1 .. Len(Front'), i < j
        PROVE  Before(Front'[i], Front'[j])
    <2>0. i \in 1 .. n + m /\ j \in 1 .. n + m
      BY <1>6
    <2>1. CASE j \in 1 .. n
      <3>1. i \in 1 .. n
        BY <1>2, <1>8, <2>0, <2>1, SMT
      <3>2. QED
        BY <1>6, <1>8, <2>1, <3>1 DEF Order, n
    <2>2. CASE j \notin 1 .. n
      <3>1. PICK b \in 1 .. m : j = n + b
        BY <1>7, <2>0, <2>2
      <3>2. Front'[j] = c[b]
        BY <1>6, <3>1
      <3>3. CASE i \in 1 .. n
        <4>1. Before(Front[i], pending[b])
          BY <3>3 DEF Order, n, m
        <4>2. QED
          BY <1>3, <1>6, <3>2, <3>3, <4>1 DEF Before
      <3>4. CASE i \notin 1 .. n
        <4>1. PICK a \in 1 .. m : i = n + a
          BY <1>7, <2>0, <3>4
        <4>2. a < b
          BY <1>2, <1>8, <3>1, <4>1, SMT
        <4>3. Front'[i] = c[a]
          BY <1>6, <4>1
        <4>4. Before(pending[a], pending[b])
          BY <4>2 DEF Order, m
        <4>5. QED
          BY <1>3, <3>2, <4>3, <4>4 DEF Before
      <3>5. QED
        BY <3>3, <3>4
    <2>3. QED
      BY <2>1, <2>2
  <1>9. ASSUME NEW i \in 1 .. Len(Front'), NEW j \in 1 .. Len(strand), IsWrite(strand[j])
        PROVE  Before(Front'[i], Posted(strand[j]))
    <2>0. i \in 1 .. n + m
      BY <1>6
    <2>1. CASE i \in 1 .. n
      BY <1>6, <1>9, <2>1 DEF Order, n
    <2>2. CASE i \notin 1 .. n
      <3>1. PICK a \in 1 .. m : i = n + a
        BY <1>7, <2>0, <2>2
      <3>2. Before(pending[a], Posted(strand[j]))
        BY <1>9 DEF Order, m
      <3>3. QED
        BY <1>3, <1>6, <3>1, <3>2, SMT DEF Before
    <2>3. QED
      BY <2>1, <2>2
  <1>10. ASSUME NEW i \in 1 .. Len(Front')
         PROVE  Front'[i].id <= accepted
    <2>0. i \in 1 .. n + m
      BY <1>6
    <2>1. CASE i \in 1 .. n
      BY <1>6, <2>1 DEF Known, n
    <2>2. CASE i \notin 1 .. n
      <3>1. PICK a \in 1 .. m : i = n + a
        BY <1>7, <2>0, <2>2
      <3>2. pending[a].id <= accepted
        BY DEF Known, m
      <3>3. Front'[i] = c[a] /\ c[a].id = pending[a].id
        BY <1>3, <1>6, <3>1
      <3>4. QED
        BY <3>2, <3>3
    <2>3. QED
      BY <2>1, <2>2
  <1>11. 1 .. Len(pending') = {}
    BY SMT
  <1>12. Order'
    BY <1>8, <1>9, <1>11 DEF Order
  <1>13. Known'
    BY <1>10, <1>11 DEF Known
  <1>14. QED
    BY <1>12, <1>13

\* An admission: the new request stands behind all others.
LEMMA OrderAccepts ==
  ASSUME TypeOK, HandlersOK, Order, Known, accepted' = accepted + 1,
         UNCHANGED pending, Front' = Front, Front \in Seq(Slots),
         NEW h \in Handlers, IsWrite(h), h.id = accepted + 1, strand' = Append(strand, h)
  PROVE  Order' /\ Known'
  <1> DEFINE n == Len(strand)
  <1>1. /\ accepted \in Nat /\ strand \in Seq(Handlers) /\ pending \in Seq(Items)
    BY SMT DEF TypeOK, OutcomesType, StrandType, QueuesType
  <1>2. /\ n \in Nat /\ Len(strand') = n + 1 /\ strand'[n + 1] = h
        /\ \A j \in 1 .. n : strand'[j] = strand[j]
    BY <1>1, SMT
  <1>3. \A j \in 1 .. Len(strand') : j = n + 1 \/ j \in 1 .. n
    BY <1>2, SMT
  <1>4. /\ \A i \in 1 .. Len(Front) : Front[i].id \in Nat
        /\ \A i \in 1 .. Len(pending) : pending[i].id \in Nat
    <2>1. /\ \A x \in Slots : x.id \in Nat
          /\ \A x \in Items : x.id \in Nat
      BY SMT DEF Slots, Items, Requests
    <2>2. /\ \A i \in 1 .. Len(Front) : Front[i] \in Slots
          /\ \A i \in 1 .. Len(pending) : pending[i] \in Items
      BY <1>1, SMT
    <2>3. QED
      BY <2>1, <2>2
  <1>5. \A j \in 1 .. n : IsWrite(strand[j]) => strand[j].id \in Nat
    BY SMT DEF HandlersOK, IsWrite, Requests
  <1>6. /\ \A i \in 1 .. Len(Front) : Before(Front[i], Posted(h))
        /\ \A i \in 1 .. Len(pending) : Before(pending[i], Posted(h))
    <2>1. Posted(h).id = accepted + 1
      BY DEF Posted
    <2>2. /\ \A i \in 1 .. Len(Front) : Front[i].id < accepted + 1
          /\ \A i \in 1 .. Len(pending) : pending[i].id < accepted + 1
      <3>1. \A m \in Nat : m <= accepted => m < accepted + 1
        BY <1>1, SMT
      <3>2. QED
        BY <1>4, <3>1 DEF Known
    <2>3. QED
      BY <1>4, <2>1, <2>2, SMT DEF Before
  <1>7. ASSUME NEW i \in 1 .. Len(strand'), NEW j \in 1 .. Len(strand'), i < j,
               IsWrite(strand'[i]), IsWrite(strand'[j])
        PROVE  strand'[i].id < strand'[j].id
    <2>1. i \in 1 .. n
      BY <1>2, <1>7, SMT
    <2>2. CASE j = n + 1
      <3>1. strand[i].id <= accepted /\ strand[i].id \in Nat
        BY <1>2, <1>5, <1>7, <2>1 DEF Known
      <3>2. QED
        BY <1>1, <1>2, <2>1, <2>2, <3>1, SMT
    <2>3. CASE j \in 1 .. n
      BY <1>2, <1>7, <2>1, <2>3 DEF Order
    <2>4. QED
      BY <1>3, <2>2, <2>3
  <1>8. /\ \A i \in 1 .. Len(Front), j \in 1 .. Len(strand') :
             IsWrite(strand'[j]) => Before(Front[i], Posted(strand'[j]))
        /\ \A i \in 1 .. Len(pending), j \in 1 .. Len(strand') :
             IsWrite(strand'[j]) => Before(pending[i], Posted(strand'[j]))
    BY <1>2, <1>3, <1>6 DEF Order
  <1>9. Order'
    BY <1>7, <1>8 DEF Order
  <1>10. \A i \in 1 .. Len(strand') : IsWrite(strand'[i]) => strand'[i].id <= accepted + 1
    <2>1. \A m \in Nat : m <= accepted => m <= accepted + 1
      BY <1>1, SMT
    <2>2. \A i \in 1 .. n : IsWrite(strand'[i]) => strand'[i].id <= accepted + 1
      BY <1>2, <1>5, <2>1 DEF Known
    <2>3. strand'[n + 1].id <= accepted + 1
      BY <1>1, <1>2, SMT
    <2>4. QED
      BY <1>3, <2>2, <2>3
  <1>11. /\ \A i \in 1 .. Len(Front) : Front[i].id <= accepted + 1
         /\ \A i \in 1 .. Len(pending) : pending[i].id <= accepted + 1
    <2>1. \A m \in Nat : m <= accepted => m <= accepted + 1
      BY <1>1, SMT
    <2>2. QED
      BY <1>4, <2>1 DEF Known
  <1>12. Known'
    BY <1>10, <1>11 DEF Known
  <1>13. QED
    BY <1>9, <1>12

\* One step of either session keeps what is held back.
LEMMA StepHeld ==
  ASSUME TypeOK, HandlersOK, Ended, Control, Held, SessionStep
  PROVE  Held'
  <1>1. CASE EventStep
    <2>1. UNCHANGED <<pending, backpressure_active, decision>>
          /\ (pc' = pc \/ pc' = "idle")
      BY <1>1 DEF EventStep, counters, queues
    <2>2. QED
      BY <2>1 DEF Held
  <1>2. CASE StopStep
    BY <1>2 DEF StopStep, counters, queues, control, Held
  <1>3. CASE CloseStep
    <2>1. pc' = "idle"
      BY <1>3 DEF CloseStep
    <2>2. QED
      BY <1>3, <2>1, CloseOnce DEF FirstClose, CloseAgain, Held
  <1>4. CASE Callers \/ RunPlainClosed \/ RunWroteClosed
    <2>1. UNCHANGED <<pending, backpressure_active, decision, pc>>
      BY <1>4 DEF Callers, Write, TryWrite, Admit, RunPlainClosed, RunWroteClosed, Skip, Done,
                  counters, queues, control
    <2>2. QED
      BY <2>1 DEF Held
  <1>5. CASE RunPlain
    <2>1. /\ UNCHANGED <<pending, backpressure_active>> /\ pc' = "commit"
          /\ decision' = decide_enqueue(queue_bytes, pending_bytes, backpressure_active,
                                        Head(strand).n, bp_limit)
      BY <1>5 DEF RunPlain, counters, queues
    <2>2. QED
      BY <2>1 DEF Held, decide_enqueue
  <1>6. CASE Commit
    <2>1. pc = "commit" /\ decision \in {"Immediate", "Pending"}
      BY <1>6 DEF Commit, HandlersOK
    <2>2. CASE decision = "Immediate"
      <3>1. UNCHANGED <<pending, backpressure_active>> /\ pc' = "report"
        BY <1>6, <2>2 DEF Commit, EnqueueImmediate
      <3>2. QED
        BY <3>1 DEF Held
    <2>3. CASE decision = "Pending"
      <3>1. UNCHANGED backpressure_active /\ pc' = "idle"
        BY <1>6, <2>3 DEF Commit, EnqueuePending
      <3>2. backpressure_active
        BY <2>1, <2>3 DEF Held
      <3>3. QED
        BY <3>1, <3>2 DEF Held
    <2>4. QED
      BY <2>1, <2>2, <2>3
  <1>7. CASE RunTry \/ RunWrote
    <2>1. UNCHANGED <<pending, backpressure_active>> /\ pc' \in {"idle", "report"}
      BY <1>7 DEF RunTry, RunWrote, Running, queues
    <2>2. QED
      BY <2>1 DEF Held
  <1>8. CASE Report
    <2>1. report_backpressure(queue_bytes, "after")
      BY <1>8 DEF Report
    <2>2. \/ pending' = <<>> /\ pc' = "flushed"
          \/ /\ UNCHANGED pending /\ pc' = "after"
             /\ backpressure_active' = backpressure_active \/ backpressure_active' = TRUE
      BY <2>1 DEF report_backpressure, queues
    <2>3. QED
      BY <2>2 DEF Held
  <1>9. CASE ClearBackpressure
    BY <1>9 DEF ClearBackpressure, queues, Held
  <1>10. CASE RearmBackpressure
    <2>1. /\ UNCHANGED pending /\ pc' = "after"
          /\ backpressure_active' = backpressure_active \/ backpressure_active' = TRUE
      BY <1>10 DEF RearmBackpressure, queues
    <2>2. QED
      BY <2>1 DEF Held
  <1>11. CASE DoWriteStep \/ Gather \/ BeginBatch
    <2>1. UNCHANGED <<pending, backpressure_active>> /\ pc' \in {"idle", "gather", "initiate"}
      BY <1>11 DEF DoWriteStep, Gather, BeginBatch, counters, queues, control
    <2>2. QED
      BY <2>1 DEF Held
  <1>12. QED
    BY <1>1, <1>2, <1>3, <1>4, <1>5, <1>6, <1>7, <1>8, <1>9, <1>10, <1>11 DEF SessionStep

\* One step of either session keeps the order.
LEMMA StepOrder ==
  ASSUME TypeOK, HandlersOK, Ended, Control, Held, Order, Known, SessionStep
  PROVE  Order' /\ Known'
  <1>0. /\ Front \in Seq(Slots) /\ Len(Front) \in Nat
        /\ \A i \in 1 .. Len(Front) : Front[i] = Front[i]
    BY FrontType, SMT
  <1>1. ASSUME Front' = Front, pending' = pending \/ pending' = <<>>, accepted' = accepted,
               StrandEvents \/ (strand # <<>> /\ strand' = Tail(strand))
        PROVE  Order' /\ Known'
    <2>1. PICK k \in Nat : Shifted(k)
      BY <1>1, StrandShifted
    <2>2. QED
      BY <1>0, <1>1, <2>1, OrderShrinks, SMT
  <1>2. ASSUME NEW h, h = Head(strand), strand # <<>>, IsWrite(h), NEW x, x = Item(h.id, h.n, h.op)
        PROVE  x \in Items /\ Slot(x) = Posted(h) /\ x.id = h.id /\ x.kind = h.op
    <2>1. 1 \in 1 .. Len(strand) /\ h = strand[1] /\ h \in Handlers
      BY <1>2, NonEmptyLen DEF TypeOK, StrandType
    <2>2. h.id \in Requests /\ h.n \in Nat /\ h.op \in {"plain", "try"}
      BY <1>2, <2>1 DEF HandlersOK, IsWrite, Handlers
    <2>3. QED
      BY <1>2, <2>2 DEF Item, Items, Slot, Posted
  <1>3. CASE EventStep
    <2>1. UNCHANGED <<wire, tx, batch, pending, accepted>> /\ StrandEvents
          /\ (pc' = pc \/ (pc = "initiate" /\ pc' = "idle"))
      BY <1>3 DEF EventStep, queues, write
    <2>2. Gathering' = Gathering
      BY <2>1 DEF Gathering
    <2>3. QED
      BY <1>1, <2>1, <2>2, FrontSame
  <1>4. CASE StopStep
    <2>1. UNCHANGED <<wire, tx, batch, pending, accepted, pc>> /\ StrandEvents
      BY <1>4 DEF StopStep, queues, write, control
    <2>2. Gathering' = Gathering
      BY <2>1 DEF Gathering
    <2>3. QED
      BY <1>1, <2>1, <2>2, FrontSame
  <1>5. CASE CloseStep
    <2>1. /\ UNCHANGED <<wire, accepted>> /\ StrandEvents
          /\ pc \in {"idle", "initiate"} /\ pc' = "idle"
      BY <1>5 DEF CloseStep, CloseFrame
    <2>2. Gathering = <<>> /\ Gathering' = <<>>
      BY <2>1 DEF Gathering
    <2>3. CASE CloseAgain
      <3>1. UNCHANGED <<tx, pending>>
        BY <2>3 DEF CloseAgain
      <3>2. QED
        BY <1>1, <2>1, <2>2, <3>1, FrontSame
    <2>4. CASE FirstClose
      <3>1. tx' = <<>> /\ pending' = <<>>
        BY <2>4 DEF FirstClose
      <3>2. Front' = wire
        BY <2>1, <2>2, <3>1, FrontCut
      <3>3. /\ Len(Front') \in Nat /\ Len(Front') <= Len(Front)
            /\ \A i \in 1 .. Len(Front') : Front'[i] = Front[i]
        BY <3>2, WireInFront
      <3>4. PICK k \in Nat : Shifted(k)
        BY <2>1, StrandShifted
      <3>5. QED
        BY <1>0, <2>1, <3>1, <3>3, <3>4, OrderShrinks
    <2>5. QED
      BY <1>5, <2>3, <2>4, CloseOnce
  <1>6. CASE Callers
    <2>1. PICK n \in 1 .. MaxSize : Write(n) \/ TryWrite(n)
      BY <1>6 DEF Callers
    <2>2. UNCHANGED <<wire, tx, batch, pending, pc>> /\ accepted' = accepted + 1
      BY <2>1 DEF Write, TryWrite, Admit, queues, write, control
    <2>3. /\ n \in Nat /\ accepted + 1 \in Requests /\ reserved \in Nat /\ reserved + n \in Nat
      BY <2>1, SessionAssumption, SMT DEF Write, TryWrite, Admit, TypeOK, OutcomesType, Requests
    <2>4. PICK h \in Handlers : IsWrite(h) /\ h.id = accepted + 1 /\ strand' = Append(strand, h)
      <3>1. CASE Write(n)
        <4> DEFINE h == Handler("plain", accepted + 1, n, reserved + n)
        <4>1. h \in Handlers /\ IsWrite(h) /\ h.id = accepted + 1
          BY <2>3 DEF Handler, Handlers, HandlerOps, IsWrite
        <4>2. strand' = Append(strand, h)
          BY <3>1 DEF Write, Post
        <4> HIDE DEF h
        <4>3. QED
          BY <4>1, <4>2
      <3>2. CASE TryWrite(n)
        <4> DEFINE h == Handler("try", accepted + 1, n, reserved)
        <4>1. h \in Handlers /\ IsWrite(h) /\ h.id = accepted + 1
          BY <2>3 DEF Handler, Handlers, HandlerOps, IsWrite
        <4>2. strand' = Append(strand, h)
          BY <3>2 DEF TryWrite, Post
        <4> HIDE DEF h
        <4>3. QED
          BY <4>1, <4>2
      <3>3. QED
        BY <2>1, <3>1, <3>2
    <2>5. Gathering' = Gathering
      BY <2>2 DEF Gathering
    <2>6. Front' = Front
      BY <2>2, <2>5, FrontSame
    <2>7. QED
      BY <1>0, <2>2, <2>4, <2>6, OrderAccepts
  <1>7. CASE RunPlainClosed \/ RunWroteClosed
    <2>1. /\ UNCHANGED <<wire, tx, pending, accepted, pc>> /\ pc = "idle"
          /\ strand # <<>> /\ strand' = Tail(strand)
      BY <1>7 DEF RunPlainClosed, RunWroteClosed, Running, Done, Skip, queues, control
    <2>2. Gathering' = Gathering
      BY <2>1 DEF Gathering
    <2>3. QED
      BY <1>1, <2>1, <2>2, FrontSame
  <1>8. CASE RunPlain \/ ClearBackpressure \/ RearmBackpressure
    <2>1. /\ UNCHANGED <<wire, tx, pending, accepted, strand>>
          /\ pc # "gather" /\ pc' # "gather"
      BY <1>8 DEF RunPlain, ClearBackpressure, RearmBackpressure, Running, queues
    <2>2. Gathering' = Gathering
      BY <2>1 DEF Gathering
    <2>3. QED
      BY <1>1, <2>1, <2>2, FrontSame DEF StrandEvents
  <1>9. CASE Commit
    <2>1. /\ pc = "commit" /\ strand # <<>> /\ strand[1].op = "plain"
          /\ decision \in {"Immediate", "Pending"}
      BY <1>9 DEF Commit, HandlersOK
    <2>2. Head(strand).op = "plain" /\ IsWrite(Head(strand))
      BY <2>1, NonEmptyLen DEF TypeOK, StrandType, IsWrite
    <2>3. strand' = Tail(strand) /\ UNCHANGED <<wire, accepted>>
      BY <1>9 DEF Commit
    <2> DEFINE x == Item(Head(strand).id, Head(strand).n, "plain")
    <2>4. x \in Items /\ Slot(x) = Posted(Head(strand)) /\ x.id = Head(strand).id /\ x.kind = "plain"
      BY <1>2, <2>1, <2>2
    <2>5. CASE decision = "Immediate"
      <3>1. tx' = Append(tx, x) /\ pc' = "report" /\ UNCHANGED pending
        BY <1>9, <2>5 DEF Commit, EnqueueImmediate
      <3> HIDE DEF x
      <3>2. Gathering' = Gathering
        BY <2>1, <3>1 DEF Gathering
      <3>3. Front' = Append(Front, Posted(Head(strand)))
        BY <2>3, <2>4, <3>1, <3>2, FrontAppend
      <3>4. pending = <<>>
        BY <2>1, <2>5 DEF Held
      <3>5. \A j \in 1 .. Len(pending) : Before(Posted(Head(strand)), pending[j])
        BY <3>4, SMT
      <3>6. QED
        BY <1>0, <2>1, <2>2, <2>3, <3>1, <3>3, <3>5, OrderQueues
    <2>6. CASE decision = "Pending"
      <3>1. pending' = Append(pending, x) /\ pc' = "idle" /\ UNCHANGED tx
        BY <1>9, <2>6 DEF Commit, EnqueuePending
      <3> HIDE DEF x
      <3>2. Gathering' = Gathering
        BY <2>1, <3>1 DEF Gathering
      <3>3. Front' = Front
        BY <2>3, <3>1, <3>2, FrontSame
      <3>4. QED
        BY <2>1, <2>2, <2>3, <2>4, <3>1, <3>3, OrderHolds
    <2>7. QED
      BY <2>1, <2>5, <2>6
  <1>10. CASE RunTry
    <2>1. /\ pc = "idle" /\ strand # <<>> /\ Head(strand).op = "try" /\ strand' = Tail(strand)
          /\ pc' \in {"idle", "report"}
          /\ UNCHANGED <<wire, pending, accepted>>
      BY <1>10 DEF RunTry, Running
    <2>2. Gathering' = Gathering
      BY <2>1 DEF Gathering
    <2>3. CASE ~Usable
      <3>1. UNCHANGED tx
        BY <1>10, <2>3 DEF RunTry
      <3>2. QED
        BY <1>1, <2>1, <2>2, <3>1, FrontSame
    <2>4. CASE Usable
      <3> DEFINE x == Item(Head(strand).id, Head(strand).n, "try")
      <3>1. tx' = Append(tx, x)
        BY <1>10, <2>4 DEF RunTry
      <3>2. IsWrite(Head(strand))
        BY <2>1 DEF IsWrite
      <3>3. x \in Items /\ Slot(x) = Posted(Head(strand))
        BY <1>2, <2>1, <3>2
      <3> HIDE DEF x
      <3>4. Front' = Append(Front, Posted(Head(strand)))
        BY <2>1, <2>2, <3>1, <3>3, FrontAppend
      <3>5. ASSUME NEW j \in 1 .. Len(pending)
            PROVE  Before(Posted(Head(strand)), pending[j])
        <4>1. Before(pending[j], Posted(Head(strand)))
          BY <2>1, <3>2, HeadOrdered
        <4>2. pending[j].kind = "plain" /\ Posted(Head(strand)).kind = "try"
          BY <2>1 DEF Order, Posted
        <4>3. QED
          BY <4>1, <4>2 DEF Before
      <3>6. QED
        BY <1>0, <2>1, <3>2, <3>4, <3>5, OrderQueues
    <2>5. QED
      BY <2>3, <2>4
  <1>11. CASE Report
    <2>1. /\ pc = "report" /\ report_backpressure(queue_bytes, "after")
          /\ UNCHANGED <<wire, accepted, strand>>
      BY <1>11 DEF Report
    <2>2. /\ pc' \in {"after", "flushed"}
          /\ \/ UNCHANGED <<tx, pending>>
             \/ tx' = tx \o pending /\ pending' = <<>>
      BY <2>1 DEF report_backpressure, queues
    <2>3. Gathering' = Gathering
      BY <2>1, <2>2 DEF Gathering
    <2>4. CASE UNCHANGED <<tx, pending>>
      BY <1>1, <2>1, <2>3, <2>4, FrontSame DEF StrandEvents
    <2>5. CASE tx' = tx \o pending /\ pending' = <<>>
      <3>1. Front' = Front \o Offered(pending)
        BY <2>1, <2>3, <2>5, FrontFlush
      <3>2. QED
        BY <1>0, <2>1, <2>5, <3>1, OrderFlushes
    <2>6. QED
      BY <2>2, <2>4, <2>5
  <1>12. CASE DoWriteStep
    <2>1. /\ UNCHANGED <<wire, tx, pending, accepted, strand>> /\ pc = "after"
          /\ pc' = "idle" \/ (pc' = "gather" /\ batch' = <<>>)
      BY <1>12 DEF DoWriteStep, queues
    <2>2. Gathering' = Gathering
      BY <2>1 DEF Gathering
    <2>3. QED
      BY <1>1, <2>1, <2>2, FrontSame DEF StrandEvents
  <1>13. CASE Gather
    <2>1. UNCHANGED <<pending, accepted, strand>>
      BY <1>13 DEF Gather
    <2>2. QED
      BY <1>1, <1>13, <2>1, FrontGather DEF StrandEvents
  <1>14. CASE BeginBatch
    <2>1. UNCHANGED <<pending, accepted, strand>>
      BY <1>14 DEF BeginBatch, queues
    <2>2. QED
      BY <1>1, <1>14, <2>1, FrontBegin DEF StrandEvents
  <1>15. CASE RunWrote
    <2>1. /\ UNCHANGED <<wire, tx, pending, accepted>> /\ pc = "idle" /\ pc' = "report"
          /\ strand # <<>> /\ strand' = Tail(strand)
      BY <1>15 DEF RunWrote, Running, queues
    <2>2. Gathering' = Gathering
      BY <2>1 DEF Gathering
    <2>3. QED
      BY <1>1, <2>1, <2>2, FrontSame
  <1>16. QED
    BY <1>3, <1>4, <1>5, <1>6, <1>7, <1>8, <1>9, <1>10, <1>11, <1>12, <1>13, <1>14, <1>15, SMT
       DEF SessionStep

-----------------------------------------------------------------------------
(* The theorems.                                                             *)

\* The inductive invariant.
OInv == EInv /\ Held /\ Order /\ Known /\ Taken

\* A new session has nothing on its way.
LEMMA InitOInv ==
  ASSUME Init
  PROVE  OInv
  <1>1. EInv /\ TypeOK
    BY InitEInv DEF EInv, IInv
  <1>2. /\ closing = FALSE /\ tx = <<>> /\ pending = <<>> /\ batch = <<>>
        /\ strand = <<>> /\ pc = "idle" /\ wire = <<>>
    BY DEF Init
  <1>3. fate = [r \in Requests |-> "unused"]
    BY DEF Init
  <1>4. Front = <<>>
    <2>1. /\ Offered(tx) \in Seq(Slots) /\ Len(Offered(tx)) = 0
      BY <1>1, <1>2, OfferedSeq DEF TypeOK, QueuesType
    <2>2. Offered(tx) = <<>>
      BY <2>1, SMT
    <2>3. Front = (<<>> \o <<>>) \o <<>>
      BY <1>2, <2>2 DEF Front, Gathering
    <2>4. QED
      BY <2>3, SMT
  <1>5. Len(Front) = 0 /\ Len(pending) = 0 /\ Len(strand) = 0 /\ Len(tx) = 0 /\ Len(batch) = 0
    BY <1>2, <1>4
  <1>6. Order
    BY ONLY <1>5, SMT DEF Order
  <1>12. Known
    BY ONLY <1>5, SMT DEF Known
  <1>11. Held
    BY <1>2 DEF Held
  <1>7. Ids(wire) = {} /\ Ids(batch) = {}
    BY <1>2, SMT DEF Ids
  <1>8. LossPhaseIsTrue
    BY <1>3, <1>7 DEF LossPhaseIsTrue
  <1>9. Taken
    BY <1>2, <1>5, <1>7, <1>8, SMT DEF Taken, Waiting
  <1>10. QED
    BY <1>1, <1>6, <1>9, <1>11, <1>12 DEF OInv

\* Steps of either session keep it.
LEMMA StepOInv ==
  ASSUME OInv, [Next]_vars \/ [UdsNext]_vars
  PROVE  OInv'
  <1>1. /\ EInv /\ TypeOK /\ HandlersOK /\ Ended /\ Control /\ GatherUsable /\ FreshUnused
        /\ Held /\ Order /\ Known /\ Taken
    BY DEF OInv, EInv, IInv
  <1>2. EInv' /\ SessionStep
    BY <1>1, StepEInv
  <1>3. Held' /\ Order' /\ Known'
    BY <1>1, <1>2, StepHeld, StepOrder
  <1>4. Taken'
    BY <1>1, <1>2, StepTaken
  <1>5. QED
    BY <1>2, <1>3, <1>4 DEF OInv

\* Requests of one family are in acceptance order on the wire because they are
\* along the whole line.
LEMMA OrderOnWire ==
  ASSUME TypeOK, Order
  PROVE  FamilyOrder
  <1>1. wire \in Seq(Slots) /\ DOMAIN wire = 1 .. Len(wire) /\ Len(wire) \in Nat
    BY SMT DEF TypeOK, OutcomesType, Slots
  <1>2. /\ Len(wire) <= Len(Front) /\ Len(Front) \in Nat
        /\ \A i \in 1 .. Len(wire) : wire[i] = Front[i]
    BY FrontType, WireInFront
  <1>3. ASSUME NEW i \in 1 .. Len(wire), NEW j \in 1 .. Len(wire), i < j,
               wire[i].kind = wire[j].kind
        PROVE  wire[i].id < wire[j].id
    <2>1. i \in 1 .. Len(Front) /\ j \in 1 .. Len(Front)
      BY <1>1, <1>2, SMT
    <2>2. Before(Front[i], Front[j])
      BY <1>3, <2>1 DEF Order
    <2>3. wire[i] = Front[i] /\ wire[j] = Front[j]
      BY <1>2
    <2>4. QED
      BY <1>3, <2>2, <2>3 DEF Before
  <1>4. QED
    BY <1>1, <1>3 DEF FamilyOrder

\* What the way of the requests says of the wire.
LEMMA OInvGives ==
  ASSUME OInv
  PROVE  FamilyOrder /\ LossPhaseIsTrue
  BY OrderOnWire DEF OInv, EInv, IInv, Taken

\* The requests of a TCP session are always on their way in order.
THEOREM OrderInvariance == Spec => []OInv
  <1>1. OInv /\ [Next]_vars => OInv'
    BY StepOInv
  <1>2. QED
    BY <1>1, InitOInv, PTL DEF Spec

\* And so are those of a UDS session.
THEOREM UdsOrderInvariance == UdsSpec => []OInv
  <1>1. OInv /\ [UdsNext]_vars => OInv'
    BY StepOInv
  <1>2. UdsInit => OInv
    BY InitOInv DEF UdsInit
  <1>3. QED
    BY <1>1, <1>2, PTL DEF UdsSpec

\* A TCP session writes the requests of one family in acceptance order.
THEOREM FamiliesInOrder == Spec => []FamilyOrder
  BY OInvGives, OrderInvariance, PTL

\* So does a UDS session.
THEOREM UdsFamiliesInOrder == UdsSpec => []FamilyOrder
  BY OInvGives, UdsOrderInvariance, PTL

\* The ledger says "aborted during write" of the requests do_write had taken, and
\* "discarded before write" of the others.
THEOREM LossPhasesAreTrue == Spec => []LossPhaseIsTrue
  BY OInvGives, OrderInvariance, PTL

\* The ledger of a UDS session tells them apart as well.
THEOREM UdsLossPhasesAreTrue == UdsSpec => []LossPhaseIsTrue
  BY OInvGives, UdsOrderInvariance, PTL

-----------------------------------------------------------------------------
(* Bytes of queues and of handlers.                                          *)

Sizes(items) == [i \in DOMAIN items |-> items[i].n]
Weights(handlers, op) ==
    [i \in DOMAIN handlers |-> IF handlers[i].op = op THEN handlers[i].n ELSE 0]
Weight(h, op) == IF h.op = op THEN h.n ELSE 0

\* What is used of sums.  Lemma Additive, near the end, proves it: until there the
\* provers need no theory of sums.
Adds ==
    /\ Total(<<>>) = 0
    /\ \A s \in Seq(Nat) : Total(s) \in Nat
    /\ \A s \in Seq(Nat) : (\A i \in 1 .. Len(s) : s[i] = 0) => Total(s) = 0
    /\ \A s \in Seq(Nat), e \in Nat : Total(Append(s, e)) = Total(s) + e
    /\ \A s \in Seq(Nat) : s # <<>> => Total(s) = Head(s) + Total(Tail(s))
    /\ \A s, t \in Seq(Nat) : Total(s \o t) = Total(s) + Total(t)

\* The sizes of the items of a queue are a sequence of numbers.
LEMMA SizesSeq ==
  ASSUME NEW s \in Seq(Items)
  PROVE  /\ Sizes(s) \in Seq(Nat) /\ Len(Sizes(s)) = Len(s)
         /\ \A i \in 1 .. Len(s) : Sizes(s)[i] = s[i].n
         /\ SizeOf(s) = Total(Sizes(s))
  <1>1. \A x \in Items : x.n \in Nat
    BY DEF Items
  <1>2. \A i \in 1 .. Len(s) : s[i].n \in Nat
    BY <1>1, SMT
  <1>3. QED
    BY <1>2, SMT DEF Sizes, SizeOf

\* How the size of a queue follows what is done to it.
LEMMA SizeFacts ==
  ASSUME Adds, NEW s \in Seq(Items)
  PROVE  /\ SizeOf(s) \in Nat
         /\ \A x \in Items : SizeOf(Append(s, x)) = SizeOf(s) + x.n
         /\ s # <<>> => SizeOf(s) = Head(s).n + SizeOf(Tail(s))
         /\ SizeOf(<<>>) = 0
  <1>1. Sizes(s) \in Seq(Nat) /\ Len(Sizes(s)) = Len(s) /\ SizeOf(s) = Total(Sizes(s))
    BY SizesSeq
  <1>2. SizeOf(s) \in Nat
    BY <1>1 DEF Adds
  <1>3. ASSUME NEW x \in Items PROVE SizeOf(Append(s, x)) = SizeOf(s) + x.n
    <2>1. Append(s, x) \in Seq(Items) /\ x.n \in Nat
      BY SMT DEF Items
    <2>2. Sizes(Append(s, x)) = Append(Sizes(s), x.n)
      BY SizesSeq, SMT DEF Sizes
    <2>3. SizeOf(Append(s, x)) = Total(Sizes(Append(s, x)))
      BY <2>1, SizesSeq
    <2>4. QED
      BY <1>1, <2>1, <2>2, <2>3 DEF Adds
  <1>4. ASSUME s # <<>> PROVE SizeOf(s) = Head(s).n + SizeOf(Tail(s))
    <2>1. Tail(s) \in Seq(Items) /\ Sizes(s) # <<>> /\ Head(Sizes(s)) = Head(s).n
      BY <1>1, <1>4, SizesSeq, SMT
    <2>2. Sizes(Tail(s)) = Tail(Sizes(s))
      BY <1>4, SizesSeq, SMT DEF Sizes
    <2>3. SizeOf(Tail(s)) = Total(Sizes(Tail(s)))
      BY <2>1, SizesSeq
    <2>4. QED
      BY <1>1, <2>1, <2>2, <2>3 DEF Adds
  <1>5. SizeOf(<<>>) = 0
    <2>1. Sizes(<<>>) = <<>>
      BY SMT DEF Sizes
    <2>2. SizeOf(<<>>) = Total(Sizes(<<>>))
      BY DEF SizeOf, Sizes
    <2>3. QED
      BY <2>1, <2>2 DEF Adds
  <1>6. QED
    BY <1>2, <1>3, <1>4, <1>5

\* The held-back requests join the queue: their sizes add up.
LEMMA SizeConcat ==
  ASSUME Adds, NEW s \in Seq(Items), NEW t \in Seq(Items)
  PROVE  SizeOf(s \o t) = SizeOf(s) + SizeOf(t)
  <1> DEFINE a == Sizes(s)
             b == Sizes(t)
             c == Sizes(s \o t)
  <1>1. /\ a \in Seq(Nat) /\ Len(a) = Len(s) /\ \A i \in 1 .. Len(s) : a[i] = s[i].n
        /\ SizeOf(s) = Total(a)
    BY SizesSeq
  <1>2. /\ b \in Seq(Nat) /\ Len(b) = Len(t) /\ \A i \in 1 .. Len(t) : b[i] = t[i].n
        /\ SizeOf(t) = Total(b)
    BY SizesSeq
  <1>3. s \o t \in Seq(Items) /\ Len(s \o t) = Len(s) + Len(t)
    BY ConcatAt
  <1>4. /\ c \in Seq(Nat) /\ Len(c) = Len(s) + Len(t)
        /\ \A i \in 1 .. Len(s) + Len(t) : c[i] = (s \o t)[i].n
        /\ SizeOf(s \o t) = Total(c)
    BY <1>3, SizesSeq
  <1>5. Len(s) \in Nat /\ Len(t) \in Nat
    BY SMT
  <1> HIDE DEF a, b, c
  <1>6. a \in Seq(Nat) /\ b \in Seq(Nat) /\ Len(a) = Len(s) /\ Len(b) = Len(t)
    BY <1>1, <1>2
  <1>7. /\ a \o b \in Seq(Nat) /\ Len(a \o b) = Len(a) + Len(b)
        /\ \A i \in 1 .. Len(a) : (a \o b)[i] = a[i]
        /\ \A i \in 1 .. Len(b) : (a \o b)[Len(a) + i] = b[i]
    <2>1. a \in Seq(Nat) /\ b \in Seq(Nat)
      BY <1>6
    <2>2. QED
      BY ONLY <2>1, ConcatAt, SMT
  <1>8. ASSUME NEW i \in 1 .. Len(c) PROVE c[i] = (a \o b)[i]
    <2>0. i \in 1 .. Len(s) + Len(t) /\ c[i] = (s \o t)[i].n
      BY <1>4, <1>8
    <2>1. CASE i \in 1 .. Len(s)
      <3>1. (s \o t)[i] = s[i]
        BY <2>1, ConcatAt
      <3>2. (a \o b)[i] = a[i] /\ a[i] = s[i].n
        BY <1>1, <1>6, <1>7, <2>1
      <3>3. QED
        BY <2>0, <3>1, <3>2
    <2>2. CASE i \notin 1 .. Len(s)
      <3>1. PICK j \in 1 .. Len(t) : i = Len(s) + j
        <4>1. i - Len(s) \in 1 .. Len(t) /\ i = Len(s) + (i - Len(s))
          BY <1>5, <2>0, <2>2, SMT
        <4>2. QED
          BY <4>1
      <3>2. (s \o t)[Len(s) + j] = t[j]
        BY ConcatAt, SMT
      <3>3. (a \o b)[Len(s) + j] = b[j] /\ b[j] = t[j].n
        BY <1>2, <1>6, <1>7
      <3>4. QED
        BY <2>0, <3>1, <3>2, <3>3
    <2>3. QED
      BY <2>1, <2>2
  <1>9. c = a \o b
    <2>1. Len(a \o b) = Len(c)
      BY <1>4, <1>6, <1>7
    <2>2. c \in Seq(Nat) /\ a \o b \in Seq(Nat)
      BY <1>4, <1>7
    <2>3. QED
      BY <1>8, <2>1, <2>2, SameSeq
  <1>10. Total(a \o b) = Total(a) + Total(b)
    BY <1>6 DEF Adds
  <1>11. QED
    BY <1>1, <1>2, <1>4, <1>9, <1>10

\* The bytes of the handlers of one family are a sequence of numbers.
LEMMA WeightsSeq ==
  ASSUME NEW s \in Seq(Handlers), NEW op
  PROVE  /\ Weights(s, op) \in Seq(Nat) /\ Len(Weights(s, op)) = Len(s)
         /\ \A i \in 1 .. Len(s) : Weights(s, op)[i] = Weight(s[i], op)
         /\ BytesOf(s, op) = Total(Weights(s, op))
  <1>1. \A h \in Handlers : h.n \in Nat
    BY DEF Handlers
  <1>2. \A i \in 1 .. Len(s) : s[i].n \in Nat
    BY <1>1, SMT
  <1>3. QED
    BY <1>2, SMT DEF Weights, Weight, BytesOf

\* How the posted bytes follow the strand.
LEMMA BytesFacts ==
  ASSUME Adds, NEW s \in Seq(Handlers), NEW op
  PROVE  /\ BytesOf(s, op) \in Nat
         /\ \A h \in Handlers : BytesOf(Append(s, h), op) = BytesOf(s, op) + Weight(h, op)
         /\ s # <<>> => BytesOf(s, op) = Weight(Head(s), op) + BytesOf(Tail(s), op)
         /\ BytesOf(<<>>, op) = 0
  <1>1. /\ Weights(s, op) \in Seq(Nat) /\ Len(Weights(s, op)) = Len(s)
        /\ BytesOf(s, op) = Total(Weights(s, op))
    BY WeightsSeq
  <1>2. BytesOf(s, op) \in Nat
    BY <1>1 DEF Adds
  <1>3. ASSUME NEW h \in Handlers
        PROVE  BytesOf(Append(s, h), op) = BytesOf(s, op) + Weight(h, op)
    <2>1. Append(s, h) \in Seq(Handlers) /\ Weight(h, op) \in Nat
      BY SMT DEF Handlers, Weight
    <2>2. Weights(Append(s, h), op) = Append(Weights(s, op), Weight(h, op))
      BY WeightsSeq, SMT DEF Weights, Weight
    <2>3. BytesOf(Append(s, h), op) = Total(Weights(Append(s, h), op))
      BY <2>1, WeightsSeq
    <2>4. QED
      BY <1>1, <2>1, <2>2, <2>3, SMT DEF Adds
  <1>4. ASSUME s # <<>> PROVE BytesOf(s, op) = Weight(Head(s), op) + BytesOf(Tail(s), op)
    <2>1. /\ Tail(s) \in Seq(Handlers) /\ Weights(s, op) # <<>>
          /\ Head(Weights(s, op)) = Weight(Head(s), op)
      BY <1>1, <1>4, WeightsSeq, SMT
    <2>2. Weights(Tail(s), op) = Tail(Weights(s, op))
      BY <1>4, WeightsSeq, SMT DEF Weights
    <2>3. BytesOf(Tail(s), op) = Total(Weights(Tail(s), op))
      BY <2>1, WeightsSeq
    <2>4. QED
      BY <1>1, <2>1, <2>2, <2>3 DEF Adds
  <1>5. BytesOf(<<>>, op) = 0
    <2>1. Weights(<<>>, op) = <<>>
      BY SMT DEF Weights
    <2>2. BytesOf(<<>>, op) = Total(Weights(<<>>, op))
      BY DEF BytesOf, Weights
    <2>3. QED
      BY <2>1, <2>2 DEF Adds
  <1>6. QED
    BY <1>2, <1>3, <1>4, <1>5
-----------------------------------------------------------------------------
(* The byte counters.                                                        *)

Accounts == CountersExact /\ bytes_to_write = SizeOf(batch)

\* The bytes posted are not changed by handlers that are not writes.
LEMMA EventBytes ==
  ASSUME Adds, TypeOK, StrandEvents
  PROVE  /\ BytesOf(strand', "plain") = BytesOf(strand, "plain")
         /\ BytesOf(strand', "try") = BytesOf(strand, "try")
  <1>0. strand \in Seq(Handlers)
    BY DEF TypeOK, StrandType
  <1>1. CASE UNCHANGED strand
    BY <1>1
  <1>2. CASE \E h \in Handlers : ~IsWrite(h) /\ strand' = Append(strand, h)
    <2>1. PICK h \in Handlers : ~IsWrite(h) /\ strand' = Append(strand, h)
      BY <1>2
    <2>2. Weight(h, "plain") = 0 /\ Weight(h, "try") = 0
      BY <2>1 DEF IsWrite, Weight
    <2>3. \A op : BytesOf(strand, op) \in Nat /\ BytesOf(strand', op) = BytesOf(strand, op) + Weight(h, op)
      BY <1>0, <2>1, BytesFacts
    <2>4. QED
      BY <2>2, <2>3, SMT
  <1>3. CASE strand # <<>> /\ ~IsWrite(Head(strand)) /\ strand' = Tail(strand)
    <2>1. Weight(Head(strand), "plain") = 0 /\ Weight(Head(strand), "try") = 0
      BY <1>3 DEF IsWrite, Weight
    <2>2. Tail(strand) \in Seq(Handlers)
      BY <1>0, <1>3, SMT
    <2>3. \A op : BytesOf(strand', op) \in Nat
      BY <1>3, <2>2, BytesFacts
    <2>4. \A op : BytesOf(strand, op) = Weight(Head(strand), op) + BytesOf(strand', op)
      BY <1>0, <1>3, BytesFacts
    <2>5. QED
      BY <2>1, <2>3, <2>4, SMT
  <1>4. QED
    BY <1>1, <1>2, <1>3 DEF StrandEvents

\* A write's handler leaves the strand: its bytes are no longer posted.
LEMMA WriteBytes ==
  ASSUME Adds, TypeOK, strand # <<>>, strand' = Tail(strand)
  PROVE  /\ Head(strand) \in Handlers /\ Head(strand).n \in Nat
         /\ BytesOf(strand', "plain") \in Nat /\ BytesOf(strand', "try") \in Nat
         /\ Head(strand).op = "plain" =>
               /\ BytesOf(strand, "plain") = Head(strand).n + BytesOf(strand', "plain")
               /\ BytesOf(strand, "try") = BytesOf(strand', "try")
         /\ Head(strand).op = "try" =>
               /\ BytesOf(strand, "try") = Head(strand).n + BytesOf(strand', "try")
               /\ BytesOf(strand, "plain") = BytesOf(strand', "plain")
         /\ ~IsWrite(Head(strand)) =>
               /\ BytesOf(strand, "try") = BytesOf(strand', "try")
               /\ BytesOf(strand, "plain") = BytesOf(strand', "plain")
  <1>1. strand \in Seq(Handlers) /\ Head(strand) \in Handlers /\ Tail(strand) \in Seq(Handlers)
    BY SMT DEF TypeOK, StrandType
  <1>2. Head(strand).n \in Nat
    BY <1>1 DEF Handlers
  <1>3. \A op : BytesOf(strand', op) \in Nat
    BY <1>1, BytesFacts
  <1>4. \A op : BytesOf(strand, op) = Weight(Head(strand), op) + BytesOf(strand', op)
    BY <1>1, BytesFacts
  <1>5. QED
    BY <1>1, <1>2, <1>3, <1>4, SMT DEF Weight, IsWrite

\* A saturating subtraction of a part leaves the rest.
LEMMA ReleasePart ==
  ASSUME NEW part \in Nat, NEW rest \in Nat
  PROVE  /\ release_reserved_limit_bytes(part + rest, part) = rest
         /\ release_reserved_write_bytes(part + rest, part) = rest
         /\ release_reserved_write_bytes(0, part) = 0
  BY SMT DEF release_reserved_limit_bytes, release_reserved_write_bytes

\* An admission adds the same bytes to a counter and to the strand.
LEMMA CallersAccounts ==
  ASSUME Adds, TypeOK, Ended, Accounts, Callers
  PROVE  Accounts'
  <1>0. /\ strand \in Seq(Handlers) /\ reserved \in Nat /\ accepted \in 0 .. MaxRequests
        /\ tx \in Seq(Items) /\ batch \in Seq(Items)
        /\ queue_bytes \in Nat /\ inflight_bytes \in Nat
    BY DEF TypeOK, StrandType, OutcomesType, QueuesType, WriteType, CountersType
  <1>1. PICK n \in 1 .. MaxSize : Write(n) \/ TryWrite(n)
    BY DEF Callers
  <1>2. /\ n \in Nat /\ accepted + 1 \in Requests
        /\ alive /\ UNCHANGED <<closing, cleanup_done, pending_bytes, tx, pending, batch,
                                bytes_to_write>>
    BY <1>0, <1>1, SessionAssumption, SMT
       DEF Write, TryWrite, Admit, life, queues, write, Requests
  <1>3. SizeOf(tx) \in Nat /\ SizeOf(batch) \in Nat
    BY <1>0, SizeFacts
  <1>4. BytesOf(strand, "plain") \in Nat /\ BytesOf(strand, "try") \in Nat
    BY <1>0, BytesFacts
  <1>5. CASE Write(n)
    <2> DEFINE h == Handler("plain", accepted + 1, n, reserved + n)
    <2>0. reserved + n \in Nat
      BY <1>0, <1>2, SMT
    <2>1. h \in Handlers
      BY <1>2, <2>0 DEF Handler, Handlers, HandlerOps
    <2>2. strand' = Append(strand, h) /\ inflight_bytes' = inflight_bytes + n
          /\ UNCHANGED queue_bytes
      BY <1>5 DEF Write, Post
    <2>3. Weight(h, "plain") = n /\ Weight(h, "try") = 0
      BY DEF Weight, Handler
    <2> HIDE DEF h
    <2>4. /\ BytesOf(strand', "plain") = BytesOf(strand, "plain") + n
          /\ BytesOf(strand', "try") = BytesOf(strand, "try") + 0
      BY <1>0, <2>1, <2>2, <2>3, BytesFacts
    <2>5. QED
      BY <1>2, <1>3, <1>4, <2>2, <2>4, SMT DEF Accounts, CountersExact
  <1>6. CASE TryWrite(n)
    <2> DEFINE h == Handler("try", accepted + 1, n, reserved)
    <2>1. h \in Handlers
      BY <1>0, <1>2 DEF Handler, Handlers, HandlerOps
    <2>2. strand' = Append(strand, h) /\ queue_bytes' = queue_bytes + n
          /\ UNCHANGED inflight_bytes
      BY <1>6 DEF TryWrite, Post
    <2>3. Weight(h, "plain") = 0 /\ Weight(h, "try") = n
      BY DEF Weight, Handler
    <2> HIDE DEF h
    <2>4. /\ BytesOf(strand', "plain") = BytesOf(strand, "plain") + 0
          /\ BytesOf(strand', "try") = BytesOf(strand, "try") + n
      BY <1>0, <2>1, <2>2, <2>3, BytesFacts
    <2>5. ~cleanup_done
      BY <1>2 DEF Ended
    <2>6. /\ inflight_bytes' = BytesOf(strand', "plain")
          /\ ~closing => queue_bytes' = SizeOf(tx) + SizeOf(batch) + BytesOf(strand', "try")
      <3>1. /\ inflight_bytes = BytesOf(strand, "plain")
            /\ ~closing => queue_bytes = SizeOf(tx) + SizeOf(batch) + BytesOf(strand, "try")
        BY DEF Accounts, CountersExact
      <3>2. inflight_bytes' = BytesOf(strand', "plain")
        BY <1>4, <2>2, <2>4, <3>1, SMT
      <3>3. ASSUME ~closing
            PROVE  queue_bytes' = SizeOf(tx) + SizeOf(batch) + BytesOf(strand', "try")
        BY <1>3, <1>4, <2>2, <2>4, <3>1, <3>3, SMT
      <3>4. QED
        BY <3>2, <3>3
    <2>7. QED
      BY <1>2, <2>5, <2>6 DEF Accounts, CountersExact
  <1>7. QED
    BY <1>1, <1>5, <1>6

\* Nothing the counters stand for changes.
LEMMA QuietAccounts ==
  ASSUME Accounts,
         BytesOf(strand', "plain") = BytesOf(strand, "plain"),
         BytesOf(strand', "try") = BytesOf(strand, "try"),
         UNCHANGED <<queue_bytes, pending_bytes, inflight_bytes, tx, pending, batch,
                     bytes_to_write, cleanup_done>>,
         closing => closing'
  PROVE  Accounts'
  BY DEF Accounts, CountersExact

\* commit_reserved_limit_bytes moves the bytes of the handler at the head.
LEMMA CommitAccounts ==
  ASSUME Adds, TypeOK, HandlersOK, Ended, Accounts, Commit
  PROVE  Accounts'
  <1> DEFINE h == Head(strand)
             x == Item(h.id, h.n, "plain")
  <1>0. /\ strand # <<>> /\ h.op = "plain" /\ h.id \in Requests
        /\ decision \in {"Immediate", "Pending"}
    <2>1. strand # <<>> /\ strand[1].op = "plain" /\ decision \in {"Immediate", "Pending"}
      BY DEF Commit, HandlersOK
    <2>2. 1 \in 1 .. Len(strand) /\ h = strand[1]
      BY <2>1, NonEmptyLen DEF TypeOK, StrandType
    <2>3. QED
      BY <2>1, <2>2 DEF HandlersOK
  <1>1. /\ tx \in Seq(Items) /\ batch \in Seq(Items) /\ pending \in Seq(Items)
        /\ queue_bytes \in Nat /\ pending_bytes \in Nat
    BY DEF TypeOK, QueuesType, WriteType, CountersType
  <1>2. /\ strand' = Tail(strand) /\ inflight_bytes' = release_reserved_limit_bytes(inflight_bytes, h.n)
        /\ UNCHANGED <<closing, cleanup_done, batch, bytes_to_write>>
    BY DEF Commit, life, write
  <1>3. /\ h \in Handlers /\ h.n \in Nat
        /\ BytesOf(strand', "plain") \in Nat /\ BytesOf(strand', "try") \in Nat
        /\ BytesOf(strand, "plain") = h.n + BytesOf(strand', "plain")
        /\ BytesOf(strand, "try") = BytesOf(strand', "try")
    BY <1>0, <1>2, WriteBytes
  <1>4. x \in Items /\ x.n = h.n
    BY <1>0, <1>3 DEF Item, Items
  <1>5. /\ SizeOf(tx) \in Nat /\ SizeOf(batch) \in Nat /\ SizeOf(pending) \in Nat
        /\ SizeOf(Append(tx, x)) = SizeOf(tx) + h.n
        /\ SizeOf(Append(pending, x)) = SizeOf(pending) + h.n
    <2>1. /\ SizeOf(Append(tx, x)) = SizeOf(tx) + x.n
          /\ SizeOf(Append(pending, x)) = SizeOf(pending) + x.n
      BY <1>1, <1>4, SizeFacts
    <2>2. QED
      BY <1>1, <1>4, <2>1, SizeFacts
  <1>6. ~cleanup_done
    BY DEF Commit, Ended
  <1>7. inflight_bytes' = BytesOf(strand', "plain")
    <2>1. inflight_bytes = h.n + BytesOf(strand', "plain")
      BY <1>3 DEF Accounts, CountersExact
    <2>2. release_reserved_limit_bytes(h.n + BytesOf(strand', "plain"), h.n)
            = BytesOf(strand', "plain")
      BY <1>3, ReleasePart
    <2>3. QED
      BY <1>2, <2>1, <2>2
  <1>8. CASE decision = "Immediate"
    <2>1. queue_bytes' = queue_bytes + h.n /\ tx' = Append(tx, x) /\ UNCHANGED <<pending_bytes, pending>>
      BY <1>8 DEF Commit, EnqueueImmediate
    <2> HIDE DEF h, x
    <2>2. ASSUME ~closing PROVE queue_bytes' = SizeOf(tx') + SizeOf(batch') + BytesOf(strand', "try")
      <3>1. queue_bytes = SizeOf(tx) + SizeOf(batch) + BytesOf(strand, "try")
        BY <2>2 DEF Accounts, CountersExact
      <3>2. SizeOf(tx') = SizeOf(tx) + h.n /\ SizeOf(batch') = SizeOf(batch)
        BY <1>2, <1>5, <2>1
      <3>3. /\ h.n \in Nat /\ SizeOf(tx) \in Nat /\ SizeOf(batch) \in Nat
            /\ BytesOf(strand', "try") \in Nat
            /\ queue_bytes' = SizeOf(tx) + SizeOf(batch) + BytesOf(strand', "try") + h.n
        BY <1>3, <1>5, <2>1, <3>1
      <3>4. QED
        BY ONLY <3>2, <3>3, SMT
    <2>3. QED
      BY <1>2, <1>6, <1>7, <2>1, <2>2 DEF Accounts, CountersExact
  <1>9. CASE decision = "Pending"
    <2>1. pending_bytes' = pending_bytes + h.n /\ pending' = Append(pending, x) /\ UNCHANGED <<queue_bytes, tx>>
      BY <1>9 DEF Commit, EnqueuePending
    <2> HIDE DEF h, x
    <2>2. pending_bytes' = SizeOf(pending')
      BY <1>5, <2>1 DEF Accounts, CountersExact
    <2>3. QED
      BY <1>2, <1>3, <1>6, <1>7, <2>1, <2>2 DEF Accounts, CountersExact
  <1>10. QED
    BY <1>0, <1>8, <1>9

\* A try-write's handler moves its bytes from the strand to tx_, or gives them
\* back.
LEMMA RunTryAccounts ==
  ASSUME Adds, TypeOK, HandlersOK, Ended, Accounts, RunTry
  PROVE  Accounts'
  <1> DEFINE h == Head(strand)
             x == Item(h.id, h.n, "try")
  <1>0. strand # <<>> /\ h.op = "try" /\ h.id \in Requests
    <2>1. strand # <<>> /\ h.op = "try"
      BY DEF RunTry, Running
    <2>2. 1 \in 1 .. Len(strand) /\ h = strand[1]
      BY <2>1, NonEmptyLen DEF TypeOK, StrandType
    <2>3. QED
      BY <2>1, <2>2 DEF HandlersOK
  <1>1. tx \in Seq(Items) /\ batch \in Seq(Items) /\ queue_bytes \in Nat
    BY DEF TypeOK, QueuesType, WriteType, CountersType
  <1>2. /\ strand' = Tail(strand)
        /\ UNCHANGED <<alive, closing, cleanup_done, batch, bytes_to_write, inflight_bytes,
                       pending_bytes, pending>>
    BY DEF RunTry, life, write
  <1>3. /\ h \in Handlers /\ h.n \in Nat
        /\ BytesOf(strand', "plain") \in Nat /\ BytesOf(strand', "try") \in Nat
        /\ BytesOf(strand, "try") = h.n + BytesOf(strand', "try")
        /\ BytesOf(strand, "plain") = BytesOf(strand', "plain")
    BY <1>0, <1>2, WriteBytes
  <1>4. x \in Items /\ x.n = h.n
    BY <1>0, <1>3 DEF Item, Items
  <1>5. /\ SizeOf(tx) \in Nat /\ SizeOf(batch) \in Nat
        /\ SizeOf(Append(tx, x)) = SizeOf(tx) + h.n
    <2>1. SizeOf(Append(tx, x)) = SizeOf(tx) + x.n
      BY <1>1, <1>4, SizeFacts
    <2>2. QED
      BY <1>1, <1>4, <2>1, SizeFacts
  <1>6. inflight_bytes' = BytesOf(strand', "plain")
    BY <1>2, <1>3 DEF Accounts, CountersExact
  <1>7. ~closing => queue_bytes = SizeOf(tx) + SizeOf(batch) + BytesOf(strand, "try")
    BY DEF Accounts, CountersExact
  <1>8. CASE Usable
    <2>1. tx' = Append(tx, x) /\ UNCHANGED queue_bytes
      BY <1>8 DEF RunTry
    <2>2. ~closing
      BY <1>8 DEF Usable
    <2> HIDE DEF h, x
    <2>3. queue_bytes' = SizeOf(tx') + SizeOf(batch') + BytesOf(strand', "try")
      BY <1>2, <1>3, <1>5, <1>7, <2>1, <2>2, SMT
    <2>4. QED
      BY <1>2, <1>6, <2>1, <2>3 DEF Accounts, CountersExact
  <1>9. CASE ~Usable
    <2>1. queue_bytes' = release_reserved_write_bytes(queue_bytes, h.n) /\ tx' = tx
      BY <1>9 DEF RunTry
    <2> HIDE DEF h, x
    <2>2. ASSUME ~closing PROVE queue_bytes' = SizeOf(tx') + SizeOf(batch') + BytesOf(strand', "try")
      <3> DEFINE rest == SizeOf(tx) + SizeOf(batch) + BytesOf(strand', "try")
      <3>1. rest \in Nat /\ queue_bytes = h.n + rest
        BY <1>3, <1>5, <1>7, <2>2, SMT
      <3> HIDE DEF rest
      <3>2. queue_bytes' = rest
        BY <1>3, <2>1, <3>1, ReleasePart
      <3>3. QED
        BY <1>2, <2>1, <3>2 DEF rest
    <2>3. cleanup_done' => queue_bytes' = 0
      BY <1>2, <1>3, <2>1, ReleasePart DEF Accounts, CountersExact
    <2>4. QED
      BY <1>2, <1>6, <2>1, <2>2, <2>3 DEF Accounts, CountersExact
  <1>10. QED
    BY <1>8, <1>9

\* The flush of the falling edge moves the held-back bytes to tx_.
LEMMA ReportAccounts ==
  ASSUME Adds, TypeOK, Ended, Accounts, Report
  PROVE  Accounts'
  <1>0. tx \in Seq(Items) /\ pending \in Seq(Items) /\ batch \in Seq(Items)
        /\ strand \in Seq(Handlers)
    BY DEF TypeOK, QueuesType, WriteType, StrandType
  <1>1. /\ UNCHANGED <<closing, cleanup_done, batch, bytes_to_write, inflight_bytes, strand>>
        /\ report_backpressure(queue_bytes, "after")
    BY DEF Report, life, write
  <1>2. \/ UNCHANGED <<queue_bytes, pending_bytes, tx, pending>>
        \/ /\ tx' = tx \o pending /\ pending' = <<>>
           /\ queue_bytes' = queue_bytes + pending_bytes /\ pending_bytes' = 0
    BY <1>1 DEF report_backpressure, queues
  <1>3. CASE UNCHANGED <<queue_bytes, pending_bytes, tx, pending>>
    BY <1>1, <1>3 DEF Accounts, CountersExact
  <1>4. CASE /\ tx' = tx \o pending /\ pending' = <<>>
             /\ queue_bytes' = queue_bytes + pending_bytes /\ pending_bytes' = 0
    <2>1. /\ SizeOf(tx') = SizeOf(tx) + SizeOf(pending) /\ SizeOf(pending') = 0
          /\ SizeOf(tx) \in Nat /\ SizeOf(pending) \in Nat /\ SizeOf(batch) \in Nat
          /\ BytesOf(strand, "try") \in Nat
      BY <1>0, <1>4, SizeConcat, SizeFacts, BytesFacts
    <2>2. ASSUME ~closing PROVE queue_bytes' = SizeOf(tx') + SizeOf(batch) + BytesOf(strand, "try")
      <3>1. queue_bytes = SizeOf(tx) + SizeOf(batch) + BytesOf(strand, "try")
            /\ pending_bytes = SizeOf(pending)
        BY <2>2 DEF Accounts, CountersExact
      <3>2. QED
        BY <1>4, <2>1, <3>1, SMT
    <2>3. ~cleanup_done
      BY DEF Report, Ended
    <2>4. QED
      BY <1>1, <1>4, <2>1, <2>2, <2>3 DEF Accounts, CountersExact
  <1>5. QED
    BY <1>2, <1>3, <1>4

\* The completed batch leaves queue_bytes.
LEMMA RunWroteAccounts ==
  ASSUME Adds, TypeOK, Ended, Accounts, RunWrote
  PROVE  Accounts'
  <1>0. tx \in Seq(Items) /\ batch \in Seq(Items) /\ queue_bytes \in Nat
        /\ strand \in Seq(Handlers)
    BY DEF TypeOK, QueuesType, WriteType, CountersType, StrandType
  <1>1. /\ strand # <<>> /\ Head(strand).op = "wrote" /\ alive /\ ~closing
        /\ batch' = <<>> /\ bytes_to_write' = 0 /\ strand' = Tail(strand)
        /\ queue_bytes' = release_reserved_write_bytes(queue_bytes, bytes_to_write)
        /\ UNCHANGED <<closing, cleanup_done, inflight_bytes, pending_bytes, tx, pending>>
    BY DEF RunWrote, Running, Usable, life, queues
  <1>2. /\ BytesOf(strand, "try") = BytesOf(strand', "try")
        /\ BytesOf(strand, "plain") = BytesOf(strand', "plain")
        /\ BytesOf(strand', "try") \in Nat
    BY <1>1, WriteBytes DEF IsWrite
  <1>3. SizeOf(tx) \in Nat /\ SizeOf(batch) \in Nat /\ SizeOf(batch') = 0
    BY <1>0, <1>1, SizeFacts
  <1> DEFINE rest == SizeOf(tx) + BytesOf(strand', "try")
  <1>4. rest \in Nat /\ queue_bytes = SizeOf(batch) + rest /\ bytes_to_write = SizeOf(batch)
    BY <1>1, <1>2, <1>3, SMT DEF Accounts, CountersExact
  <1> HIDE DEF rest
  <1>5. queue_bytes' = rest
    BY <1>1, <1>3, <1>4, ReleasePart
  <1>6. queue_bytes' = SizeOf(tx') + SizeOf(batch') + BytesOf(strand', "try")
    <2>1. SizeOf(tx') = SizeOf(tx)
      BY <1>1
    <2>2. QED
      BY <1>2, <1>3, <1>5, <2>1, SMT DEF rest
  <1>7. ~cleanup_done
    BY <1>1 DEF Ended
  <1>8. QED
    BY <1>1, <1>2, <1>3, <1>6, <1>7 DEF Accounts, CountersExact

\* One step of either session keeps the accounts.
LEMMA StepAccounts ==
  ASSUME Adds, TypeOK, HandlersOK, Ended, Control, Accounts, SessionStep
  PROVE  Accounts'
  <1>0. /\ tx \in Seq(Items) /\ batch \in Seq(Items) /\ pending \in Seq(Items)
        /\ strand \in Seq(Handlers) /\ bytes_to_write \in Nat
    BY DEF TypeOK, QueuesType, WriteType, StrandType
  <1>1. CASE EventStep
    <2>1. /\ UNCHANGED <<queue_bytes, pending_bytes, inflight_bytes, tx, pending, batch,
                         bytes_to_write, cleanup_done, closing>>
          /\ StrandEvents
      BY <1>1 DEF EventStep, counters, queues, write
    <2>2. QED
      BY <2>1, EventBytes, QuietAccounts
  <1>2. CASE StopStep
    <2>1. /\ UNCHANGED <<queue_bytes, pending_bytes, inflight_bytes, tx, pending, batch,
                         bytes_to_write, cleanup_done>>
          /\ closing' = TRUE
          /\ StrandEvents
      BY <1>2 DEF StopStep, counters, queues, write
    <2>2. QED
      BY <2>1, EventBytes, QuietAccounts
  <1>3. CASE CloseStep
    <2>1. /\ UNCHANGED inflight_bytes /\ StrandEvents
          /\ UNCHANGED <<batch, bytes_to_write>> \/ (batch' = <<>> /\ bytes_to_write' = 0)
      BY <1>3 DEF CloseStep, CloseFrame
    <2>2. /\ BytesOf(strand', "plain") = BytesOf(strand, "plain")
          /\ BytesOf(strand', "try") = BytesOf(strand, "try")
      BY <2>1, EventBytes
    <2>3. SizeOf(<<>>) = 0
      BY <1>0, SizeFacts
    <2>4. bytes_to_write' = SizeOf(batch')
      BY <2>1, <2>3 DEF Accounts
    <2>5. CASE FirstClose
      BY <2>1, <2>2, <2>3, <2>4, <2>5 DEF FirstClose, Accounts, CountersExact
    <2>6. CASE CloseAgain
      <3>1. closing' /\ cleanup_done
        BY <2>6 DEF CloseAgain, Ended
      <3>2. QED
        BY <2>1, <2>2, <2>4, <2>6, <3>1 DEF CloseAgain, Accounts, CountersExact
    <2>7. QED
      BY <1>3, <2>5, <2>6, CloseOnce
  <1>4. CASE Callers
    BY <1>4, CallersAccounts
  <1>5. CASE RunPlainClosed
    <2>1. /\ strand # <<>> /\ Head(strand).op = "plain" /\ strand' = Tail(strand)
          /\ inflight_bytes' = release_reserved_limit_bytes(inflight_bytes, Head(strand).n)
          /\ UNCHANGED <<queue_bytes, pending_bytes, tx, pending, batch, bytes_to_write,
                         cleanup_done, closing>>
      BY <1>5 DEF RunPlainClosed, Running, Done, life, queues, write
    <2>2. /\ Head(strand).n \in Nat /\ BytesOf(strand', "plain") \in Nat
          /\ BytesOf(strand, "plain") = Head(strand).n + BytesOf(strand', "plain")
          /\ BytesOf(strand, "try") = BytesOf(strand', "try")
      BY <2>1, WriteBytes
    <2>3. inflight_bytes = Head(strand).n + BytesOf(strand', "plain")
      BY <2>2 DEF Accounts, CountersExact
    <2>4. release_reserved_limit_bytes(Head(strand).n + BytesOf(strand', "plain"), Head(strand).n)
            = BytesOf(strand', "plain")
      BY <2>2, ReleasePart
    <2>5. inflight_bytes' = BytesOf(strand', "plain")
      BY <2>1, <2>3, <2>4
    <2>6. QED
      BY <2>1, <2>2, <2>5 DEF Accounts, CountersExact
  <1>6. CASE RunPlain \/ ClearBackpressure \/ RearmBackpressure \/ BeginBatch
    <2>1. UNCHANGED <<queue_bytes, pending_bytes, inflight_bytes, tx, pending, batch,
                      bytes_to_write, cleanup_done, closing, strand>>
      BY <1>6 DEF RunPlain, ClearBackpressure, RearmBackpressure, BeginBatch, life,
                  counters, queues, write
    <2>2. QED
      BY <2>1, QuietAccounts
  <1>7. CASE Commit
    BY <1>7, CommitAccounts
  <1>8. CASE RunTry
    BY <1>8, RunTryAccounts
  <1>9. CASE Report
    BY <1>9, ReportAccounts
  <1>10. CASE DoWriteStep
    <2>1. UNCHANGED <<queue_bytes, pending_bytes, inflight_bytes, tx, pending, cleanup_done,
                      closing, strand>>
      BY <1>10 DEF DoWriteStep, life, counters, queues
    <2>2. CASE UNCHANGED <<batch, bytes_to_write>>
      BY <2>1, <2>2, QuietAccounts
    <2>3. CASE ~UNCHANGED <<batch, bytes_to_write>>
      <3>1. batch' = <<>> /\ bytes_to_write' = 0 /\ ~closing /\ ~(writing /\ ~completing)
        BY <1>10, <2>3 DEF DoWriteStep, Usable
      <3>2. batch = <<>>
        BY <3>1 DEF Control
      <3>3. SizeOf(<<>>) = 0
        BY <1>0, SizeFacts
      <3>4. bytes_to_write = 0
        BY <3>2, <3>3 DEF Accounts
      <3>5. QED
        BY <2>3, <3>1, <3>2, <3>4
    <2>4. QED
      BY <2>2, <2>3
  <1>11. CASE Gather
    <2>1. /\ tx # <<>> /\ batch' = Append(batch, Head(tx)) /\ tx' = Tail(tx)
          /\ bytes_to_write' = bytes_to_write + Head(tx).n
          /\ UNCHANGED <<queue_bytes, pending_bytes, inflight_bytes, pending, cleanup_done,
                         closing, strand>>
      BY <1>11 DEF Gather, GatherMore, life, counters
    <2>2. Head(tx) \in Items /\ Tail(tx) \in Seq(Items)
      BY <1>0, <2>1, SMT
    <2>3. Head(tx).n \in Nat
      BY <2>2 DEF Items
    <2>4. /\ SizeOf(batch') = SizeOf(batch) + Head(tx).n
          /\ SizeOf(tx) = Head(tx).n + SizeOf(tx')
          /\ SizeOf(batch) \in Nat /\ SizeOf(tx') \in Nat
      BY <1>0, <2>1, <2>2, SizeFacts
    <2>5. SizeOf(tx') + SizeOf(batch') = SizeOf(tx) + SizeOf(batch)
      BY ONLY <2>3, <2>4, SMT
    <2>6. bytes_to_write' = SizeOf(batch')
      BY <2>1, <2>4 DEF Accounts
    <2>7. QED
      BY <2>1, <2>5, <2>6 DEF Accounts, CountersExact
  <1>12. CASE RunWroteClosed
    <2>1. /\ strand # <<>> /\ ~IsWrite(Head(strand)) /\ strand' = Tail(strand)
          /\ batch' = <<>> /\ bytes_to_write' = 0 /\ ~Usable
          /\ UNCHANGED <<queue_bytes, pending_bytes, inflight_bytes, tx, pending,
                         cleanup_done, closing>>
      BY <1>12 DEF RunWroteClosed, Running, Done, Skip, IsWrite, life, counters, queues
    <2>2. /\ BytesOf(strand, "try") = BytesOf(strand', "try")
          /\ BytesOf(strand, "plain") = BytesOf(strand', "plain")
      BY <2>1, WriteBytes
    <2>3. ~closing => batch = <<>>
      BY <2>1 DEF Usable, Ended, Control
    <2>4. SizeOf(batch') = 0
      BY <1>0, <2>1, SizeFacts
    <2>5. ~closing => SizeOf(batch') = SizeOf(batch)
      BY <2>1, <2>3
    <2>6. QED
      BY <2>1, <2>2, <2>4, <2>5 DEF Accounts, CountersExact
  <1>13. CASE RunWrote
    BY <1>13, RunWroteAccounts
  <1>14. QED
    BY <1>1, <1>2, <1>3, <1>4, <1>5, <1>6, <1>7, <1>8, <1>9, <1>10, <1>11, <1>12, <1>13
       DEF SessionStep

-----------------------------------------------------------------------------
(* Backpressure has a driver.                                                *)

HasTry == \E i \in DOMAIN strand : strand[i].op = "try"

\* In a usable session under pressure, something will make report_backpressure
\* run again: a write in flight, the do_write about to start one, or the handler
\* of an accepted try-write.
Driver ==
    Usable /\ backpressure_active =>
        /\ pc \in {"idle", "commit"} => writing \/ HasTry
        /\ pc = "after" => tx # <<>> \/ (writing /\ ~completing) \/ HasTry

\* Bytes of posted try-writes are those of some handler.
LEMMA BytesPosted ==
  ASSUME Adds, TypeOK, BytesOf(strand, "try") # 0
  PROVE  HasTry
  <1> DEFINE w == Weights(strand, "try")
  <1>1. /\ w \in Seq(Nat) /\ Len(w) = Len(strand) /\ BytesOf(strand, "try") = Total(w)
        /\ \A i \in 1 .. Len(strand) : w[i] = Weight(strand[i], "try")
    BY WeightsSeq DEF TypeOK, StrandType
  <1>2. DOMAIN strand = 1 .. Len(strand)
    BY SMT DEF TypeOK, StrandType
  <1> HIDE DEF w
  <1>3. SUFFICES ASSUME ~HasTry PROVE FALSE
    OBVIOUS
  <1>4. \A i \in 1 .. Len(strand) : strand[i].op # "try"
    BY <1>2, <1>3 DEF HasTry
  <1>5. \A i \in 1 .. Len(w) : w[i] = 0
    BY <1>1, <1>4 DEF Weight
  <1>6. Total(w) = 0
    BY <1>1, <1>5 DEF Adds
  <1>7. QED
    BY <1>1, <1>6

\* Only the handler of a try-write takes itself off the strand.
LEMMA TryStays ==
  ASSUME TypeOK, HasTry,
         \/ UNCHANGED strand
         \/ \E h : strand' = Append(strand, h)
         \/ strand # <<>> /\ Head(strand).op # "try" /\ strand' = Tail(strand)
  PROVE  HasTry'
  <1>1. strand \in Seq(Handlers)
    BY DEF TypeOK, StrandType
  <1>2. PICK i \in 1 .. Len(strand) : strand[i].op = "try"
    BY <1>1, SMT DEF HasTry
  <1>3. CASE UNCHANGED strand
    BY <1>3 DEF HasTry
  <1>4. CASE \E h : strand' = Append(strand, h)
    <2>1. PICK h : strand' = Append(strand, h)
      BY <1>4
    <2>2. i \in DOMAIN strand' /\ strand'[i] = strand[i]
      BY <1>1, <1>2, <2>1, SMT
    <2>3. QED
      BY <1>2, <2>2 DEF HasTry
  <1>5. CASE strand # <<>> /\ Head(strand).op # "try" /\ strand' = Tail(strand)
    <2>1. i # 1
      BY <1>1, <1>2, <1>5, SMT
    <2>2. Len(strand) \in Nat /\ Len(strand') = Len(strand) - 1
          /\ DOMAIN strand' = 1 .. Len(strand')
          /\ \A j \in 1 .. Len(strand') : strand'[j] = strand[j + 1]
      BY <1>1, <1>5, SMT
    <2>3. i - 1 \in 1 .. Len(strand') /\ (i - 1) + 1 = i
      BY <1>2, <2>1, <2>2, SMT
    <2>4. strand'[i - 1] = strand[i]
      BY <2>2, <2>3
    <2>5. QED
      BY <1>2, <2>2, <2>3, <2>4 DEF HasTry
  <1>6. QED
    BY <1>3, <1>4, <1>5

\* Where queue_bytes is not zero there is something to drive.
LEMMA BytesDrive ==
  ASSUME Adds, TypeOK, Control, Accounts, ~closing, queue_bytes # 0
  PROVE  tx # <<>> \/ (writing /\ ~completing) \/ HasTry
  <1>1. tx \in Seq(Items) /\ batch \in Seq(Items) /\ strand \in Seq(Handlers)
    BY DEF TypeOK, QueuesType, WriteType, StrandType
  <1>2. queue_bytes = SizeOf(tx) + SizeOf(batch) + BytesOf(strand, "try")
    BY DEF Accounts, CountersExact
  <1>3. SizeOf(<<>>) = 0
    BY <1>1, SizeFacts
  <1>4. CASE tx # <<>>
    BY <1>4
  <1>5. CASE batch # <<>>
    BY <1>5 DEF Control
  <1>6. CASE tx = <<>> /\ batch = <<>>
    <2>1. BytesOf(strand, "try") \in Nat
      BY <1>1, BytesFacts
    <2>2. BytesOf(strand, "try") # 0
      BY <1>2, <1>3, <1>6, <2>1, SMT
    <2>3. QED
      BY <2>2, BytesPosted
  <1>7. QED
    BY <1>4, <1>5, <1>6

\* One step of either session keeps it.  A threshold of zero would turn the
\* pressure on over an empty queue.
LEMMA StepDriver ==
  ASSUME Adds, BackpressureThreshold > 0, TypeOK, HandlersOK, Ended, Control, Accounts, Driver, SessionStep
  PROVE  Driver'
  <1>0. /\ bp_high \in Nat /\ bp_high >= 1 /\ bp_low \in Nat /\ bp_low >= 1
        /\ queue_bytes \in Nat
    BY SessionAssumption, SMT DEF bp_high, bp_low, TypeOK, CountersType
  <1>1. CASE EventStep
    <2>1. UNCHANGED <<closing, cleanup_done, backpressure_active, tx, writing, completing>>
      BY <1>1 DEF EventStep, counters, queues, write
    <2>2. /\ alive' = alive \/ (~alive /\ ~cleanup_done)
          /\ pc' = pc \/ (pc = "initiate" /\ pc' = "idle")
          /\ StrandEvents
      BY <1>1 DEF EventStep
    <2>3. HasTry => HasTry'
      BY <2>2, TryStays DEF StrandEvents, IsWrite
    <2>4. CASE ~alive /\ ~cleanup_done
      BY <2>1, <2>4 DEF Control, Driver
    <2>5. CASE alive' = alive /\ pc' = pc
      BY <2>1, <2>3, <2>5 DEF Driver, Usable
    <2>6. CASE pc = "initiate" /\ pc' = "idle"
      BY <2>1, <2>6 DEF Driver, Control
    <2>7. QED
      BY <2>2, <2>4, <2>5, <2>6
  <1>2. CASE StopStep
    BY <1>2 DEF StopStep, Driver, Usable
  <1>3. CASE CloseStep
    <2>1. closing'
      BY <1>3, CloseOnce DEF FirstClose, CloseAgain, Ended
    <2>2. QED
      BY <2>1 DEF Driver, Usable
  <1>4. CASE Callers
    <2>1. UNCHANGED <<alive, closing, backpressure_active, tx, writing, completing, pc>>
      BY <1>4 DEF Callers, Write, TryWrite, Admit, life, queues, write, control
    <2>2. \E h : strand' = Append(strand, h)
      BY <1>4 DEF Callers, Write, TryWrite, Post
    <2>3. HasTry => HasTry'
      BY <2>2, TryStays
    <2>4. QED
      BY <2>1, <2>3 DEF Driver, Usable
  <1>5. CASE RunPlainClosed \/ RunWroteClosed
    <2>1. ~Usable /\ UNCHANGED <<alive, closing>>
      BY <1>5 DEF RunPlainClosed, RunWroteClosed, Skip, life
    <2>2. QED
      BY <2>1 DEF Driver, Usable
  <1>6. CASE RunPlain
    <2>1. /\ pc = "idle" /\ pc' = "commit"
          /\ UNCHANGED <<alive, closing, backpressure_active, writing, strand>>
      BY <1>6 DEF RunPlain, Running, life, counters, write
    <2>2. QED
      BY <2>1 DEF Driver, Usable, HasTry
  <1>7. CASE Commit
    <2>1. /\ decision \in {"Immediate", "Pending"} /\ strand # <<>> /\ strand[1].op = "plain"
      BY <1>7 DEF Commit, HandlersOK
    <2>2. /\ pc = "commit" /\ pc' \in {"report", "idle"} /\ strand' = Tail(strand)
          /\ UNCHANGED <<alive, closing, backpressure_active, writing>>
      BY <1>7, <2>1 DEF Commit, EnqueueImmediate, EnqueuePending, life, write
    <2>3. Head(strand).op # "try"
      BY <2>1, NonEmptyLen DEF TypeOK, StrandType
    <2>4. HasTry => HasTry'
      BY <2>1, <2>2, <2>3, TryStays
    <2>5. QED
      BY <2>2, <2>4 DEF Driver, Usable
  <1>8. CASE RunTry
    <2>1. UNCHANGED <<alive, closing>> /\ (~Usable \/ pc' = "report")
      BY <1>8 DEF RunTry, life
    <2>2. QED
      BY <2>1 DEF Driver, Usable
  <1>9. CASE Report
    <2>1. /\ report_backpressure(queue_bytes, "after")
          /\ UNCHANGED <<alive, closing, writing, completing, strand>>
      BY <1>9 DEF Report, life, write
    <2>2. SUFFICES ASSUME Usable, backpressure_active', pc' = "after"
                   PROVE  tx' # <<>> \/ (writing /\ ~completing) \/ HasTry
      <3>1. pc' \in {"after", "flushed"}
        BY <2>1 DEF report_backpressure
      <3>2. QED
        BY <2>1, <3>1 DEF Driver, Usable, HasTry
    <2>3. tx' = tx /\ queue_bytes # 0
      <3>1. CASE RisingEdge(backpressure_active, queue_bytes, bp_high)
        BY <1>0, <2>1, <2>2, <3>1, SMT DEF report_backpressure, RisingEdge, queues
      <3>2. CASE FallingEdge(backpressure_active, queue_bytes, bp_low)
        BY <2>1, <2>2, <3>2 DEF report_backpressure, FallingEdge, RisingEdge
      <3>3. CASE /\ ~RisingEdge(backpressure_active, queue_bytes, bp_high)
                 /\ ~FallingEdge(backpressure_active, queue_bytes, bp_low)
        <4>1. tx' = tx /\ backpressure_active' = backpressure_active
          BY <2>1, <2>2, <3>3 DEF report_backpressure, queues
        <4>2. ~(queue_bytes <= bp_low)
          BY <2>2, <3>3, <4>1 DEF FallingEdge
        <4>3. QED
          BY <1>0, <4>1, <4>2, SMT
      <3>4. QED
        BY <3>1, <3>2, <3>3
    <2>4. QED
      BY <2>2, <2>3, BytesDrive DEF Usable
  <1>10. CASE ClearBackpressure
    BY <1>10 DEF ClearBackpressure, Driver
  <1>11. CASE RearmBackpressure
    <2>1. /\ UNCHANGED <<alive, closing, tx, writing, completing, strand>>
          /\ pc = "cleared" /\ pc' = "after"
      BY <1>11 DEF RearmBackpressure, life, queues, write
    <2>2. backpressure_active' => queue_bytes >= bp_high
      BY <1>11, <2>1 DEF RearmBackpressure, Control
    <2>3. backpressure_active' => queue_bytes # 0
      BY <1>0, <2>2, SMT
    <2>4. QED
      BY <2>1, <2>3, BytesDrive DEF Driver, Usable, HasTry
  <1>12. CASE DoWriteStep
    <2>1. /\ UNCHANGED <<alive, closing, backpressure_active, tx, strand>> /\ pc = "after"
          /\ \/ /\ ~Usable \/ tx = <<>> \/ (writing /\ ~completing)
                /\ pc' = "idle" /\ writing' = (writing /\ ~completing)
             \/ pc' = "gather"
      BY <1>12 DEF DoWriteStep, life, counters, queues
    <2>2. QED
      BY <2>1 DEF Driver, Usable, HasTry
  <1>13. CASE Gather \/ BeginBatch \/ RunWrote
    <2>1. pc' \in {"gather", "initiate", "report"}
      BY <1>13 DEF Gather, BeginBatch, RunWrote, control
    <2>2. QED
      BY <2>1 DEF Driver
  <1>14. QED
    BY <1>1, <1>2, <1>3, <1>4, <1>5, <1>6, <1>7, <1>8, <1>9, <1>10, <1>11, <1>12, <1>13
       DEF SessionStep

-----------------------------------------------------------------------------
(* The theorems.                                                             *)

\* The inductive invariant.  What drives a session under pressure rests on a
\* threshold that is not zero.
AInv == EInv /\ Accounts /\ (BackpressureThreshold > 0 => Driver)

\* A new session holds no bytes.
LEMMA InitAInv ==
  ASSUME Adds, Init
  PROVE  AInv
  <1>1. EInv
    BY InitEInv
  <1>2. /\ closing = FALSE /\ cleanup_done = FALSE
        /\ queue_bytes = 0 /\ pending_bytes = 0 /\ inflight_bytes = 0
        /\ backpressure_active = FALSE
        /\ tx = <<>> /\ pending = <<>> /\ batch = <<>> /\ bytes_to_write = 0
        /\ strand = <<>>
    BY DEF Init
  <1>3. <<>> \in Seq(Items) /\ <<>> \in Seq(Handlers)
    BY SMT
  <1>4. SizeOf(<<>>) = 0
    BY <1>3, SizeFacts
  <1>5. BytesOf(<<>>, "plain") = 0 /\ BytesOf(<<>>, "try") = 0
    BY <1>3, BytesFacts
  <1>6. Accounts
    BY <1>2, <1>4, <1>5, SMT DEF Accounts, CountersExact
  <1>7. Driver
    BY <1>2 DEF Driver
  <1>8. QED
    BY <1>1, <1>6, <1>7 DEF AInv

\* Steps of either session keep the account.
LEMMA StepAInv ==
  ASSUME Adds, AInv, [Next]_vars \/ [UdsNext]_vars
  PROVE  AInv'
  <1>1. EInv /\ TypeOK /\ HandlersOK /\ Ended /\ Control
    BY DEF AInv, EInv, IInv
  <1>2. EInv' /\ SessionStep
    BY <1>1, StepEInv
  <1>3. Accounts'
    BY <1>1, <1>2, StepAccounts DEF AInv
  <1>4. BackpressureThreshold > 0 => Driver'
    BY <1>1, <1>2, StepDriver DEF AInv
  <1>5. QED
    BY <1>2, <1>3, <1>4 DEF AInv

\* What the account says of a session.
LEMMA AInvGives ==
  ASSUME AInv
  PROVE  CountersExact /\ (BackpressureThreshold > 0 => PressureHasDriver)
  BY DEF AInv, Accounts, Driver, PressureHasDriver, HasTry

\* The library on sums, for its facts; the names of both modules stay apart.
Lib == INSTANCE SumProofs

\* What the lemmas above use of sums is true.
LEMMA Additive == Adds
  <1>1. \A s : Total(s) = Lib!Total(s)
    BY DEF Total, Lib!Total
  <1>2. Total(<<>>) = 0
    BY <1>1, Lib!TotalEmpty
  <1>3. \A s \in Seq(Nat) : Total(s) \in Nat
    BY <1>1, Lib!TotalType
  <1>4. \A s \in Seq(Nat) : (\A i \in 1 .. Len(s) : s[i] = 0) => Total(s) = 0
    BY <1>1, Lib!TotalZero
  <1>5. \A s \in Seq(Nat), e \in Nat : Total(Append(s, e)) = Total(s) + e
    BY <1>1, Lib!TotalAppend
  <1>6. \A s \in Seq(Nat) : s # <<>> => Total(s) = Head(s) + Total(Tail(s))
    BY <1>1, Lib!TotalTail
  <1>7. \A s, t \in Seq(Nat) : Total(s \o t) = Total(s) + Total(t)
    BY <1>1, Lib!TotalConcat
  <1>8. QED
    BY <1>2, <1>3, <1>4, <1>5, <1>6, <1>7 DEF Adds

\* The account of a TCP session is always right.
THEOREM AccountInvariance == Spec => []AInv
  <1>1. AInv /\ [Next]_vars => AInv'
    BY Additive, StepAInv
  <1>2. QED
    BY <1>1, Additive, InitAInv, PTL DEF Spec

\* And so is that of a UDS session.
THEOREM UdsAccountInvariance == UdsSpec => []AInv
  <1>1. AInv /\ [UdsNext]_vars => AInv'
    BY Additive, StepAInv
  <1>2. UdsInit => AInv
    BY Additive, InitAInv DEF UdsInit
  <1>3. QED
    BY <1>1, <1>2, PTL DEF UdsSpec

\* The counters of a TCP session are exactly the bytes they stand for.
THEOREM CountersAreExact == Spec => []CountersExact
  BY AInvGives, AccountInvariance, PTL

\* And those of a UDS session.
THEOREM UdsCountersAreExact == UdsSpec => []CountersExact
  BY AInvGives, UdsAccountInvariance, PTL

\* A usable TCP session under pressure has a write in flight, or a handler on the
\* strand that will start one, whenever the threshold is not zero.
THEOREM PressureIsDriven ==
  ASSUME BackpressureThreshold > 0
  PROVE  Spec => []PressureHasDriver
  <1>1. AInv => PressureHasDriver
    BY AInvGives
  <1>2. QED
    BY <1>1, AccountInvariance, PTL

\* So has a UDS session.
THEOREM UdsPressureIsDriven ==
  ASSUME BackpressureThreshold > 0
  PROVE  UdsSpec => []PressureHasDriver
  <1>1. AInv => PressureHasDriver
    BY AInvGives
  <1>2. QED
    BY <1>1, UdsAccountInvariance, PTL
=============================================================================
