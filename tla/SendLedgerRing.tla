--------------------------- MODULE SendLedgerRing ---------------------------
(***************************************************************************)
(* The store inside SendAccountingLedger (wirestead/diagnostics/           *)
(* send_accounting.hpp): a power-of-two ring in which slot(i) is request   *)
(* base_ + i, and a sparse map for live requests detached from it.  It     *)
(* implements RequestMap, and find() is the refinement mapping.            *)
(***************************************************************************)
EXTENDS Naturals, FiniteSets, FiniteSetsExt

CONSTANTS
    Tags, NoTag,    \* contributors, and the tag of an empty slot
    InitialSlots,   \* 16 in the code
    MaxRequests     \* bound: ids given out

ASSUME RingAssumption ==
    InitialSlots \in Nat \ {0} /\ MaxRequests \in Nat

VARIABLES
    store,          \* slots_, head_, count_, base_ and sparse_
    next_id,
    peak            \* history: the most requests ever live at once

vars == <<store, next_id, peak>>

Ids == 1 .. MaxRequests
Entry == [live |-> FALSE, active |-> FALSE, tag |-> NoTag]

Capacity(s) == Cardinality(DOMAIN s.slots)
Index(s, i) == (s.head + i) % Capacity(s)
slot(s, i) == s.slots[Index(s, i)]
LiveSlots(s) == {i \in 0 .. s.count - 1 : slot(s, i).live}

\* Which ids find() and contains() know, and the entry find() leads to.
contains(s, id) ==
    IF id < s.base THEN id \in DOMAIN s.sparse ELSE id - s.base \in LiveSlots(s)
find(s, id) == IF id < s.base THEN s.sparse[id] ELSE slot(s, id - s.base)
Live(s) == {r \in Ids : contains(s, r)}

Init ==
    /\ store = [slots |-> [i \in {} |-> Entry], head |-> 0, count |-> 0, base |-> 1,
                sparse |-> [r \in {} |-> Entry]]
    /\ next_id = 0 /\ peak = 0

-----------------------------------------------------------------------------
Grow(s) ==
    LET capacity == IF Capacity(s) = 0 THEN InitialSlots ELSE 2 * Capacity(s)
    IN  [s EXCEPT !.slots = [i \in 0 .. capacity - 1 |-> IF i < s.count THEN slot(s, i) ELSE Entry],
                  !.head = 0]

FaultForgetsDetached(s) ==
    [s EXCEPT !.sparse = [id \in {s.base + i : i \in LiveSlots(s)} |-> find(s, id)],
              !.slots = [i \in DOMAIN s.slots |-> Entry],
              !.head = 0, !.count = 0, !.base = next_id + 1]

\* The live entries leave the ring for the sparse map, and the ring starts over.
Detach(s) ==
    [s EXCEPT !.sparse = [id \in DOMAIN s.sparse \cup {s.base + i : i \in LiveSlots(s)} |->
                              find(s, id)],
              !.slots = [i \in DOMAIN s.slots |-> Entry],
              !.head = 0, !.count = 0, !.base = next_id + 1]

FaultAlwaysGrows(s) == Grow(s)

\* Only a ring that is more than half live grows.
make_room(s) ==
    IF Capacity(s) > 0 /\ Cardinality(LiveSlots(s)) <= s.count \div 2
    THEN Detach(s) ELSE Grow(s)

\* Dead entries at the front leave the ring.
compact(s) ==
    LET dead == IF LiveSlots(s) = {} THEN s.count ELSE Min(LiveSlots(s))
    IN  IF dead = 0 THEN s
        ELSE [s EXCEPT !.head = Index(s, dead), !.count = @ - dead, !.base = @ + dead]

\* The entries of the ids in S die, wherever they are.
Kill(s, S) ==
    [s EXCEPT !.sparse = [id \in DOMAIN @ \ S |-> @[id]],
              !.slots = [i \in DOMAIN @ |->
                  IF \E id \in S : id >= s.base /\ i = Index(s, id - s.base)
                  THEN [@[i] EXCEPT !.live = FALSE, !.tag = NoTag] ELSE @[i]]]

-----------------------------------------------------------------------------
\* admit(): the id is taken only once the entry is stored.
admit(tag) ==
    LET s == IF store.count = Capacity(store) THEN make_room(store) ELSE store
    IN  /\ next_id < MaxRequests
        /\ store' = [s EXCEPT !.slots[Index(s, s.count)] =
                                  [live |-> TRUE, active |-> FALSE, tag |-> tag],
                              !.count = @ + 1]
        /\ next_id' = next_id + 1
        /\ peak' = LET n == Cardinality(Live(store)) + 1 IN IF n > peak THEN n ELSE peak

begin(id) ==
    /\ contains(store, id)
    /\ store' = IF id < store.base THEN [store EXCEPT !.sparse[id].active = TRUE]
                ELSE [store EXCEPT !.slots[Index(store, id - store.base)].active = TRUE]
    /\ UNCHANGED <<next_id, peak>>

\* erase(), by a completion, a discard or a rollback.
erase(id) ==
    /\ contains(store, id)
    /\ store' = IF id < store.base THEN Kill(store, {id}) ELSE compact(Kill(store, {id}))
    /\ UNCHANGED <<next_id, peak>>

Waiting(tag) ==
    {id \in Live(store) : find(store, id).tag = tag /\ ~find(store, id).active}

discard_waiting(tag) ==
    /\ store' = compact(Kill(store, Waiting(tag)))
    /\ UNCHANGED <<next_id, peak>>

end ==
    /\ store' = [store EXCEPT !.sparse = [r \in {} |-> Entry],
                              !.slots = [i \in DOMAIN @ |->
                                  IF \E k \in 0 .. store.count - 1 : i = Index(store, k)
                                  THEN Entry ELSE @[i]],
                              !.head = 0, !.count = 0, !.base = next_id + 1]
    /\ UNCHANGED <<next_id, peak>>

Next ==
    \/ \E tag \in Tags : admit(tag) \/ discard_waiting(tag)
    \/ \E id \in Ids : begin(id) \/ erase(id)
    \/ end

Spec == Init /\ [][Next]_vars

-----------------------------------------------------------------------------
(* Properties.                                                               *)

\* "Ring capacity is bounded by max(16, 4 * peak live requests), independent of
\* retired IDs": holes left by rollbacks and expiries behind a stalled request
\* do not grow the ring (make_room).  The multiple is not even reached.
CapacityBounded == Capacity(store) <= InitialSlots \/ Capacity(store) < 4 * peak

Map == INSTANCE RequestMap WITH
    entries <- [r \in Ids |-> IF contains(store, r) THEN find(store, r) ELSE Entry]

\* Looked up through find(), the store is a RequestMap.
ImplementsMap == Map!Spec

\* And each operation does to the map what the accounting relies on: it admits
\* the entry, activates or retires exactly the ids it was asked to, whether
\* they are in the ring or detached, and moves no other.
OperationsExact ==
    [][/\ \A tag \in Tags : admit(tag) => Map!Admit(tag)
       /\ \A id \in Ids : begin(id) => Map!Activate({id})
       /\ \A id \in Ids : erase(id) => Map!Retire({id})
       /\ \A tag \in Tags : discard_waiting(tag) => Map!Retire(Waiting(tag))
       /\ end => Map!Retire(Map!Live)]_vars
=============================================================================
