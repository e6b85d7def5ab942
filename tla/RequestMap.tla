----------------------------- MODULE RequestMap -----------------------------
(***************************************************************************)
(* What the store of SendAccountingLedger promises its accounting: a map   *)
(* from request ids to entries.  Ids are given out in order and never      *)
(* again; an entry changes only by becoming active, and is then retired    *)
(* for good.  SendLedger uses the map, and SendLedgerRing implements it.   *)
(***************************************************************************)
EXTENDS Naturals

CONSTANTS
    Tags,           \* what an entry remembers of its admission
    NoTag,
    MaxRequests     \* bound: ids given out

VARIABLES entries, next_id

Ids == 1 .. MaxRequests
Dead == [live |-> FALSE, active |-> FALSE, tag |-> NoTag]
Fresh(tag) == [live |-> TRUE, active |-> FALSE, tag |-> tag]
Live == {r \in Ids : entries[r].live}

Init ==
    /\ entries = [r \in Ids |-> Dead]
    /\ next_id = 0

Admit(tag) ==
    /\ next_id < MaxRequests
    /\ next_id' = next_id + 1
    /\ entries' = [entries EXCEPT ![next_id + 1] = Fresh(tag)]

Activate(S) ==
    /\ entries' = [r \in Ids |-> IF r \in S THEN [entries[r] EXCEPT !.active = TRUE]
                                            ELSE entries[r]]
    /\ UNCHANGED next_id

Retire(S) ==
    /\ entries' = [r \in Ids |-> IF r \in S THEN Dead ELSE entries[r]]
    /\ UNCHANGED next_id

Next ==
    \/ \E tag \in Tags : Admit(tag)
    \/ \E S \in SUBSET Live : Activate(S) \/ Retire(S)

Spec == Init /\ [][Next]_<<entries, next_id>>
=============================================================================
