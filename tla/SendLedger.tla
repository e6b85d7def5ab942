----------------------------- MODULE SendLedger -----------------------------
(***************************************************************************)
(* SendAccountingLedger (wirestead/diagnostics/send_accounting.hpp): what  *)
(* became of every accepted request, as running totals.  Every operation   *)
(* holds the ledger's mutex, so each is one step.                          *)
(*                                                                         *)
(* Totals count requests and bytes per owner: the ledger itself (All) and  *)
(* each contributor group.  An entry belongs to the measurement epoch it   *)
(* was admitted in, and only entries of the current epoch are counted.     *)
(* The callers' submission_mtx_ makes an admission, from admit to commit   *)
(* or rollback, exclude end, discard_waiting and reset.                    *)
(***************************************************************************)
EXTENDS Integers, FiniteSets, Sequences, Sums

CONSTANTS
    Groups,         \* contributors: the virtual sessions of a UDP server
    NoGroup, All,   \* no contributor, and the ledger's own totals
    Bytes,          \* the size of each request
    MaxRequests,    \* bound: requests admitted
    MaxEpoch,       \* bound: resets
    MaxBatch,       \* bound: requests of one gather write
    DiscardCauses, EndCauses \* bound: the causes discard and end are called with

Ids == 1 .. MaxRequests
Owners == Groups \cup {All}
Cause == {"ExplicitStop", "ConnectionLoss", "QueuePressure", "SessionExpiry"}

ASSUME LedgerAssumption ==
    /\ NoGroup \notin Owners /\ All \notin Groups
    /\ MaxRequests \in Nat /\ MaxEpoch \in Nat /\ MaxBatch \in Nat
    /\ Bytes \in [Ids -> Nat]
    /\ DiscardCauses \subseteq Cause /\ EndCauses \subseteq Cause

discarded_before_write ==
    [ExplicitStop |-> "stop discarded", ConnectionLoss |-> "loss discarded",
     QueuePressure |-> "pressure discarded", SessionExpiry |-> "expiry discarded"]
aborted_during_write ==
    [ExplicitStop |-> "stop aborted", ConnectionLoss |-> "loss aborted",
     QueuePressure |-> "pressure aborted", SessionExpiry |-> "expiry aborted"]
Losses == {discarded_before_write[c] : c \in Cause} \cup {aborted_during_write[c] : c \in Cause}

\* The categories of SendAccounting, and what can become of a request.
Categories == {"accepted", "outstanding", "written"} \cup Losses
Endings == {"written", "rolled back"} \cup Losses

VARIABLES
    entries, next_id,   \* the store
    epoch, group_epoch, \* the measurement epoch, and the one each group is in
    requests, bytes,    \* the totals: requests and bytes per owner and category
    confirmed,          \* confirmed_written_bytes per owner
    admitting,          \* the newest request's Admission is neither committed nor destroyed
    flying,             \* the batch handed to the socket
    history             \* what became of each request, and whom it counted for

totals == <<requests, bytes, confirmed>>
vars == <<entries, next_id, epoch, group_epoch, totals, admitting, flying, history>>

Tags == [epoch : 0 .. MaxEpoch, group : Groups \cup {NoGroup}]
NoTag == [epoch |-> 0, group |-> NoGroup]
Store == INSTANCE RequestMap

Zero == [c \in Categories |-> 0]

Init ==
    /\ Store!Init
    /\ epoch = 0 /\ group_epoch = [g \in Groups |-> 0]
    /\ requests = [o \in Owners |-> Zero] /\ bytes = [o \in Owners |-> Zero]
    /\ confirmed = [o \in Owners |-> 0]
    /\ admitting = FALSE /\ flying = <<>>
    /\ history = [r \in Ids |-> [is |-> "none", tag |-> NoTag]]

-----------------------------------------------------------------------------
\* update(): a request of the current epoch counts for the ledger and for its
\* group, one of an older epoch for nobody.
CountsFor(tag, o) ==
    /\ tag.epoch = epoch
    /\ o = All \/ o = tag.group

\* The sum of f over the requests of S.
Sum(f, S) == Total([r \in Ids |-> IF r \in S THEN f[r] ELSE 0])

\* How many requests of S count for o, and their bytes.
RequestsOf(S, o) == Cardinality({r \in S : CountsFor(entries[r].tag, o)})
BytesOf(S, o) == Sum(Bytes, {r \in S : CountsFor(entries[r].tag, o)})

\* Retiring the requests of S, each to its own ending, takes them out of
\* outstanding; a rollback takes them out of accepted too.
Leaves(S, ending, c) ==
    {r \in S : c = "outstanding" \/ (c = "accepted" /\ ending[r] = "rolled back")}
Joins(S, ending, c) == {r \in S : ending[r] = c}

Retire(S, ending) ==
    /\ Store!Retire(S)
    /\ requests' = [o \in Owners |-> [c \in Categories |->
            requests[o][c] + RequestsOf(Joins(S, ending, c), o)
                           - RequestsOf(Leaves(S, ending, c), o)]]
    /\ bytes' = [o \in Owners |-> [c \in Categories |->
            bytes[o][c] + BytesOf(Joins(S, ending, c), o)
                        - BytesOf(Leaves(S, ending, c), o)]]
    /\ history' = [r \in Ids |-> IF r \in S THEN [history[r] EXCEPT !.is = ending[r]]
                                            ELSE history[r]]

\* terminate() and erase() of every request of S.
terminate(S, cause) ==
    /\ Retire(S, [r \in S |-> IF entries[r].active THEN aborted_during_write[cause]
                                                   ELSE discarded_before_write[cause]])
    /\ UNCHANGED confirmed

-----------------------------------------------------------------------------
FaultKeepsGroupTotals(t, zero, o, g) == t[o]

\* A group seen for the first time in this epoch starts from zero.
CurrentTotals(t, zero, o, g) ==
    IF o = g /\ group_epoch[g] # epoch THEN zero ELSE t[o]

admit(g) ==
    LET r == next_id + 1
        tag == [epoch |-> epoch, group |-> g]
        plus(o, c, n) == IF o \in {All, g} /\ c \in {"accepted", "outstanding"} THEN n ELSE 0
    IN  /\ ~admitting
        /\ Store!Admit(tag)
        /\ group_epoch' = [h \in Groups |-> IF h = g THEN epoch ELSE group_epoch[h]]
        /\ requests' = [o \in Owners |-> [c \in Categories |->
                            CurrentTotals(requests, Zero, o, g)[c] + plus(o, c, 1)]]
        /\ bytes' = [o \in Owners |-> [c \in Categories |->
                            CurrentTotals(bytes, Zero, o, g)[c] + plus(o, c, Bytes[r])]]
        /\ confirmed' = [o \in Owners |-> CurrentTotals(confirmed, 0, o, g)]
        /\ admitting' = TRUE
        /\ history' = [history EXCEPT ![r] = [is |-> "outstanding", tag |-> tag]]
        /\ UNCHANGED <<epoch, flying>>

\* The handler is posted, and the Admission committed.
commit ==
    /\ admitting
    /\ admitting' = FALSE
    /\ UNCHANGED <<entries, next_id, epoch, group_epoch, totals, flying, history>>

\* Posting throws: the Admission is destroyed uncommitted.
rollback ==
    /\ admitting
    /\ admitting' = FALSE
    /\ IF next_id \in Store!Live THEN Retire({next_id}, [r \in {next_id} |-> "rolled back"])
                                 ELSE UNCHANGED <<entries, next_id, requests, bytes, history>>
    /\ UNCHANGED <<epoch, group_epoch, confirmed, flying>>

-----------------------------------------------------------------------------
\* The requests a transport may name: those whose handler was posted.
Named == IF admitting THEN 1 .. (next_id - 1) ELSE 1 .. next_id

Members(batch) == {batch[i] : i \in DOMAIN batch}
Batches == UNION {{s \in [1 .. n -> Named] : \A i, j \in 1 .. n : s[i] = s[j] => i = j}
                    : n \in 1 .. MaxBatch}

\* begin_batch activates all of the batch or nothing.  A refused batch is not
\* written: the clients look at the answer, and the sessions and the serial port
\* hold submission_mtx_, which the calls that retire waiting requests take.
begin_batch(batch) ==
    /\ flying = <<>>
    /\ IF Members(batch) \subseteq Store!Live
       THEN Store!Activate(Members(batch)) /\ flying' = batch
       ELSE UNCHANGED <<entries, next_id, flying>>
    /\ UNCHANGED <<epoch, group_epoch, totals, admitting, history>>

\* Bytes of the batch before position i.
Before(i) == Total([j \in 1 .. (i - 1) |-> Bytes[flying[j]]])

FaultUncapped(written, i) == IF written <= Before(i) THEN 0 ELSE written - Before(i)

\* How much of its i-th request a written prefix of the batch covers.
Covered(written, i) ==
    IF written <= Before(i) THEN 0
    ELSE IF written - Before(i) < Bytes[flying[i]] THEN written - Before(i)
    ELSE Bytes[flying[i]]

complete_batch(written) ==
    LET found == {i \in DOMAIN flying : flying[i] \in Store!Live}
        place(r) == CHOOSE i \in found : flying[i] = r
        S == {flying[i] : i \in found}
    IN  /\ flying # <<>>
        /\ written <= Before(Len(flying) + 1)
        /\ Retire(S, [r \in S |-> IF Covered(written, place(r)) = Bytes[r]
                                  THEN "written" ELSE aborted_during_write["ConnectionLoss"]])
        /\ confirmed' = [o \in Owners |-> confirmed[o] + Sum(
                [r \in S |-> Covered(written, place(r))],
                {r \in S : CountsFor(entries[r].tag, o)})]
        /\ flying' = <<>>
        /\ UNCHANGED <<epoch, group_epoch, admitting>>

-----------------------------------------------------------------------------
discard(r, cause) ==
    /\ terminate({r} \cap Store!Live, cause)
    /\ UNCHANGED <<epoch, group_epoch, admitting, flying>>

\* A virtual session expires: what it has waiting is discarded, what is being
\* written keeps its actual outcome.
discard_waiting(g, cause) ==
    /\ ~admitting
    /\ terminate({r \in Store!Live : entries[r].tag.group = g /\ ~entries[r].active}, cause)
    /\ UNCHANGED <<epoch, group_epoch, admitting, flying>>

end(cause) ==
    /\ ~admitting
    /\ terminate(Store!Live, cause)
    /\ UNCHANGED <<epoch, group_epoch, admitting, flying>>

Cleared(t, zero) == [o \in Owners |-> IF o = All THEN zero ELSE t[o]]

\* A new measurement: the totals are cleared, the entries stay.  A group's own
\* totals are cleared by its next admission.
reset ==
    /\ ~admitting
    /\ epoch < MaxEpoch
    /\ epoch' = epoch + 1
    /\ requests' = Cleared(requests, Zero)
    /\ bytes' = Cleared(bytes, Zero)
    /\ confirmed' = Cleared(confirmed, 0)
    /\ UNCHANGED <<entries, next_id, group_epoch, admitting, flying, history>>

Next ==
    \/ \E g \in Groups \cup {NoGroup} : admit(g)
    \/ commit \/ rollback
    \/ \E batch \in Batches : begin_batch(batch)
    \/ \E written \in 0 .. Before(Len(flying) + 1) : complete_batch(written)
    \/ \E r \in Named, cause \in DiscardCauses : discard(r, cause)
    \/ \E g \in Groups : discard_waiting(g, "SessionExpiry")
    \/ \E cause \in EndCauses : end(cause)
    \/ reset

Spec == Init /\ [][Next]_vars

-----------------------------------------------------------------------------
(* Properties.                                                               *)

\* snapshot() and snapshot(group)
snapshot(t, zero, o) == IF o = All \/ group_epoch[o] = epoch THEN t[o] ELSE zero

\* The requests an owner should see in a category, by what became of them.
Accountable(o, c) ==
    {r \in Ids : /\ CountsFor(history[r].tag, o)
                 /\ IF c = "accepted" THEN history[r].is \notin {"none", "rolled back"}
                                      ELSE history[r].is = c}

\* What snapshot() reports is what happened: in each category, for the ledger and
\* for each group, exactly the requests accepted since the last reset whose fate
\* it is.  So accepted = written + outstanding + losses, nothing is counted
\* twice, and a late completion never leaks into a newer measurement.
RequestsExact ==
    \A o \in Owners, c \in Categories :
        snapshot(requests, Zero, o)[c] = Cardinality(Accountable(o, c))

\* The same for the byte totals.
BytesExact ==
    \A o \in Owners, c \in Categories :
        snapshot(bytes, Zero, o)[c] = Sum(Bytes, Accountable(o, c))

\* Confirmed bytes cover every written request, and beyond them only bytes of
\* requests that a failed write cut short (complete_batch's prefix rule).
ConfirmedWithinWritten ==
    \A o \in Owners :
        /\ snapshot(bytes, Zero, o)["written"] <= snapshot(confirmed, 0, o)
        /\ snapshot(confirmed, 0, o)
              <= snapshot(bytes, Zero, o)["written"] + snapshot(bytes, Zero, o)["loss aborted"]
=============================================================================
