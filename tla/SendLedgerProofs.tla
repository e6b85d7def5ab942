-------------------------- MODULE SendLedgerProofs --------------------------
(***************************************************************************)
(* The totals of SendAccountingLedger are exact, in requests and in bytes, *)
(* for any number of requests, groups and resets.                          *)
(*                                                                         *)
(* RequestsExact and BytesExact are not inductive: an operation updates    *)
(* the totals by what it finds in the store, so the store has to agree     *)
(* with what became of each request, no request may belong to a later      *)
(* epoch, and a group with requests of this epoch must have been cleared   *)
(* for it.                                                                 *)
(***************************************************************************)
EXTENDS SendLedger, SumProofs, FiniteSetTheorems

StoreType ==
    /\ entries \in [Ids -> [live : BOOLEAN, active : BOOLEAN, tag : Tags]]
    /\ next_id \in 0 .. MaxRequests
EpochType ==
    /\ epoch \in 0 .. MaxEpoch
    /\ group_epoch \in [Groups -> 0 .. MaxEpoch]
    /\ \A g \in Groups : group_epoch[g] <= epoch
HistoryType == history \in [Ids -> [is : Endings \cup {"none", "outstanding"}, tag : Tags]]

\* The store holds exactly the outstanding requests, under their own tags.
Agree ==
    \A r \in Ids : /\ entries[r].live <=> history[r].is = "outstanding"
                   /\ entries[r].live => entries[r].tag = history[r].tag

\* Ids not given out have no history.
Unused == \A r \in Ids : r > next_id => history[r].is = "none"

\* A request belongs to this epoch or to an earlier one; if to this one, its
\* group has been cleared for it.
TagsKnown ==
    \A r \in Ids : history[r].is # "none" =>
        /\ history[r].tag.epoch <= epoch
        /\ history[r].tag.epoch = epoch /\ history[r].tag.group \in Groups
              => group_epoch[history[r].tag.group] = epoch

Current(o) == o = All \/ group_epoch[o] = epoch

Exact ==
    \A o \in Owners, c \in Categories :
        Current(o) => /\ requests[o][c] = Cardinality(Accountable(o, c))
                      /\ bytes[o][c] = Sum(Bytes, Accountable(o, c))

Ledger ==
    StoreType /\ EpochType /\ HistoryType /\ Agree /\ Unused /\ TagsKnown /\ Exact

\* What is confirmed lies between what was written and what a loss left unclear.
Confirmed ==
    \A o \in Owners :
        Current(o) => /\ confirmed[o] \in Nat /\ bytes[o]["written"] <= confirmed[o]
                      /\ confirmed[o] <= bytes[o]["written"] + bytes[o]["loss aborted"]

FlyingType == flying \in Seq(Ids)

LInv == Ledger /\ Confirmed /\ FlyingType

-----------------------------------------------------------------------------
\* The names of the categories and of the endings do not clash.
LEMMA Names ==
    /\ "outstanding" \notin Endings /\ "accepted" \notin Endings /\ "none" \notin Endings
    /\ "none" \notin Categories
    /\ \A cause \in Cause : discarded_before_write[cause] \in Endings \ {"rolled back"}
    /\ \A cause \in Cause : aborted_during_write[cause] \in Endings \ {"rolled back"}
<1>1. /\ discarded_before_write["ExplicitStop"] = "stop discarded"
      /\ discarded_before_write["ConnectionLoss"] = "loss discarded"
      /\ discarded_before_write["QueuePressure"] = "pressure discarded"
      /\ discarded_before_write["SessionExpiry"] = "expiry discarded"
  BY DEF discarded_before_write
<1>2. /\ aborted_during_write["ExplicitStop"] = "stop aborted"
      /\ aborted_during_write["ConnectionLoss"] = "loss aborted"
      /\ aborted_during_write["QueuePressure"] = "pressure aborted"
      /\ aborted_during_write["SessionExpiry"] = "expiry aborted"
  BY DEF aborted_during_write
<1> QED
  BY <1>1, <1>2 DEF Endings, Categories, Losses, Cause

\* Every set of requests is finite.
LEMMA FiniteIds == ASSUME NEW S \in SUBSET Ids PROVE IsFiniteSet(S) /\ Cardinality(S) \in Nat
<1>1. IsFiniteSet(Ids)
  BY LedgerAssumption, FS_Interval DEF Ids
<1>2. IsFiniteSet(S)
  BY <1>1, FS_Subset
<1> QED
  BY <1>2, FS_CardinalityType

\* The size of a set that some elements leave and others join.
LEMMA Moved ==
    ASSUME NEW A \in SUBSET Ids, NEW J \in SUBSET Ids, NEW L \in SUBSET A, J \cap A = {}
    PROVE  Cardinality((A \ L) \cup J) = Cardinality(A) + Cardinality(J) - Cardinality(L)
<1>1. /\ IsFiniteSet(A) /\ IsFiniteSet(J) /\ IsFiniteSet(L) /\ IsFiniteSet(A \ L)
      /\ Cardinality(A) \in Nat /\ Cardinality(J) \in Nat /\ Cardinality(L) \in Nat
      /\ Cardinality(A \ L) \in Nat
  BY FiniteIds
<1>2. Cardinality(A \ L) = Cardinality(A) - Cardinality(L)
  <2>1. A \cap L = L
    OBVIOUS
  <2> QED
    BY <1>1, <2>1, FS_Difference
<1>3. Cardinality((A \ L) \cup J) = Cardinality(A \ L) + Cardinality(J) - Cardinality((A \ L) \cap J)
  BY <1>1, FS_Union
<1>4. Cardinality((A \ L) \cap J) = 0
  <2>1. (A \ L) \cap J = {}
    OBVIOUS
  <2> QED
    BY <2>1, FS_EmptySet
<1> QED
  BY <1>1, <1>2, <1>3, <1>4

\* The same for the bytes.
LEMMA SumType ==
    ASSUME NEW S, NEW f, \A r \in S : f[r] \in Nat
    PROVE  /\ [r \in Ids |-> IF r \in S THEN f[r] ELSE 0] \in Seq(Nat)
           /\ Len([r \in Ids |-> IF r \in S THEN f[r] ELSE 0]) = MaxRequests
           /\ Sum(f, S) \in Nat
<1> DEFINE s == [r \in Ids |-> IF r \in S THEN f[r] ELSE 0]
<1>1. s \in Seq(Nat) /\ Len(s) = MaxRequests
  BY LedgerAssumption DEF Ids
<1> HIDE DEF s
<1>2. Total(s) \in Nat
  BY <1>1, TotalType
<1> QED
  BY <1>1, <1>2 DEF s, Sum

\* A sum of two functions, term by term.
LEMMA SumPlus ==
    ASSUME NEW A, NEW f, NEW B, NEW g, NEW C, NEW h,
           \A r \in A : f[r] \in Nat, \A r \in B : g[r] \in Nat, \A r \in C : h[r] \in Nat,
           \A r \in Ids : (IF r \in C THEN h[r] ELSE 0) =
                          (IF r \in A THEN f[r] ELSE 0) + (IF r \in B THEN g[r] ELSE 0)
    PROVE  Sum(h, C) = Sum(f, A) + Sum(g, B)
<1> DEFINE s == [r \in Ids |-> IF r \in A THEN f[r] ELSE 0]
           t == [r \in Ids |-> IF r \in B THEN g[r] ELSE 0]
           u == [r \in Ids |-> IF r \in C THEN h[r] ELSE 0]
<1>1. /\ s \in Seq(Nat) /\ t \in Seq(Nat) /\ u \in Seq(Nat)
      /\ Len(s) = MaxRequests /\ Len(t) = MaxRequests /\ Len(u) = MaxRequests
  BY SumType
<1>2. \A i \in 1 .. MaxRequests : u[i] = s[i] + t[i]
  BY DEF Ids
<1>3. Sum(f, A) = Total(s) /\ Sum(g, B) = Total(t) /\ Sum(h, C) = Total(u)
  BY DEF Sum
<1> HIDE DEF s, t, u
<1>4. /\ Len(t) = Len(s) /\ Len(u) = Len(s)
      /\ \A i \in 1 .. Len(s) : u[i] = s[i] + t[i]
  BY <1>1, <1>2
<1>5. Total(u) = Total(s) + Total(t)
  BY <1>1, <1>4, TotalPlus
<1> QED
  BY <1>3, <1>5

\* The bytes of a set that some elements leave and others join.
LEMMA BytesMoved ==
    ASSUME NEW A \in SUBSET Ids, NEW J \in SUBSET Ids, NEW L \in SUBSET A, J \cap A = {}
    PROVE  /\ Sum(Bytes, (A \ L) \cup J) = Sum(Bytes, A) + Sum(Bytes, J) - Sum(Bytes, L)
           /\ Sum(Bytes, A) \in Nat /\ Sum(Bytes, J) \in Nat /\ Sum(Bytes, L) \in Nat
<1>1. \A r \in Ids : Bytes[r] \in Nat
  BY LedgerAssumption
<1>2. Sum(Bytes, A \cup J) = Sum(Bytes, A) + Sum(Bytes, J)
  <2>1. \A r \in Ids : (IF r \in A \cup J THEN Bytes[r] ELSE 0) =
                       (IF r \in A THEN Bytes[r] ELSE 0) + (IF r \in J THEN Bytes[r] ELSE 0)
    BY <1>1
  <2> QED
    BY <1>1, <2>1, SumPlus
<1>3. Sum(Bytes, A \cup J) = Sum(Bytes, (A \ L) \cup J) + Sum(Bytes, L)
  <2>1. \A r \in Ids : (IF r \in A \cup J THEN Bytes[r] ELSE 0) =
                       (IF r \in (A \ L) \cup J THEN Bytes[r] ELSE 0)
                       + (IF r \in L THEN Bytes[r] ELSE 0)
    BY <1>1
  <2> QED
    BY <1>1, <2>1, SumPlus
<1>4. /\ Sum(Bytes, A) \in Nat /\ Sum(Bytes, J) \in Nat /\ Sum(Bytes, L) \in Nat
      /\ Sum(Bytes, (A \ L) \cup J) \in Nat
  BY <1>1, SumType
<1> DEFINE a == Sum(Bytes, A)
           j == Sum(Bytes, J)
           l == Sum(Bytes, L)
           m == Sum(Bytes, (A \ L) \cup J)
<1>5. a \in Nat /\ j \in Nat /\ l \in Nat /\ m \in Nat /\ a + j = m + l
  BY <1>2, <1>3, <1>4
<1> HIDE DEF a, j, l, m
<1>6. m = a + j - l
  BY ONLY <1>5
<1> QED
  BY <1>5, <1>6 DEF a, j, l, m

\* Of nothing.
LEMMA SumEmpty == ASSUME NEW f PROVE Sum(f, {}) = 0
<1> DEFINE s == [r \in Ids |-> IF r \in {} THEN f[r] ELSE 0]
<1>1. s \in Seq(Nat) /\ \A i \in 1 .. Len(s) : s[i] = 0
  BY LedgerAssumption DEF Ids
<1> HIDE DEF s
<1>2. Total(s) = 0
  BY <1>1, TotalZero
<1> QED
  BY <1>2 DEF s, Sum

\* Of one request more.
LEMMA SumAdd ==
    ASSUME NEW A \in SUBSET Ids, NEW n \in Ids, n \notin A
    PROVE  Sum(Bytes, A \cup {n}) = Sum(Bytes, A) + Bytes[n]
<1> DEFINE s == [r \in Ids |-> IF r \in A \cup {n} THEN Bytes[r] ELSE 0]
           t == [r \in Ids |-> IF r \in A THEN Bytes[r] ELSE 0]
<1>1. \A r \in Ids : Bytes[r] \in Nat
  BY LedgerAssumption
<1>2. s \in Seq(Nat) /\ Len(s) = MaxRequests /\ n \in 1 .. Len(s)
  BY <1>1, SumType DEF Ids
<1>3. [s EXCEPT ![n] = 0] = t /\ s[n] = Bytes[n]
  OBVIOUS
<1>4. Sum(Bytes, A \cup {n}) = Total(s) /\ Sum(Bytes, A) = Total(t)
  BY DEF Sum
<1> HIDE DEF s, t
<1> QED
  BY <1>2, <1>3, <1>4, TotalLess

-----------------------------------------------------------------------------
\* Retiring outstanding requests moves exactly them between the categories.
LEMMA RetireMoves ==
    ASSUME Ledger, NEW S \in SUBSET Ids, S \subseteq Store!Live,
           NEW ending \in [S -> Endings], Retire(S, ending),
           UNCHANGED <<epoch, group_epoch>>, NEW o \in Owners, NEW c \in Categories
    PROVE  LET A == Accountable(o, c)
               J == {r \in Joins(S, ending, c) : CountsFor(entries[r].tag, o)}
               L == {r \in Leaves(S, ending, c) : CountsFor(entries[r].tag, o)}
           IN  /\ A \in SUBSET Ids /\ J \in SUBSET Ids /\ L \in SUBSET A /\ J \cap A = {}
               /\ Accountable(o, c)' = (A \ L) \cup J
<1> DEFINE A == Accountable(o, c)
           J == {r \in Joins(S, ending, c) : CountsFor(entries[r].tag, o)}
           L == {r \in Leaves(S, ending, c) : CountsFor(entries[r].tag, o)}
<1>1. \A r \in S : /\ r \in Ids /\ history[r].is = "outstanding"
                   /\ entries[r].tag = history[r].tag
                   /\ ending[r] \in Endings /\ ending[r] \notin {"none", "outstanding", "accepted"}
  BY Names DEF Ledger, Agree, Store!Live, Store!Ids, Ids
<1>2. \A r \in Ids : /\ history'[r].tag = history[r].tag
                     /\ history'[r].is = IF r \in S THEN ending[r] ELSE history[r].is
  BY DEF Ledger, HistoryType, Retire
<1>3. A \in SUBSET Ids /\ J \in SUBSET Ids /\ L \in SUBSET A /\ J \cap A = {}
  <2>1. A \in SUBSET Ids /\ J \in SUBSET Ids
    BY DEF Accountable, Joins
  <2>2. L \in SUBSET A
    BY <1>1 DEF Accountable, Leaves
  <2>3. J \cap A = {}
    BY <1>1 DEF Accountable, Joins
  <2> QED
    BY <2>1, <2>2, <2>3
<1>4. Accountable(o, c)' = (A \ L) \cup J
  <2>1. \A r \in Ids : CountsFor(history[r].tag, o)' <=> CountsFor(history[r].tag, o)
    BY <1>2 DEF CountsFor
  <2>2. \A r \in Ids \ S : r \in Accountable(o, c)' <=> r \in A
    BY <1>2, <2>1 DEF Accountable
  <2>3. \A r \in Ids \ S : r \notin L /\ r \notin J
    BY DEF Leaves, Joins
  <2>4. \A r \in S : r \in Accountable(o, c)' <=> r \in (A \ L) \cup J
    <3> SUFFICES ASSUME NEW r \in S
                 PROVE  r \in Accountable(o, c)' <=> r \in (A \ L) \cup J
      OBVIOUS
    <3>1. CASE c = "accepted"
      BY <3>1, <1>1, <1>2, <2>1 DEF Accountable, Leaves, Joins
    <3>2. CASE c = "outstanding"
      BY <3>2, <1>1, <1>2, <2>1 DEF Accountable, Leaves, Joins
    <3>3. CASE c \notin {"accepted", "outstanding"}
      BY <3>3, <1>1, <1>2, <2>1 DEF Accountable, Leaves, Joins
    <3> QED
      BY <3>1, <3>2, <3>3
  <2>5. Accountable(o, c)' \subseteq Ids /\ (A \ L) \cup J \subseteq Ids
    BY <1>3 DEF Accountable
  <2> QED
    BY <2>2, <2>3, <2>4, <2>5
<1> QED
  BY <1>3, <1>4

\* So the totals stay exact.
LEMMA RetireKeepsExact ==
    ASSUME Ledger, NEW S \in SUBSET Ids, S \subseteq Store!Live,
           NEW ending \in [S -> Endings], Retire(S, ending),
           UNCHANGED <<epoch, group_epoch>>
    PROVE  Exact'
<1> SUFFICES ASSUME NEW o \in Owners, NEW c \in Categories, Current(o)
             PROVE  /\ requests'[o][c] = Cardinality(Accountable(o, c)')
                    /\ bytes'[o][c] = Sum(Bytes, Accountable(o, c)')
  BY DEF Exact, Current, Sum, Ids
<1> DEFINE A == Accountable(o, c)
           J == {r \in Joins(S, ending, c) : CountsFor(entries[r].tag, o)}
           L == {r \in Leaves(S, ending, c) : CountsFor(entries[r].tag, o)}
<1>1. /\ A \in SUBSET Ids /\ J \in SUBSET Ids /\ L \in SUBSET A /\ J \cap A = {}
      /\ Accountable(o, c)' = (A \ L) \cup J
  BY RetireMoves
<1>2. /\ requests'[o][c] = requests[o][c] + Cardinality(J) - Cardinality(L)
      /\ bytes'[o][c] = bytes[o][c] + Sum(Bytes, J) - Sum(Bytes, L)
  BY DEF Retire, RequestsOf, BytesOf
<1>3. requests[o][c] = Cardinality(A) /\ bytes[o][c] = Sum(Bytes, A)
  BY DEF Ledger, Exact
<1> HIDE DEF A, J, L
<1>4. Cardinality((A \ L) \cup J) = Cardinality(A) + Cardinality(J) - Cardinality(L)
  BY <1>1, Moved
<1>5. Sum(Bytes, (A \ L) \cup J) = Sum(Bytes, A) + Sum(Bytes, J) - Sum(Bytes, L)
  BY <1>1, BytesMoved
<1> QED
  BY <1>1, <1>2, <1>3, <1>4, <1>5

\* Retiring outstanding requests preserves the invariant.
LEMMA RetireKeeps ==
    ASSUME Ledger, NEW S \in SUBSET Ids, S \subseteq Store!Live,
           NEW ending \in [S -> Endings], Retire(S, ending),
           UNCHANGED <<epoch, group_epoch>>
    PROVE  Ledger'
<1>1. \A r \in Ids : /\ entries'[r] = IF r \in S THEN Store!Dead ELSE entries[r]
                     /\ history'[r].tag = history[r].tag
                     /\ history'[r].is = IF r \in S THEN ending[r] ELSE history[r].is
  BY DEF Ledger, HistoryType, Retire, Store!Retire, Store!Ids, Ids
<1>2. \A r \in S : history[r].is = "outstanding" /\ ending[r] \in Endings
                   /\ ending[r] # "outstanding"
  BY Names DEF Ledger, Agree, Store!Live, Store!Ids, Ids
<1>3. StoreType'
  <2>1. NoTag \in Tags
    BY LedgerAssumption DEF NoTag, Tags
  <2>2. Store!Dead \in [live : BOOLEAN, active : BOOLEAN, tag : Tags]
    BY <2>1 DEF Store!Dead
  <2> QED
    BY <2>2 DEF Ledger, StoreType, Retire, Store!Retire, Store!Ids, Ids
<1>4. EpochType'
  BY DEF Ledger, EpochType
<1>5. HistoryType'
  <2>1. history' = [r \in Ids |-> IF r \in S THEN [history[r] EXCEPT !.is = ending[r]] ELSE history[r]]
    BY DEF Retire
  <2> QED
    BY <2>1 DEF Ledger, HistoryType
<1>6. Agree'
  BY <1>1, <1>2 DEF Ledger, Agree, Store!Dead
<1>7. Unused'
  <2>1. next_id' = next_id
    BY DEF Retire, Store!Retire
  <2> QED
    BY <1>1, <1>2, <2>1 DEF Ledger, Unused
<1>8. TagsKnown'
  BY <1>1, <1>2 DEF Ledger, TagsKnown
<1>9. Exact'
  BY RetireKeepsExact
<1> QED
  BY <1>3, <1>4, <1>5, <1>6, <1>7, <1>8, <1>9 DEF Ledger

-----------------------------------------------------------------------------
\* terminate() retires what it is given, each to a loss.
LEMMA TerminateKeeps ==
    ASSUME Ledger, NEW S \in SUBSET Ids, S \subseteq Store!Live, NEW cause \in Cause,
           terminate(S, cause), UNCHANGED <<epoch, group_epoch>>
    PROVE  Ledger'
<1> DEFINE ending == [r \in S |-> IF entries[r].active THEN aborted_during_write[cause]
                                                     ELSE discarded_before_write[cause]]
<1>1. ending \in [S -> Endings]
  BY Names
<1>2. Retire(S, ending)
  BY DEF terminate
<1> HIDE DEF ending
<1> QED
  BY <1>1, <1>2, RetireKeeps

\* An admission adds one accepted and outstanding request, for the ledger and
\* for its group; a group of an older epoch starts from nothing.
LEMMA AdmitKeepsExact ==
    ASSUME Ledger, NEW g \in Groups \cup {NoGroup}, admit(g)
    PROVE  Exact'
<1> DEFINE n == next_id + 1
<1>1. n \in Ids /\ history[n].is = "none" /\ epoch' = epoch
  BY LedgerAssumption DEF Ledger, StoreType, Unused, admit, Store!Admit, Ids
<1>2. /\ history'[n].is = "outstanding"
      /\ history'[n].tag.epoch = epoch /\ history'[n].tag.group = g
      /\ \A r \in Ids \ {n} : history'[r] = history[r]
  BY <1>1 DEF Ledger, HistoryType, admit
<1> SUFFICES ASSUME NEW o \in Owners, NEW c \in Categories, Current(o)'
             PROVE  /\ requests'[o][c] = Cardinality(Accountable(o, c)')
                    /\ bytes'[o][c] = Sum(Bytes, Accountable(o, c)')
  BY DEF Exact, Sum, Ids
<1> DEFINE A == Accountable(o, c)
           Added == o \in {All, g} /\ c \in {"accepted", "outstanding"}
           was == CurrentTotals(requests, Zero, o, g)[c]
           weighed == CurrentTotals(bytes, Zero, o, g)[c]
<1>3. A \subseteq Ids /\ n \notin A
  BY <1>1, Names DEF Accountable
<1>4. Accountable(o, c)' = IF Added THEN A \cup {n} ELSE A
  <2>1. \A r \in Ids \ {n} : r \in Accountable(o, c)' <=> r \in A
    BY <1>1, <1>2 DEF Accountable, CountsFor
  <2>2. n \in Accountable(o, c)' <=> Added
    BY <1>1, <1>2 DEF Accountable, CountsFor
  <2>3. Accountable(o, c)' \subseteq Ids
    BY DEF Accountable
  <2> QED
    BY <1>1, <1>3, <2>1, <2>2, <2>3
<1>5. /\ requests'[o][c] = was + IF Added THEN 1 ELSE 0
      /\ bytes'[o][c] = weighed + IF Added THEN Bytes[n] ELSE 0
  BY DEF admit
<1>6. was = Cardinality(A) /\ weighed = Sum(Bytes, A)
  <2>1. CASE o = g /\ group_epoch[g] # epoch
    <3>1. A = {}
      <4>1. g \in Groups /\ o # All
        BY <2>1, LedgerAssumption DEF Owners
      <4>2. \A r \in A : /\ r \in Ids /\ history[r].is # "none"
                         /\ history[r].tag.epoch = epoch /\ history[r].tag.group = g
        BY <2>1, <4>1, Names DEF Accountable, CountsFor
      <4> QED
        BY <2>1, <4>1, <4>2 DEF Ledger, TagsKnown
    <3>2. was = 0 /\ weighed = 0
      BY <2>1 DEF CurrentTotals, Zero
    <3> QED
      BY <3>1, <3>2, FS_EmptySet, SumEmpty
  <2>2. CASE ~(o = g /\ group_epoch[g] # epoch)
    <3>1. Current(o)
      BY <1>1, <2>2, LedgerAssumption DEF Current, Owners, admit
    <3>2. was = requests[o][c] /\ weighed = bytes[o][c]
      BY <2>2 DEF CurrentTotals
    <3> QED
      BY <3>1, <3>2 DEF Ledger, Exact
  <2> QED
    BY <2>1, <2>2
<1>7. IsFiniteSet(A) /\ Cardinality(A) \in Nat
  BY <1>3, FiniteIds
<1>8. Cardinality(A \cup {n}) = Cardinality(A) + 1
  BY <1>3, <1>7, FS_AddElement
<1>9. Sum(Bytes, A \cup {n}) = Sum(Bytes, A) + Bytes[n]
  BY <1>1, <1>3, SumAdd
<1> HIDE DEF A, was, weighed, Added, n
<1>10. CASE Added
  BY <1>4, <1>5, <1>6, <1>8, <1>9, <1>10
<1>11. CASE ~Added
  <2>1. Sum(Bytes, A) \in Nat
    BY <1>3, SumType, LedgerAssumption
  <2> QED
    BY <1>4, <1>5, <1>6, <1>7, <1>11, <2>1
<1> QED
  BY <1>10, <1>11

\* An admission preserves the invariant.
LEMMA AdmitKeeps ==
    ASSUME Ledger, NEW g \in Groups \cup {NoGroup}, admit(g)
    PROVE  Ledger'
<1> DEFINE n == next_id + 1
           tag == [epoch |-> epoch, group |-> g]
<1>1. n \in Ids /\ next_id' = n /\ epoch' = epoch /\ tag \in Tags
  BY LedgerAssumption DEF Ledger, StoreType, EpochType, admit, Store!Admit, Ids, Tags
<1>2. /\ entries' = [entries EXCEPT ![n] = Store!Fresh(tag)]
      /\ history' = [history EXCEPT ![n] = [is |-> "outstanding", tag |-> tag]]
      /\ group_epoch' = [h \in Groups |-> IF h = g THEN epoch ELSE group_epoch[h]]
  BY DEF admit, Store!Admit
<1>3. StoreType'
  <2>1. Store!Fresh(tag) \in [live : BOOLEAN, active : BOOLEAN, tag : Tags]
    BY <1>1 DEF Store!Fresh
  <2> QED
    BY <1>1, <1>2, <2>1 DEF Ledger, StoreType, Ids
<1>4. EpochType'
  BY <1>1, <1>2 DEF Ledger, EpochType
<1>5. HistoryType'
  BY <1>1, <1>2 DEF Ledger, HistoryType
<1>6. /\ entries'[n].live /\ entries'[n].tag = tag
      /\ history'[n].is = "outstanding" /\ history'[n].tag = tag
      /\ \A r \in Ids \ {n} : entries'[r] = entries[r] /\ history'[r] = history[r]
  BY <1>1, <1>2 DEF Ledger, StoreType, HistoryType, Store!Fresh
<1>7. Agree'
  BY <1>6 DEF Ledger, Agree
<1>8. Unused'
  BY <1>1, <1>6 DEF Ledger, Unused, StoreType, Ids
<1>9. TagsKnown'
  <2>1. /\ tag.epoch = epoch /\ tag.group = g
        /\ \A h \in Groups : group_epoch'[h] = IF h = g THEN epoch ELSE group_epoch[h]
    BY <1>2
  <2> SUFFICES ASSUME NEW r \in Ids, history'[r].is # "none"
               PROVE  /\ history'[r].tag.epoch <= epoch
                      /\ history'[r].tag.epoch = epoch /\ history'[r].tag.group \in Groups
                            => group_epoch'[history'[r].tag.group] = epoch
    BY <1>1 DEF TagsKnown
  <2> HIDE DEF tag
  <2>2. CASE r = n
    BY <1>6, <2>1, <2>2 DEF Ledger, EpochType
  <2>3. CASE r # n
    BY <1>6, <2>1, <2>3 DEF Ledger, TagsKnown
  <2> QED
    BY <2>2, <2>3
<1>10. Exact'
  BY AdmitKeepsExact
<1> QED
  BY <1>3, <1>4, <1>5, <1>7, <1>8, <1>9, <1>10 DEF Ledger

\* A reset starts every owner from nothing: no request is of the new epoch, and
\* no group has been used in it.
LEMMA ResetKeeps ==
    ASSUME Ledger, reset
    PROVE  Ledger'
<1>1. /\ epoch' = epoch + 1 /\ epoch' \in 0 .. MaxEpoch
      /\ UNCHANGED <<entries, next_id, group_epoch, history>>
  BY LedgerAssumption DEF Ledger, EpochType, reset
<1>2. \A g \in Groups : group_epoch'[g] <= epoch
  BY <1>1 DEF Ledger, EpochType
<1>3. EpochType'
  BY <1>1, <1>2 DEF Ledger, EpochType
<1>4. \A r \in Ids : history'[r].is # "none" =>
          history'[r].tag.epoch \in Nat /\ history'[r].tag.epoch <= epoch
  BY <1>1 DEF Ledger, TagsKnown, HistoryType, Tags
<1>5. TagsKnown'
  BY <1>1, <1>4 DEF Ledger, EpochType, TagsKnown
<1>6. Exact'
  <2> SUFFICES ASSUME NEW o \in Owners, NEW c \in Categories, Current(o)'
               PROVE  /\ requests'[o][c] = Cardinality(Accountable(o, c)')
                      /\ bytes'[o][c] = Sum(Bytes, Accountable(o, c)')
    BY DEF Exact, Sum, Ids
  <2>1. o = All
    BY <1>1, <1>2 DEF Current, Owners, Ledger, EpochType
  <2>2. Accountable(o, c)' = {}
    <3>1. epoch \in Nat
      BY DEF Ledger, EpochType
    <3>2. \A r \in Ids : history'[r].is # "none" => history'[r].tag.epoch # epoch'
      BY <1>1, <1>4, <3>1
    <3>3. \A r \in Accountable(o, c)' : /\ r \in Ids /\ history'[r].is # "none"
                                        /\ history'[r].tag.epoch = epoch'
      BY Names DEF Accountable, CountsFor
    <3> QED
      BY <3>2, <3>3
  <2>3. requests'[o][c] = 0 /\ bytes'[o][c] = 0
    BY <2>1 DEF reset, Cleared, Zero
  <2> QED
    BY <2>2, <2>3, FS_EmptySet, SumEmpty
<1> QED
  BY <1>1, <1>3, <1>5, <1>6 DEF Ledger, StoreType, HistoryType, Agree, Unused

\* Exactness is about the totals, the epochs and the history only.
LEMMA ExactKept ==
    ASSUME Exact, UNCHANGED <<epoch, group_epoch, requests, bytes, history>>
    PROVE  Exact'
<1>1. SUFFICES ASSUME NEW o \in Owners, NEW c \in Categories, Current(o)'
               PROVE  /\ requests'[o][c] = Cardinality(Accountable(o, c)')
                      /\ bytes'[o][c] = Sum(Bytes, Accountable(o, c)')
  BY DEF Exact, Sum, Ids
<1>2. /\ epoch' = epoch /\ group_epoch' = group_epoch /\ requests' = requests
      /\ bytes' = bytes /\ history' = history
  OBVIOUS
<1>3. Accountable(o, c)' = Accountable(o, c)
  BY <1>2 DEF Accountable, CountsFor
<1>4. Current(o)
  BY <1>1, <1>2 DEF Current
<1>5. /\ requests[o][c] = Cardinality(Accountable(o, c))
      /\ bytes[o][c] = Sum(Bytes, Accountable(o, c))
  BY <1>4 DEF Exact
<1> QED
  BY <1>2, <1>3, <1>5

\* A batch that begins is only marked.
LEMMA BeginKeeps ==
    ASSUME Ledger, NEW batch, begin_batch(batch)
    PROVE  Ledger'
<1>1. UNCHANGED <<next_id, epoch, group_epoch, requests, bytes, history>>
  BY DEF begin_batch, Store!Activate, totals
<1>2. \/ UNCHANGED entries
      \/ entries' = [r \in Ids |-> IF r \in Members(batch) THEN [entries[r] EXCEPT !.active = TRUE]
                                                           ELSE entries[r]]
  BY DEF begin_batch, Store!Activate, Store!Ids, Ids
<1>3. StoreType'
  BY <1>1, <1>2 DEF Ledger, StoreType
<1>4. \A r \in Ids : entries'[r].live = entries[r].live /\ entries'[r].tag = entries[r].tag
  BY <1>2 DEF Ledger, StoreType
<1>5. Agree'
  BY <1>1, <1>4 DEF Ledger, Agree
<1>6. Exact'
  BY <1>1, ExactKept DEF Ledger
<1> QED
  BY <1>1, <1>3, <1>5, <1>6 DEF Ledger, EpochType, HistoryType, Unused, TagsKnown

\* Nothing the invariant speaks of changes.
LEMMA StutterKeeps ==
    ASSUME Ledger, UNCHANGED <<entries, next_id, epoch, group_epoch, requests, bytes, history>>
    PROVE  Ledger'
<1>1. StoreType' /\ EpochType' /\ HistoryType'
  BY DEF Ledger, StoreType, EpochType, HistoryType
<1>2. Agree' /\ Unused' /\ TagsKnown'
  BY DEF Ledger, Agree, Unused, TagsKnown
<1>3. Exact'
  BY ExactKept DEF Ledger
<1> QED
  BY <1>1, <1>2, <1>3 DEF Ledger

\* A completed batch retires what it finds of it.
LEMMA CompleteKeeps ==
    ASSUME Ledger, NEW written, complete_batch(written)
    PROVE  Ledger'
<1> DEFINE found == {i \in DOMAIN flying : flying[i] \in Store!Live}
           place(r) == CHOOSE i \in found : flying[i] = r
           S == {flying[i] : i \in found}
           ending == [r \in S |-> IF Covered(written, place(r)) = Bytes[r]
                                  THEN "written" ELSE aborted_during_write["ConnectionLoss"]]
<1>1. S \subseteq Store!Live /\ S \in SUBSET Ids
  BY DEF Store!Live, Store!Ids, Ids
<1>2. ending \in [S -> Endings]
  BY Names DEF Endings, Cause
<1>3. Retire(S, ending) /\ UNCHANGED <<epoch, group_epoch>>
  BY DEF complete_batch
<1> HIDE DEF S, ending
<1> QED
  BY <1>1, <1>2, <1>3, RetireKeeps

\* The first state satisfies the invariant.
LEMMA InitLedger == Init => Ledger
<1> SUFFICES ASSUME Init PROVE Ledger
  OBVIOUS
<1>1. /\ entries = [r \in Ids |-> Store!Dead] /\ next_id = 0
      /\ epoch = 0 /\ group_epoch = [g \in Groups |-> 0]
      /\ requests = [o \in Owners |-> Zero] /\ bytes = [o \in Owners |-> Zero]
      /\ history = [r \in Ids |-> [is |-> "none", tag |-> NoTag]]
  BY DEF Init, Store!Init, Store!Ids, Ids
<1>2. NoTag \in Tags
  BY LedgerAssumption DEF NoTag, Tags
<1>3. StoreType
  <2>1. Store!Dead \in [live : BOOLEAN, active : BOOLEAN, tag : Tags]
    BY <1>2 DEF Store!Dead
  <2> QED
    BY <1>1, <2>1, LedgerAssumption DEF StoreType
<1>4. EpochType
  BY <1>1, LedgerAssumption DEF EpochType
<1>5. HistoryType /\ Unused /\ TagsKnown
  BY <1>1, <1>2 DEF HistoryType, Unused, TagsKnown
<1>6. Agree
  BY <1>1 DEF Agree, Store!Dead
<1>7. Exact
  <2>1. \A o \in Owners, c \in Categories : Accountable(o, c) = {}
    BY <1>1, Names DEF Accountable
  <2>2. \A o \in Owners, c \in Categories : requests[o][c] = 0 /\ bytes[o][c] = 0
    BY <1>1 DEF Zero
  <2>3. Sum(Bytes, {}) = 0
    BY SumEmpty
  <2> QED
    BY <2>1, <2>2, <2>3, FS_EmptySet DEF Exact
<1> QED
  BY <1>3, <1>4, <1>5, <1>6, <1>7 DEF Ledger

\* Every operation preserves the invariant.
LEMMA NextLedger == Ledger /\ [Next]_vars => Ledger'
<1> SUFFICES ASSUME Ledger, [Next]_vars PROVE Ledger'
  OBVIOUS
<1>1. CASE \E g \in Groups \cup {NoGroup} : admit(g)
  BY <1>1, AdmitKeeps
<1>2. CASE commit
  BY <1>2, StutterKeeps DEF commit, totals
<1>3. CASE rollback
  <2>1. CASE next_id \in Store!Live
    <3> DEFINE ending == [r \in {next_id} |-> "rolled back"]
    <3>1. ending \in [{next_id} -> Endings] /\ {next_id} \in SUBSET Ids
      BY <2>1 DEF Endings, Store!Live, Store!Ids, Ids
    <3>2. Retire({next_id}, ending) /\ UNCHANGED <<epoch, group_epoch>>
      BY <1>3, <2>1 DEF rollback
    <3> HIDE DEF ending
    <3> QED
      BY <2>1, <3>1, <3>2, RetireKeeps
  <2>2. CASE next_id \notin Store!Live
    BY <1>3, <2>2, StutterKeeps DEF rollback
  <2> QED
    BY <2>1, <2>2
<1>4. CASE \E batch \in Batches : begin_batch(batch)
  BY <1>4, BeginKeeps
<1>5. CASE \E written \in 0 .. Before(Len(flying) + 1) : complete_batch(written)
  BY <1>5, CompleteKeeps
<1>6. CASE \E r \in Named, cause \in DiscardCauses : discard(r, cause)
  <2>1. PICK r \in Named, cause \in DiscardCauses : discard(r, cause)
    BY <1>6
  <2>2. cause \in Cause /\ {r} \cap Store!Live \in SUBSET Ids
    BY LedgerAssumption DEF Store!Live, Store!Ids, Ids
  <2> QED
    BY <2>1, <2>2, TerminateKeeps DEF discard
<1>7. CASE \E g \in Groups : discard_waiting(g, "SessionExpiry")
  <2>1. PICK g \in Groups : discard_waiting(g, "SessionExpiry")
    BY <1>7
  <2> DEFINE S == {r \in Store!Live : entries[r].tag.group = g /\ ~entries[r].active}
  <2>2. S \in SUBSET Ids /\ S \subseteq Store!Live /\ "SessionExpiry" \in Cause
    BY DEF Store!Live, Store!Ids, Ids, Cause
  <2>3. terminate(S, "SessionExpiry") /\ UNCHANGED <<epoch, group_epoch>>
    BY <2>1 DEF discard_waiting
  <2> HIDE DEF S
  <2> QED
    BY <2>2, <2>3, TerminateKeeps
<1>8. CASE \E cause \in EndCauses : end(cause)
  <2>1. PICK cause \in EndCauses : end(cause)
    BY <1>8
  <2>2. cause \in Cause /\ Store!Live \in SUBSET Ids
    BY LedgerAssumption DEF Store!Live, Store!Ids, Ids
  <2> QED
    BY <2>1, <2>2, TerminateKeeps DEF end
<1>9. CASE reset
  BY <1>9, ResetKeeps
<1>10. CASE UNCHANGED vars
  BY <1>10, StutterKeeps DEF vars, totals
<1> QED
  BY <1>1, <1>2, <1>3, <1>4, <1>5, <1>6, <1>7, <1>8, <1>9, <1>10 DEF Next

-----------------------------------------------------------------------------
(* Confirmed bytes.                                                          *)

\* Sums grow with their terms.
LEMMA SumLeq ==
    ASSUME NEW A, NEW f, NEW B, NEW g,
           \A r \in A : f[r] \in Nat, \A r \in B : g[r] \in Nat,
           \A r \in Ids : (IF r \in A THEN f[r] ELSE 0) <= (IF r \in B THEN g[r] ELSE 0)
    PROVE  Sum(f, A) <= Sum(g, B)
<1> DEFINE d == [r \in Ids |-> (IF r \in B THEN g[r] ELSE 0) - (IF r \in A THEN f[r] ELSE 0)]
<1>1. \A r \in Ids : /\ (IF r \in A THEN f[r] ELSE 0) \in Nat
                     /\ (IF r \in B THEN g[r] ELSE 0) \in Nat
  OBVIOUS
<1>2. \A r \in Ids : d[r] \in Nat
  BY <1>1
<1>3. \A r \in Ids : (IF r \in B THEN g[r] ELSE 0) =
                     (IF r \in A THEN f[r] ELSE 0) + (IF r \in Ids THEN d[r] ELSE 0)
  BY <1>1
<1> HIDE DEF d
<1>4. Sum(g, B) = Sum(f, A) + Sum(d, Ids)
  BY <1>2, <1>3, SumPlus
<1>5. Sum(g, B) \in Nat /\ Sum(f, A) \in Nat /\ Sum(d, Ids) \in Nat
  BY <1>2, SumType
<1> QED
  BY <1>4, <1>5

\* The two categories that confirmed bytes are compared with.
LEMMA Confirming ==
    /\ "written" \in Categories /\ "loss aborted" \in Categories
    /\ Zero["written"] = 0 /\ Zero["loss aborted"] = 0
<1>1. aborted_during_write["ConnectionLoss"] = "loss aborted"
  BY DEF aborted_during_write
<1>2. "written" \in Categories /\ "loss aborted" \in Categories
  BY <1>1 DEF Categories, Losses, Cause
<1> QED
  BY <1>2 DEF Zero

\* Those of the requests of S that count for o and end as c.
Ending(S, ending, c, o) == {r \in Joins(S, ending, c) : CountsFor(entries[r].tag, o)}

\* The totals are numbers.
LEMMA BytesType ==
    ASSUME Ledger, NEW o \in Owners, NEW c \in Categories, Current(o)
    PROVE  bytes[o][c] \in Nat
<1>1. bytes[o][c] = Sum(Bytes, Accountable(o, c))
  BY DEF Ledger, Exact
<1>2. Accountable(o, c) \subseteq Ids
  BY DEF Accountable
<1> QED
  BY <1>1, <1>2, SumType, LedgerAssumption

\* Nothing confirmed is within the bounds of nothing written.
LEMMA Nothing ==
    ASSUME NEW a, NEW b, NEW d, a = 0, b = 0, d = 0
    PROVE  a \in Nat /\ b <= a /\ a <= b + d
OBVIOUS

\* Retiring requests keeps the confirmed bytes in their bounds, when it confirms all
\* bytes of those that are written, and some of those that a loss cuts short.
LEMMA RetireConfirms ==
    ASSUME LInv, NEW S \in SUBSET Ids, NEW ending \in [S -> Endings], Retire(S, ending),
           UNCHANGED <<epoch, group_epoch>>, NEW o \in Owners, Current(o), NEW x \in Nat,
           confirmed'[o] = confirmed[o] + x,
           Sum(Bytes, Ending(S, ending, "written", o)) <= x,
           x <= Sum(Bytes, Ending(S, ending, "written", o))
                + Sum(Bytes, Ending(S, ending, "loss aborted", o))
    PROVE  /\ confirmed'[o] \in Nat /\ bytes'[o]["written"] <= confirmed'[o]
           /\ confirmed'[o] <= bytes'[o]["written"] + bytes'[o]["loss aborted"]
<1> DEFINE W == Sum(Bytes, Ending(S, ending, "written", o))
           L == Sum(Bytes, Ending(S, ending, "loss aborted", o))
           w == bytes[o]["written"]
           l == bytes[o]["loss aborted"]
           w2 == bytes'[o]["written"]
           l2 == bytes'[o]["loss aborted"]
           c1 == confirmed[o]
           c2 == confirmed'[o]
<1>1. /\ "written" \in Categories /\ "loss aborted" \in Categories
      /\ Zero["written"] = 0 /\ Zero["loss aborted"] = 0
  BY Confirming
<1>2. \A c \in {"written", "loss aborted"} :
          bytes'[o][c] = bytes[o][c] + Sum(Bytes, Ending(S, ending, c, o)) - Sum(Bytes, {})
  <2>1. \A c \in {"written", "loss aborted"} :
            {r \in Leaves(S, ending, c) : CountsFor(entries[r].tag, o)} = {}
    BY DEF Leaves
  <2> QED
    BY <1>1, <2>1 DEF Retire, BytesOf, Ending
<1>3. W \in Nat /\ L \in Nat /\ Sum(Bytes, {}) = 0
  BY SumType, SumEmpty, LedgerAssumption DEF Ending, Joins
<1>4. w \in Nat /\ l \in Nat
  BY <1>1, BytesType DEF LInv
<1>5. w2 = w + W - 0 /\ l2 = l + L - 0
  BY <1>2, <1>3
<1>6. c1 \in Nat /\ w <= c1 /\ c1 <= w + l /\ c2 = c1 + x
  BY DEF LInv, Confirmed
<1>7. W <= x /\ x <= W + L /\ x \in Nat
  OBVIOUS
<1> HIDE DEF W, L, w, l, w2, l2, c1, c2
<1>8. W \in Nat /\ L \in Nat
  BY <1>3
<1>9. c2 \in Nat /\ w2 <= c2 /\ c2 <= w2 + l2
  BY ONLY <1>4, <1>5, <1>6, <1>7, <1>8
<1> QED
  BY <1>9 DEF w2, l2, c2

\* Retiring requests that nothing is confirmed of.
LEMMA LosesConfirm ==
    ASSUME LInv, NEW S \in SUBSET Ids, NEW ending \in [S -> Endings], Retire(S, ending),
           UNCHANGED <<epoch, group_epoch, confirmed>>, \A r \in S : ending[r] # "written"
    PROVE  Confirmed'
<1> SUFFICES ASSUME NEW o \in Owners, Current(o)
             PROVE  /\ confirmed'[o] \in Nat /\ bytes'[o]["written"] <= confirmed'[o]
                    /\ confirmed'[o] <= bytes'[o]["written"] + bytes'[o]["loss aborted"]
  BY DEF Confirmed, Current
<1>1. Ending(S, ending, "written", o) = {}
  BY DEF Ending, Joins
<1>2. Sum(Bytes, Ending(S, ending, "written", o)) = 0
  BY <1>1, SumEmpty
<1>3. Sum(Bytes, Ending(S, ending, "loss aborted", o)) \in Nat
  BY SumType, LedgerAssumption DEF Ending, Joins
<1>4. confirmed[o] \in Nat
  BY DEF LInv, Confirmed
<1>5. confirmed'[o] = confirmed[o] + 0
  BY <1>4
<1>6. /\ Sum(Bytes, Ending(S, ending, "written", o)) <= 0
      /\ 0 <= Sum(Bytes, Ending(S, ending, "written", o))
              + Sum(Bytes, Ending(S, ending, "loss aborted", o))
  <2> DEFINE W == Sum(Bytes, Ending(S, ending, "written", o))
             L == Sum(Bytes, Ending(S, ending, "loss aborted", o))
  <2>1. W = 0 /\ L \in Nat
    BY <1>2, <1>3
  <2> HIDE DEF W, L
  <2>2. W <= 0 /\ 0 <= W + L
    BY ONLY <2>1
  <2> QED
    BY <2>2 DEF W, L
<1> QED
  BY <1>5, <1>6, RetireConfirms

\* A loss is not a write.
LEMMA NotWritten ==
    ASSUME NEW cause \in Cause
    PROVE  aborted_during_write[cause] # "written" /\ discarded_before_write[cause] # "written"
<1>1. /\ discarded_before_write["ExplicitStop"] = "stop discarded"
      /\ discarded_before_write["ConnectionLoss"] = "loss discarded"
      /\ discarded_before_write["QueuePressure"] = "pressure discarded"
      /\ discarded_before_write["SessionExpiry"] = "expiry discarded"
  BY DEF discarded_before_write
<1>2. /\ aborted_during_write["ExplicitStop"] = "stop aborted"
      /\ aborted_during_write["ConnectionLoss"] = "loss aborted"
      /\ aborted_during_write["QueuePressure"] = "pressure aborted"
      /\ aborted_during_write["SessionExpiry"] = "expiry aborted"
  BY DEF aborted_during_write
<1> QED
  BY <1>1, <1>2 DEF Cause

\* terminate() confirms nothing.
LEMMA TerminateConfirms ==
    ASSUME LInv, NEW S \in SUBSET Ids, NEW cause \in Cause, terminate(S, cause),
           UNCHANGED <<epoch, group_epoch>>
    PROVE  Confirmed'
<1> DEFINE ending == [r \in S |-> IF entries[r].active THEN aborted_during_write[cause]
                                                     ELSE discarded_before_write[cause]]
<1>1. ending \in [S -> Endings]
  BY Names
<1>2. \A r \in S : ending[r] # "written"
  BY NotWritten
<1>3. Retire(S, ending) /\ UNCHANGED confirmed
  BY DEF terminate
<1> HIDE DEF ending
<1> QED
  BY <1>1, <1>2, <1>3, LosesConfirm

\* A written prefix covers each request of the batch from its start, up to all of it.
LEMMA CoveredType ==
    ASSUME FlyingType, NEW written \in Nat, NEW i \in DOMAIN flying
    PROVE  /\ flying[i] \in Ids /\ Bytes[flying[i]] \in Nat
           /\ Covered(written, i) \in 0 .. Bytes[flying[i]]
<1>1. flying \in Seq(Ids) /\ i \in 1 .. Len(flying) /\ flying[i] \in Ids
  BY DEF FlyingType
<1>2. \A r \in Ids : Bytes[r] \in Nat
  BY LedgerAssumption
<1> DEFINE s == [j \in 1 .. (i - 1) |-> Bytes[flying[j]]]
<1>3. s \in Seq(Nat)
  BY <1>1, <1>2
<1>4. Before(i) = Total(s)
  BY DEF Before
<1> HIDE DEF s
<1>5. Before(i) \in Nat
  BY <1>3, <1>4, TotalType
<1> QED
  BY <1>1, <1>2, <1>5 DEF Covered

\* complete_batch confirms the prefix that was written: every byte of the requests it
\* records as written, and of the one that was cut short what was sent of it.
LEMMA CompleteConfirms ==
    ASSUME LInv, NEW written \in Nat, complete_batch(written)
    PROVE  Confirmed'
<1> DEFINE found == {i \in DOMAIN flying : flying[i] \in Store!Live}
           place(r) == CHOOSE i \in found : flying[i] = r
           S == {flying[i] : i \in found}
           cov == [r \in S |-> Covered(written, place(r))]
           ending == [r \in S |-> IF Covered(written, place(r)) = Bytes[r]
                                  THEN "written" ELSE aborted_during_write["ConnectionLoss"]]
<1>1. S \in SUBSET Ids
  BY DEF Store!Live, Store!Ids, Ids
<1>2. ending \in [S -> Endings]
  BY Names DEF Endings, Cause
<1>3. Retire(S, ending) /\ UNCHANGED <<epoch, group_epoch>>
  BY DEF complete_batch
<1>4. \A o \in Owners : confirmed'[o] = confirmed[o] + Sum(cov, {r \in S : CountsFor(entries[r].tag, o)})
  BY DEF complete_batch
<1>5. \A r \in S : place(r) \in DOMAIN flying /\ flying[place(r)] = r
  OBVIOUS
<1>6. aborted_during_write["ConnectionLoss"] = "loss aborted"
  BY DEF aborted_during_write
<1>7. \A r \in S : /\ Bytes[r] \in Nat /\ cov[r] \in 0 .. Bytes[r]
                   /\ ending[r] = IF cov[r] = Bytes[r] THEN "written" ELSE "loss aborted"
  <2> SUFFICES ASSUME NEW r \in S
               PROVE  /\ Bytes[r] \in Nat /\ Covered(written, place(r)) \in 0 .. Bytes[r]
                      /\ ending[r] = IF cov[r] = Bytes[r] THEN "written" ELSE "loss aborted"
    OBVIOUS
  <2>1. ending[r] = IF cov[r] = Bytes[r] THEN "written" ELSE "loss aborted"
    BY <1>6
  <2>2. place(r) \in DOMAIN flying /\ flying[place(r)] = r
    BY <1>5
  <2> HIDE DEF place, S
  <2> QED
    BY <2>1, <2>2, CoveredType DEF LInv
<1> HIDE DEF S, cov, ending
<1> SUFFICES ASSUME NEW o \in Owners, Current(o)
             PROVE  /\ confirmed'[o] \in Nat /\ bytes'[o]["written"] <= confirmed'[o]
                    /\ confirmed'[o] <= bytes'[o]["written"] + bytes'[o]["loss aborted"]
  BY <1>3 DEF Confirmed, Current
<1> DEFINE X == {r \in S : CountsFor(entries[r].tag, o)}
           W == Ending(S, ending, "written", o)
           L == Ending(S, ending, "loss aborted", o)
<1>8. /\ W = {r \in X : cov[r] = Bytes[r]} /\ L = {r \in X : cov[r] # Bytes[r]}
      /\ X \subseteq S
  BY <1>7 DEF Ending, Joins
<1>9. confirmed'[o] = confirmed[o] + Sum(cov, X)
  BY <1>4
<1> HIDE DEF X, W, L
<1>10. ASSUME NEW r \in X
       PROVE  r \in Ids /\ Bytes[r] \in Nat /\ cov[r] \in Nat /\ cov[r] <= Bytes[r]
  <2>1. r \in S
    BY <1>8
  <2>2. Bytes[r] \in Nat /\ cov[r] \in 0 .. Bytes[r] /\ r \in Ids
    BY <1>1, <1>7, <2>1
  <2> QED
    BY <2>2
<1>11. Sum(cov, X) \in Nat /\ Sum(Bytes, W) \in Nat /\ Sum(Bytes, L) \in Nat
  BY <1>8, <1>10, SumType
<1>12. Sum(Bytes, W) <= Sum(cov, X)
  <2>1. \A r \in Ids : (IF r \in W THEN Bytes[r] ELSE 0) <= (IF r \in X THEN cov[r] ELSE 0)
    BY <1>8, <1>10
  <2>2. (\A r \in W : Bytes[r] \in Nat) /\ (\A r \in X : cov[r] \in Nat)
    BY <1>8, <1>10
  <2> QED
    BY <2>1, <2>2, SumLeq
<1>13. Sum(cov, X) <= Sum(Bytes, X)
  <2>1. \A r \in Ids : (IF r \in X THEN cov[r] ELSE 0) <= (IF r \in X THEN Bytes[r] ELSE 0)
    BY <1>10
  <2>2. (\A r \in X : Bytes[r] \in Nat) /\ (\A r \in X : cov[r] \in Nat)
    BY <1>10
  <2> QED
    BY <2>1, <2>2, SumLeq
<1>14. Sum(Bytes, X) = Sum(Bytes, W) + Sum(Bytes, L)
  <2>1. \A r \in Ids : (IF r \in X THEN Bytes[r] ELSE 0) =
                       (IF r \in W THEN Bytes[r] ELSE 0) + (IF r \in L THEN Bytes[r] ELSE 0)
    BY <1>8, <1>10
  <2>2. /\ \A r \in X : Bytes[r] \in Nat
        /\ \A r \in W : Bytes[r] \in Nat
        /\ \A r \in L : Bytes[r] \in Nat
    BY <1>8, <1>10
  <2> QED
    BY <2>1, <2>2, SumPlus
<1>15. Sum(cov, X) <= Sum(Bytes, W) + Sum(Bytes, L)
  BY <1>13, <1>14
<1> QED
  BY <1>1, <1>2, <1>3, <1>9, <1>11, <1>12, <1>15, RetireConfirms DEF W, L

\* An admission and a reset keep the bounds: an owner that starts from nothing has
\* nothing confirmed.
LEMMA OthersConfirm ==
    ASSUME LInv, (\E g \in Groups \cup {NoGroup} : admit(g)) \/ reset
    PROVE  Confirmed'
<1> SUFFICES ASSUME NEW o \in Owners, Current(o)'
             PROVE  /\ confirmed'[o] \in Nat /\ bytes'[o]["written"] <= confirmed'[o]
                    /\ confirmed'[o] <= bytes'[o]["written"] + bytes'[o]["loss aborted"]
  BY DEF Confirmed
<1>1. /\ "written" \in Categories /\ "loss aborted" \in Categories
      /\ Zero["written"] = 0 /\ Zero["loss aborted"] = 0
  BY Confirming
<1>2. Current(o) => bytes[o]["written"] \in Nat /\ bytes[o]["loss aborted"] \in Nat
  BY <1>1, BytesType DEF LInv
<1> DEFINE w == bytes[o]["written"]
           l == bytes[o]["loss aborted"]
           w2 == bytes'[o]["written"]
           l2 == bytes'[o]["loss aborted"]
           c2 == confirmed'[o]
<1>5. c2 = 0 /\ w2 = 0 /\ l2 = 0 => c2 \in Nat /\ w2 <= c2 /\ c2 <= w2 + l2
  BY Nothing
<1>3. ASSUME NEW g \in Groups \cup {NoGroup}, admit(g)
      PROVE  /\ confirmed'[o] \in Nat /\ bytes'[o]["written"] <= confirmed'[o]
             /\ confirmed'[o] <= bytes'[o]["written"] + bytes'[o]["loss aborted"]
  <2>1. /\ confirmed'[o] = CurrentTotals(confirmed, 0, o, g)
        /\ bytes'[o]["written"] = CurrentTotals(bytes, Zero, o, g)["written"] + 0
        /\ bytes'[o]["loss aborted"] = CurrentTotals(bytes, Zero, o, g)["loss aborted"] + 0
    BY <1>1, <1>3 DEF admit
  <2>2. CASE o = g /\ group_epoch[g] # epoch
    <3>1. /\ confirmed'[o] = 0 /\ bytes'[o]["written"] = 0 + 0
          /\ bytes'[o]["loss aborted"] = 0 + 0
      BY <1>1, <2>1, <2>2 DEF CurrentTotals
    <3>2. c2 = 0 /\ w2 = 0 /\ l2 = 0
      <4>1. 0 + 0 = 0
        OBVIOUS
      <4> QED
        BY <3>1, <4>1, Zenon
    <3> QED
      BY <1>5, <3>2
  <2>3. CASE ~(o = g /\ group_epoch[g] # epoch)
    <3>1. Current(o)
      BY <1>3, <2>3, LedgerAssumption DEF Current, Owners, admit
    <3>2. /\ confirmed'[o] = confirmed[o] /\ bytes'[o]["written"] = bytes[o]["written"] + 0
          /\ bytes'[o]["loss aborted"] = bytes[o]["loss aborted"] + 0
      BY <2>1, <2>3 DEF CurrentTotals
    <3>3. /\ bytes[o]["written"] \in Nat /\ bytes[o]["loss aborted"] \in Nat
      BY <1>2, <3>1
    <3>4. w2 = w /\ l2 = l
      <4>1. w \in Nat /\ l \in Nat /\ w2 = w + 0 /\ l2 = l + 0
        BY <3>2, <3>3
      <4> HIDE DEF w, l, w2, l2
      <4> QED
        BY ONLY <4>1
    <3> QED
      BY <3>1, <3>2, <3>4 DEF LInv, Confirmed
  <2> QED
    BY <2>2, <2>3
<1>4. CASE reset
  <2>1. o = All
    BY <1>4 DEF reset, Current, Owners, LInv, Ledger, EpochType
  <2>2. /\ confirmed'[o] = 0 /\ bytes'[o]["written"] = 0 /\ bytes'[o]["loss aborted"] = 0
    BY <1>1, <1>4, <2>1 DEF reset, Cleared
  <2> QED
    BY <1>5, <2>2
<1> QED
  BY <1>3, <1>4

\* Every operation keeps the confirmed bytes in their bounds.
LEMMA NextConfirmed == ASSUME LInv, [Next]_vars PROVE Confirmed'
<1>1. ASSUME UNCHANGED <<epoch, group_epoch, bytes, confirmed>> PROVE Confirmed'
  BY <1>1 DEF LInv, Confirmed, Current
<1>2. CASE (\E g \in Groups \cup {NoGroup} : admit(g)) \/ reset
  BY <1>2, OthersConfirm
<1>3. CASE commit
  BY <1>1, <1>3 DEF commit, totals
<1>4. CASE rollback
  <2>1. CASE next_id \in Store!Live
    <3> DEFINE ending == [r \in {next_id} |-> "rolled back"]
    <3>1. /\ ending \in [{next_id} -> Endings] /\ {next_id} \in SUBSET Ids
          /\ \A r \in {next_id} : ending[r] # "written"
      BY <2>1 DEF Endings, Store!Live, Store!Ids, Ids
    <3>2. Retire({next_id}, ending) /\ UNCHANGED <<epoch, group_epoch, confirmed>>
      BY <1>4, <2>1 DEF rollback
    <3> HIDE DEF ending
    <3> QED
      BY <3>1, <3>2, LosesConfirm
  <2>2. CASE next_id \notin Store!Live
    BY <1>1, <1>4, <2>2 DEF rollback
  <2> QED
    BY <2>1, <2>2
<1>5. CASE \E batch \in Batches : begin_batch(batch)
  BY <1>1, <1>5 DEF begin_batch, totals
<1>6. CASE \E written \in 0 .. Before(Len(flying) + 1) : complete_batch(written)
  BY <1>6, CompleteConfirms
<1>7. CASE \E r \in Named, cause \in DiscardCauses : discard(r, cause)
  <2>1. PICK r \in Named, cause \in DiscardCauses : discard(r, cause)
    BY <1>7
  <2>2. cause \in Cause /\ {r} \cap Store!Live \in SUBSET Ids
    BY LedgerAssumption DEF Store!Live, Store!Ids, Ids
  <2> QED
    BY <2>1, <2>2, TerminateConfirms DEF discard
<1>8. CASE \E g \in Groups : discard_waiting(g, "SessionExpiry")
  <2>1. PICK g \in Groups : discard_waiting(g, "SessionExpiry")
    BY <1>8
  <2> DEFINE S == {r \in Store!Live : entries[r].tag.group = g /\ ~entries[r].active}
  <2>2. S \in SUBSET Ids /\ "SessionExpiry" \in Cause
    BY DEF Store!Live, Store!Ids, Ids, Cause
  <2>3. terminate(S, "SessionExpiry") /\ UNCHANGED <<epoch, group_epoch>>
    BY <2>1 DEF discard_waiting
  <2> HIDE DEF S
  <2> QED
    BY <2>2, <2>3, TerminateConfirms
<1>9. CASE \E cause \in EndCauses : end(cause)
  <2>1. PICK cause \in EndCauses : end(cause)
    BY <1>9
  <2>2. cause \in Cause /\ Store!Live \in SUBSET Ids
    BY LedgerAssumption DEF Store!Live, Store!Ids, Ids
  <2> QED
    BY <2>1, <2>2, TerminateConfirms DEF end
<1>10. CASE UNCHANGED vars
  BY <1>1, <1>10 DEF vars, totals
<1> QED
  BY <1>2, <1>3, <1>4, <1>5, <1>6, <1>7, <1>8, <1>9, <1>10 DEF Next

\* The batch handed to the socket is a sequence of requests.
LEMMA NextFlying == ASSUME LInv, [Next]_vars PROVE FlyingType'
<1>1. flying \in Seq(Ids) /\ next_id \in 0 .. MaxRequests
  BY DEF LInv, FlyingType, Ledger, StoreType
<1>2. ASSUME NEW batch \in Batches, begin_batch(batch) PROVE flying' \in Seq(Ids)
  <2>1. PICK n \in 1 .. MaxBatch : batch \in [1 .. n -> Named]
    BY DEF Batches
  <2>2. Named \subseteq Ids
    BY <1>1, LedgerAssumption DEF Named, Ids
  <2>3. batch \in Seq(Ids)
    BY <2>1, <2>2
  <2> QED
    BY <1>1, <1>2, <2>3 DEF begin_batch
<1>3. CASE \E written \in 0 .. Before(Len(flying) + 1) : complete_batch(written)
  BY <1>3 DEF complete_batch, FlyingType
<1>4. \/ UNCHANGED flying \/ \E batch \in Batches : begin_batch(batch)
      \/ \E written \in 0 .. Before(Len(flying) + 1) : complete_batch(written)
  BY DEF Next, admit, commit, rollback, discard, discard_waiting, end, reset, vars
<1> QED
  BY <1>1, <1>2, <1>3, <1>4 DEF FlyingType

\* The first state satisfies the invariant.
LEMMA InitLInv == Init => LInv
<1> SUFFICES ASSUME Init PROVE LInv
  OBVIOUS
<1>1. /\ bytes = [o \in Owners |-> Zero] /\ confirmed = [o \in Owners |-> 0] /\ flying = <<>>
  BY DEF Init
<1>2. /\ "written" \in Categories /\ "loss aborted" \in Categories
      /\ Zero["written"] = 0 /\ Zero["loss aborted"] = 0
  BY Confirming
<1>3. Confirmed
  <2>1. \A o \in Owners : /\ confirmed[o] = 0 /\ bytes[o]["written"] = 0
                          /\ bytes[o]["loss aborted"] = 0
    BY <1>1, <1>2
  <2>2. ASSUME NEW o \in Owners
        PROVE  /\ confirmed[o] \in Nat /\ bytes[o]["written"] <= confirmed[o]
               /\ confirmed[o] <= bytes[o]["written"] + bytes[o]["loss aborted"]
    BY <2>1, Nothing
  <2> QED
    BY <2>2 DEF Confirmed
<1> QED
  BY <1>1, <1>3, InitLedger DEF LInv, FlyingType

\* The store agrees with what became of each request, and the totals of every
\* owner in use this epoch count it (all operations of SendAccountingLedger).
THEOREM LedgerInvariance == Spec => []LInv
<1>1. LInv /\ [Next]_vars => LInv'
  BY NextLedger, NextConfirmed, NextFlying DEF LInv
<1> QED
  BY <1>1, InitLInv, PTL DEF Spec

\* An owner that is not in use this epoch has no requests to account for.
LEMMA NotCurrent ==
    ASSUME Ledger, NEW o \in Owners, ~Current(o), NEW c \in Categories
    PROVE  Accountable(o, c) = {}
<1>1. o \in Groups /\ o # All /\ group_epoch[o] # epoch
  BY DEF Current, Owners
<1>2. \A r \in Accountable(o, c) : /\ r \in Ids /\ history[r].is # "none"
                                   /\ history[r].tag.epoch = epoch /\ history[r].tag.group = o
  BY <1>1, Names DEF Accountable, CountsFor
<1> QED
  BY <1>1, <1>2 DEF Ledger, TagsKnown

\* snapshot() reports exactly what became of the requests accepted since the
\* last reset, for the ledger and for each group.
THEOREM SnapshotExact == Spec => []RequestsExact
<1>1. LInv => RequestsExact
  <2> SUFFICES ASSUME LInv, NEW o \in Owners, NEW c \in Categories
               PROVE  snapshot(requests, Zero, o)[c] = Cardinality(Accountable(o, c))
    BY DEF RequestsExact
  <2>1. CASE Current(o)
    BY <2>1 DEF LInv, Ledger, Exact, snapshot, Current
  <2>2. CASE ~Current(o)
    <3>1. snapshot(requests, Zero, o)[c] = 0
      BY <2>2 DEF snapshot, Zero, Current
    <3> QED
      BY <2>2, <3>1, NotCurrent, FS_EmptySet DEF LInv
  <2> QED
    BY <2>1, <2>2
<1> QED
  BY <1>1, LedgerInvariance, PTL

\* And their bytes.
THEOREM SnapshotBytesExact == Spec => []BytesExact
<1>1. LInv => BytesExact
  <2> SUFFICES ASSUME LInv, NEW o \in Owners, NEW c \in Categories
               PROVE  snapshot(bytes, Zero, o)[c] = Sum(Bytes, Accountable(o, c))
    BY DEF BytesExact
  <2>1. CASE Current(o)
    BY <2>1 DEF LInv, Ledger, Exact, snapshot, Current
  <2>2. CASE ~Current(o)
    <3>1. snapshot(bytes, Zero, o)[c] = 0
      BY <2>2 DEF snapshot, Zero, Current
    <3> QED
      BY <2>2, <3>1, NotCurrent, SumEmpty DEF LInv
  <2> QED
    BY <2>1, <2>2
<1> QED
  BY <1>1, LedgerInvariance, PTL

\* The confirmed bytes a snapshot reports cover every written request, and beyond
\* them only bytes of requests that a failed write cut short.
THEOREM SnapshotConfirmed == Spec => []ConfirmedWithinWritten
<1>1. LInv => ConfirmedWithinWritten
  <2> SUFFICES ASSUME LInv, NEW o \in Owners
               PROVE  /\ snapshot(bytes, Zero, o)["written"] <= snapshot(confirmed, 0, o)
                      /\ snapshot(confirmed, 0, o) <= snapshot(bytes, Zero, o)["written"]
                                                      + snapshot(bytes, Zero, o)["loss aborted"]
    BY DEF ConfirmedWithinWritten
  <2>1. CASE Current(o)
    BY <2>1 DEF LInv, Confirmed, snapshot, Current
  <2>2. CASE ~Current(o)
    <3>1. snapshot(bytes, Zero, o) = Zero /\ snapshot(confirmed, 0, o) = 0
      BY <2>2 DEF snapshot, Current
    <3>2. snapshot(bytes, Zero, o)["written"] = 0 /\ snapshot(bytes, Zero, o)["loss aborted"] = 0
      BY <3>1, Confirming
    <3> QED
      BY <3>1, <3>2, Nothing
  <2> QED
    BY <2>1, <2>2
<1> QED
  BY <1>1, LedgerInvariance, PTL
=============================================================================
