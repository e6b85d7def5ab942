------------------------ MODULE SendLedgerRingProofs ------------------------
(***************************************************************************)
(* The ring and the sparse map of SendAccountingLedger implement           *)
(* RequestMap, and the ring stays in proportion to the requests alive at   *)
(* once, for every number of requests and every initial capacity.          *)
(*                                                                         *)
(* View(s) is what find() shows of a store s.  Each operation on a well    *)
(* formed store is shown to change the view as RequestMap says: growing,   *)
(* detaching and compacting leave it alone, although they move entries.    *)
(***************************************************************************)
EXTENDS SendLedgerRing, SumProofs, FiniteSetTheorems

-----------------------------------------------------------------------------
(* Slots.                                                                  *)

\* A slot index wraps around at most once.
LEMMA Wraps ==
  ASSUME NEW n \in Nat \ {0}, NEW x \in 0 .. 2 * n - 1
  PROVE  x % n = IF x < n THEN x ELSE x - n
  OBVIOUS

\* Whatever names one slot of the ring does so alone (slot() of
\* SendAccountingLedger).
LEMMA IndexInjective ==
  ASSUME NEW n \in Nat \ {0}, NEW h \in 0 .. n - 1,
         NEW i \in 0 .. n - 1, NEW j \in 0 .. n - 1
  PROVE  /\ (h + i) % n \in 0 .. n - 1
         /\ (h + i) % n = (h + j) % n => i = j
  <1> DEFINE x == h + i
             y == h + j
  <1>1. x \in 0 .. 2 * n - 1 /\ y \in 0 .. 2 * n - 1
    OBVIOUS
  <1> HIDE DEF x, y
  <1>2. x % n = (IF x < n THEN x ELSE x - n) /\ y % n = (IF y < n THEN y ELSE y - n)
    BY <1>1, Wraps
  <1>3. x % n \in 0 .. n - 1 /\ (x % n = y % n => x = y \/ x = y + n \/ y = x + n)
    BY <1>1, <1>2
  <1>4. x = h + i /\ y = h + j
    BY DEF x, y
  <1>5. x % n = y % n => i = j
    BY <1>3, <1>4
  <1> QED
    BY <1>3, <1>5 DEF x, y

-----------------------------------------------------------------------------
(* Well-formed stores.                                                       *)

Entries == [live : BOOLEAN, active : BOOLEAN, tag : Tags \cup {NoTag}]

\* A store that has given out the ids up to n: the ring holds the last of them,
\* the sparse map live ones from before.
Good(s, n) ==
    /\ DOMAIN s = {"slots", "head", "count", "base", "sparse"}
    /\ Capacity(s) \in Nat /\ s.slots \in [0 .. Capacity(s) - 1 -> Entries]
    /\ s.head \in Nat /\ (Capacity(s) > 0 => s.head < Capacity(s))
    /\ s.count \in 0 .. Capacity(s)
    /\ s.base \in Nat \ {0} /\ s.base + s.count = n + 1
    /\ s.sparse \in [DOMAIN s.sparse -> Entries]
    /\ DOMAIN s.sparse \subseteq 1 .. s.base - 1
    /\ \A id \in DOMAIN s.sparse : s.sparse[id].live

\* What find() shows of a store.
View(s) == [r \in Ids |-> IF contains(s, r) THEN find(s, r) ELSE Entry]

\* The capacity is the number of slots.
LEMMA Capacities ==
  ASSUME NEW s, NEW k \in Nat, DOMAIN s.slots = 0 .. k - 1
  PROVE  Capacity(s) = k
  BY FS_Interval DEF Capacity

\* The slots in use have different indices.
LEMMA Slots ==
  ASSUME NEW s, NEW n \in Nat, Good(s, n)
  PROVE  /\ \A i \in 0 .. s.count - 1 : Index(s, i) \in 0 .. Capacity(s) - 1
         /\ \A i, j \in 0 .. s.count - 1 : Index(s, i) = Index(s, j) => i = j
         /\ s.count < Capacity(s) =>
                /\ Index(s, s.count) \in 0 .. Capacity(s) - 1
                /\ \A i \in 0 .. s.count - 1 : Index(s, i) # Index(s, s.count)
  <1> DEFINE k == Capacity(s)
             h == s.head
             m == s.count
  <1>1. k \in Nat /\ h \in Nat /\ (k > 0 => h < k) /\ m \in 0 .. k
    BY DEF Good
  <1>2. \A i : Index(s, i) = (h + i) % k
    BY DEF Index
  <1> HIDE DEF k, h, m
  <1>3. ASSUME NEW i \in 0 .. k - 1, NEW j \in 0 .. k - 1
        PROVE  Index(s, i) \in 0 .. k - 1 /\ (Index(s, i) = Index(s, j) => i = j)
    <2>1. k \in Nat \ {0} /\ h \in 0 .. k - 1
      BY <1>1
    <2>2. (h + i) % k \in 0 .. k - 1 /\ ((h + i) % k = (h + j) % k => i = j)
      BY <2>1, IndexInjective
    <2> QED
      BY <1>2, <2>2
  <1>4. /\ \A i \in 0 .. m - 1 : i \in 0 .. k - 1 /\ i # m
        /\ m < k => m \in 0 .. k - 1
    BY <1>1
  <1> QED
    BY <1>3, <1>4 DEF k, m

\* The ids that contains() knows are live ones given out, each with a typed entry.
LEMMA Contained ==
  ASSUME NEW s, NEW n \in Nat, Good(s, n), NEW id \in Nat, contains(s, id)
  PROVE  /\ id \in 1 .. n /\ find(s, id) \in Entries /\ find(s, id).live
         /\ id >= s.base => id - s.base \in 0 .. s.count - 1 /\ id - s.base \in LiveSlots(s)
  <1>1. CASE id < s.base
    BY <1>1 DEF Good, contains, find
  <1>2. CASE ~(id < s.base)
    <2>1. id - s.base \in LiveSlots(s)
      BY <1>2 DEF contains
    <2>2. id - s.base \in 0 .. s.count - 1 /\ slot(s, id - s.base).live
      BY <2>1 DEF LiveSlots
    <2>3. Index(s, id - s.base) \in 0 .. Capacity(s) - 1
      BY <2>2, Slots
    <2>4. find(s, id) = s.slots[Index(s, id - s.base)] /\ find(s, id).live
      BY <1>2, <2>2 DEF find, slot
    <2>5. id \in 1 .. n
      BY <1>2, <2>2 DEF Good
    <2> QED
      BY <2>1, <2>2, <2>3, <2>4, <2>5 DEF Good
  <1> QED
    BY <1>1, <1>2

\* Two stores that contain the same ids with the same entries look the same.
LEMMA SameView ==
  ASSUME NEW s, NEW t,
         \A r \in Ids : /\ contains(t, r) <=> contains(s, r)
                        /\ contains(s, r) => find(t, r) = find(s, r)
  PROVE  View(t) = View(s)
  BY DEF View

\* A ring whose slots in use are the same looks the same, wherever they are.
LEMMA SameSlots ==
  ASSUME NEW s, NEW n \in Nat, Good(s, n), NEW t,
         t.base = s.base, t.count = s.count, t.sparse = s.sparse,
         \A i \in 0 .. s.count - 1 : slot(t, i) = slot(s, i)
  PROVE  View(t) = View(s) /\ LiveSlots(t) = LiveSlots(s)
  <1>1. LiveSlots(t) = LiveSlots(s)
    BY DEF LiveSlots
  <1>2. ASSUME NEW r \in Ids
        PROVE  /\ contains(t, r) <=> contains(s, r)
               /\ contains(s, r) => find(t, r) = find(s, r)
    <2>1. contains(t, r) <=> contains(s, r)
      BY <1>1 DEF contains
    <2>2. CASE r < s.base
      BY <2>1, <2>2 DEF find
    <2>3. CASE ~(r < s.base)
      <3>1. contains(s, r) => r - s.base \in 0 .. s.count - 1
        BY <2>3 DEF contains, LiveSlots
      <3> QED
        BY <2>1, <2>3, <3>1 DEF find
    <2> QED
      BY <2>2, <2>3
  <1> QED
    BY <1>1, <1>2, SameView

\* grow() leaves everything in place and makes room.
LEMMA Grows ==
  ASSUME NEW s, NEW n \in Nat, Good(s, n), s.count = Capacity(s)
  PROVE  LET t == Grow(s)
         IN  /\ Good(t, n) /\ View(t) = View(s) /\ t.count = s.count /\ t.base = s.base
             /\ t.count < Capacity(t)
             /\ Capacity(t) = IF Capacity(s) = 0 THEN InitialSlots ELSE 2 * Capacity(s)
  <1> DEFINE k == IF Capacity(s) = 0 THEN InitialSlots ELSE 2 * Capacity(s)
             f == [i \in 0 .. k - 1 |-> IF i < s.count THEN slot(s, i) ELSE Entry]
             t == [s EXCEPT !.slots = f, !.head = 0]
  <1>1. Grow(s) = t
    BY DEF Grow
  <1>2. k \in Nat \ {0} /\ s.count \in Nat /\ s.count < k
    BY RingAssumption DEF Good
  <1>3. DOMAIN f = 0 .. k - 1 /\ \A i \in 0 .. s.count - 1 : f[i] = slot(s, i)
    BY <1>2
  <1>4. f \in [0 .. k - 1 -> Entries]
    <2>1. \A i \in 0 .. s.count - 1 : slot(s, i) \in Entries
      BY Slots DEF slot, Good
    <2>2. Entry \in Entries
      BY DEF Entry, Entries
    <2> QED
      BY <1>2, <2>1, <2>2
  <1> HIDE DEF k, f
  <1>5. /\ DOMAIN t = {"slots", "head", "count", "base", "sparse"} /\ t.slots = f /\ t.head = 0
        /\ t.count = s.count /\ t.base = s.base /\ t.sparse = s.sparse
    BY DEF Good
  <1> HIDE DEF t
  <1>6. Capacity(t) = k
    BY <1>2, <1>3, <1>5, Capacities
  <1>7. Good(t, n)
    BY <1>2, <1>4, <1>5, <1>6 DEF Good
  <1>8. \A i \in 0 .. s.count - 1 : slot(t, i) = slot(s, i)
    <2>1. ASSUME NEW i \in 0 .. s.count - 1 PROVE Index(t, i) = i
      <3>1. i \in 0 .. 2 * k - 1 /\ i < k /\ 0 + i = i
        BY <1>2
      <3>2. i % k = i
        BY <1>2, <3>1, Wraps
      <3> QED
        BY <1>5, <1>6, <3>1, <3>2 DEF Index
    <2> QED
      BY <2>1, <1>3, <1>5 DEF slot
  <1>9. View(t) = View(s)
    BY <1>5, <1>8, SameSlots
  <1> QED
    BY <1>1, <1>2, <1>5, <1>6, <1>7, <1>9 DEF k

\* detach() moves the live entries of the ring where find() still sees them.
LEMMA Detaches ==
  ASSUME NEW s, Good(s, next_id), next_id \in Nat, Capacity(s) > 0
  PROVE  LET t == Detach(s)
         IN  /\ Good(t, next_id) /\ View(t) = View(s) /\ t.count = 0
             /\ Capacity(t) = Capacity(s)
  <1> DEFINE D == DOMAIN s.sparse \cup {s.base + i : i \in LiveSlots(s)}
             p == [id \in D |-> find(s, id)]
             f == [i \in DOMAIN s.slots |-> Entry]
             t == [s EXCEPT !.sparse = p, !.slots = f, !.head = 0, !.count = 0,
                            !.base = next_id + 1]
  <1>1. Detach(s) = t
    BY DEF Detach
  <1>2. ASSUME NEW id
        PROVE  id \in D <=> id \in Nat /\ contains(s, id)
    <2>1. s.base \in Nat /\ s.count \in Nat /\ DOMAIN s.sparse \subseteq 1 .. s.base - 1
      BY DEF Good
    <2>2. \A i \in LiveSlots(s) : i \in Nat
      BY <2>1 DEF LiveSlots
    <2>3. id \in Nat /\ contains(s, id) => id \in D
      BY <2>1, <2>2 DEF contains
    <2>4. id \in D => id \in Nat /\ contains(s, id)
      BY <2>1, <2>2 DEF contains
    <2> QED
      BY <2>3, <2>4
  <1>3. \A id \in D : p[id] = find(s, id) /\ find(s, id) \in Entries /\ find(s, id).live /\ id \in 1 .. next_id
    BY <1>2, Contained
  <1>4. DOMAIN p = D /\ p \in [D -> Entries] /\ \A id \in D : p[id].live
    BY <1>3
  <1>5. DOMAIN f = 0 .. Capacity(s) - 1 /\ f \in [0 .. Capacity(s) - 1 -> Entries]
    BY DEF Good, Entry, Entries
  <1> HIDE DEF D, p, f
  <1>6. /\ DOMAIN t = {"slots", "head", "count", "base", "sparse"} /\ t.slots = f /\ t.head = 0
        /\ t.count = 0 /\ t.base = next_id + 1 /\ t.sparse = p
    BY DEF Good
  <1> HIDE DEF t
  <1>7. Capacity(t) = Capacity(s)
    BY <1>5, <1>6, Capacities DEF Good
  <1>8. Good(t, next_id)
    <2>1. D \subseteq 1 .. next_id /\ (next_id + 1) - 1 = next_id
      BY <1>3
    <2>2. /\ Capacity(s) \in Nat /\ 0 < Capacity(s) /\ 0 \in 0 .. Capacity(s)
          /\ next_id + 1 \in Nat \ {0} /\ (next_id + 1) + 0 = next_id + 1
      BY DEF Good
    <2>3. /\ t.slots \in [0 .. Capacity(t) - 1 -> Entries] /\ t.head \in Nat
          /\ t.head < Capacity(t) /\ t.count \in 0 .. Capacity(t)
          /\ t.base \in Nat \ {0} /\ t.base + t.count = next_id + 1
      BY <1>5, <1>6, <1>7, <2>2
    <2>4. /\ t.sparse \in [DOMAIN t.sparse -> Entries] /\ DOMAIN t.sparse \subseteq 1 .. t.base - 1
          /\ \A id \in DOMAIN t.sparse : t.sparse[id].live
      BY <1>4, <1>6, <2>1
    <2> QED
      BY <1>6, <1>7, <2>2, <2>3, <2>4 DEF Good
  <1>9. ASSUME NEW r \in Ids
        PROVE  /\ contains(t, r) <=> contains(s, r)
               /\ contains(s, r) => find(t, r) = find(s, r)
    <2>1. r \in Nat
      BY DEF Ids
    <2>2. LiveSlots(t) = {}
      BY <1>6 DEF LiveSlots
    <2>3. contains(t, r) => r < next_id + 1 /\ r \in D
      BY <1>4, <1>6, <2>2 DEF contains
    <2>4. contains(s, r) => r < next_id + 1 /\ r \in D
      BY <2>1, <1>2, Contained
    <2> QED
      BY <2>1, <2>3, <2>4, <1>2, <1>3, <1>4, <1>6 DEF contains, find
  <1>10. View(t) = View(s)
    BY <1>9, SameView
  <1> QED
    BY <1>1, <1>6, <1>7, <1>8, <1>10

\* Moving the head on by d slots moves every index by d.
LEMMA IndexShift ==
  ASSUME NEW n \in Nat \ {0}, NEW h \in 0 .. n - 1, NEW d \in 0 .. n, NEW i \in Nat, i + d < n
  PROVE  /\ (h + d) % n \in 0 .. n - 1
         /\ (((h + d) % n) + i) % n = (h + (i + d)) % n
  <1> DEFINE x == h + d
             y == h + (i + d)
             z == (x % n) + i
  <1>1. x \in 0 .. 2 * n - 1 /\ y \in 0 .. 2 * n - 1 /\ y = x + i
    OBVIOUS
  <1> HIDE DEF x, y
  <1>2. x % n = (IF x < n THEN x ELSE x - n) /\ y % n = (IF y < n THEN y ELSE y - n)
    BY <1>1, Wraps
  <1>3. x < n \/ i < n - d
    OBVIOUS
  <1>4. z \in 0 .. 2 * n - 1 /\ x % n \in 0 .. n - 1
    BY <1>1, <1>2
  <1>5. z = IF x < n THEN y ELSE y - n
    BY <1>1, <1>2
  <1> HIDE DEF z
  <1>6. z % n = IF z < n THEN z ELSE z - n
    BY <1>4, Wraps
  <1>7. z % n = y % n
    BY <1>1, <1>2, <1>4, <1>5, <1>6
  <1> QED
    BY <1>4, <1>7 DEF x, y, z

\* compact() drops only what contains() does not know.
LEMMA Compacts ==
  ASSUME NEW s, NEW n \in Nat, Good(s, n)
  PROVE  LET t == compact(s)
         IN  Good(t, n) /\ View(t) = View(s) /\ Capacity(t) = Capacity(s)
  <1> DEFINE L == LiveSlots(s)
             d == IF L = {} THEN s.count ELSE Min(L)
             t == [s EXCEPT !.head = Index(s, d), !.count = s.count - d, !.base = s.base + d]
  <1>1. compact(s) = IF d = 0 THEN s ELSE t
    BY DEF compact, Good
  <1>2. d \in 0 .. s.count /\ \A i \in L : i \in 0 .. s.count - 1 /\ d <= i
    <2>1. s.count \in Nat /\ L \subseteq 0 .. s.count - 1
      BY DEF Good, LiveSlots
    <2>2. CASE L = {}
      BY <2>1, <2>2
    <2>3. CASE L # {}
      <3>1. L \subseteq Nat
        BY <2>1
      <3>2. \E x \in L : \A y \in L : x <= y
        <4> HIDE DEF L
        <4> QED
          BY <2>3, <3>1, Least
      <3>3. d \in L /\ \A y \in L : d <= y
        BY <2>3, <3>2 DEF Min
      <3> QED
        BY <2>1, <3>3
    <2> QED
      BY <2>2, <2>3
  <1> HIDE DEF d
  <1>3. SUFFICES ASSUME d # 0
                 PROVE  Good(t, n) /\ View(t) = View(s) /\ Capacity(t) = Capacity(s)
    BY <1>1
  <1>4. /\ DOMAIN t = {"slots", "head", "count", "base", "sparse"} /\ t.slots = s.slots
        /\ t.head = Index(s, d) /\ t.count = s.count - d /\ t.base = s.base + d
        /\ t.sparse = s.sparse
    BY DEF Good
  <1> HIDE DEF t, L
  <1>5. Capacity(t) = Capacity(s)
    BY <1>4 DEF Capacity
  <1>6. /\ Capacity(s) \in Nat \ {0} /\ s.head \in 0 .. Capacity(s) - 1 /\ s.count \in Nat
        /\ s.count <= Capacity(s) /\ d \in 0 .. Capacity(s) /\ d \in Nat
        /\ s.base \in Nat \ {0} /\ s.base + s.count = n + 1
    BY <1>2, <1>3 DEF Good
  <1>7. Index(s, d) \in 0 .. Capacity(s) - 1
    <2>1. s.head + d \in 0 .. 2 * Capacity(s) - 1
      BY <1>6
    <2>2. (s.head + d) % Capacity(s) \in 0 .. Capacity(s) - 1
      <3> DEFINE x == s.head + d
                 k == Capacity(s)
      <3>1. x \in 0 .. 2 * k - 1 /\ k \in Nat \ {0}
        BY <2>1, <1>6
      <3> HIDE DEF x, k
      <3>2. x % k = IF x < k THEN x ELSE x - k
        BY <3>1, Wraps
      <3>3. x % k \in 0 .. k - 1
        BY <3>1, <3>2
      <3> QED
        BY <3>3 DEF x, k
    <2> QED
      BY <2>2 DEF Index
  <1>8. ASSUME NEW i \in Nat, i + d < s.count PROVE slot(t, i) = slot(s, i + d)
    <2>1. (((s.head + d) % Capacity(s)) + i) % Capacity(s) = (s.head + (i + d)) % Capacity(s)
      <3>1. i + d < Capacity(s)
        BY <1>6, <1>8
      <3> QED
        BY <1>6, <3>1, IndexShift
    <2>2. Index(t, i) = Index(s, i + d)
      BY <2>1, <1>4, <1>5 DEF Index
    <2> QED
      BY <2>2, <1>4 DEF slot
  <1>9. Good(t, n)
    <2>1. /\ s.count - d \in 0 .. Capacity(s) /\ s.base + d \in Nat \ {0}
          /\ (s.base + d) + (s.count - d) = n + 1 /\ 1 .. s.base - 1 \subseteq 1 .. (s.base + d) - 1
      BY <1>2, <1>6
    <2>2. Index(s, d) \in Nat /\ Index(s, d) < Capacity(s)
      BY <1>6, <1>7
    <2>3. DOMAIN s.sparse \subseteq 1 .. (s.base + d) - 1
      BY <2>1 DEF Good
    <2> QED
      BY <1>4, <1>5, <2>1, <2>2, <2>3 DEF Good
  <1>10. ASSUME NEW r \in Ids
         PROVE  /\ contains(t, r) <=> contains(s, r)
                /\ contains(s, r) => find(t, r) = find(s, r)
    <2>0. r \in Nat
      BY DEF Ids
    <2>1. CASE r < s.base
      <3>1. r < s.base + d
        BY <2>0, <2>1, <1>6
      <3> QED
        BY <2>1, <3>1, <1>4 DEF contains, find
    <2>2. CASE ~(r < s.base) /\ r < s.base + d
      <3>1. r \notin DOMAIN s.sparse
        BY <2>0, <2>2, <1>6 DEF Good
      <3>2. r - s.base \notin L
        BY <2>0, <2>2, <1>2, <1>6
      <3> QED
        BY <2>2, <3>1, <3>2, <1>4 DEF contains, L
    <2>3. CASE ~(r < s.base + d)
      <3> DEFINE i == r - (s.base + d)
      <3>1. i \in Nat /\ i + d = r - s.base /\ ~(r < s.base)
        BY <2>0, <2>3, <1>6
      <3> HIDE DEF i
      <3>2. i \in LiveSlots(t) <=> i + d \in LiveSlots(s)
        <4>1. i \in 0 .. t.count - 1 <=> i + d < s.count
          BY <3>1, <1>2, <1>4, <1>6
        <4>2. i + d \in 0 .. s.count - 1 <=> i + d < s.count
          BY <3>1, <1>6
        <4> QED
          BY <3>1, <4>1, <4>2, <1>8 DEF LiveSlots
      <3>3. contains(t, r) <=> contains(s, r)
        BY <2>3, <3>1, <3>2, <1>4 DEF contains, i
      <3>4. contains(s, r) => i + d < s.count
        BY <3>1, <1>6 DEF contains, LiveSlots
      <3>5. contains(s, r) => find(t, r) = find(s, r)
        BY <2>3, <3>1, <3>4, <1>4, <1>8 DEF find, i
      <3> QED
        BY <3>3, <3>5
    <2> QED
      BY <2>1, <2>2, <2>3
  <1> QED
    BY <1>5, <1>9, <1>10, SameView

\* The entries of the ids in S die, and no others.
LEMMA Kills ==
  ASSUME NEW s, NEW n \in Nat, Good(s, n), NEW S, \A id \in S : id \in Nat /\ contains(s, id)
  PROVE  LET t == Kill(s, S)
         IN  /\ Good(t, n) /\ Capacity(t) = Capacity(s)
             /\ View(t) = [r \in Ids |-> IF r \in S THEN Entry ELSE View(s)[r]]
  <1> DEFINE p == [id \in DOMAIN s.sparse \ S |-> s.sparse[id]]
             hit(i) == \E id \in S : id >= s.base /\ i = Index(s, id - s.base)
             dead(e) == [e EXCEPT !.live = FALSE, !.tag = NoTag]
             f == [i \in DOMAIN s.slots |-> IF hit(i) THEN dead(s.slots[i]) ELSE s.slots[i]]
             t == [s EXCEPT !.sparse = p, !.slots = f]
  <1>1. Kill(s, S) = t
    BY DEF Kill, Good
  <1>2. s.slots \in [0 .. Capacity(s) - 1 -> Entries] /\ DOMAIN s.slots = 0 .. Capacity(s) - 1
    BY DEF Good
  <1>3. \A e \in Entries : dead(e) \in Entries /\ ~dead(e).live
    BY DEF Entries
  <1>4. f \in [0 .. Capacity(s) - 1 -> Entries] /\ DOMAIN f = 0 .. Capacity(s) - 1
    <2> HIDE DEF hit, dead
    <2> QED
      BY <1>2, <1>3
  <1>5. /\ p \in [DOMAIN p -> Entries] /\ DOMAIN p = DOMAIN s.sparse \ S
        /\ \A id \in DOMAIN p : p[id] = s.sparse[id] /\ p[id].live
    BY DEF Good
  <1>6. ASSUME NEW i \in 0 .. s.count - 1
        PROVE  f[Index(s, i)] = IF s.base + i \in S THEN dead(slot(s, i)) ELSE slot(s, i)
    <2>1. Index(s, i) \in DOMAIN s.slots
      BY <1>2, Slots
    <2>2. s.base \in Nat /\ s.count \in Nat
      BY DEF Good
    <2>3. hit(Index(s, i)) => s.base + i \in S
      <3> SUFFICES ASSUME NEW id \in S, id >= s.base, Index(s, i) = Index(s, id - s.base)
                   PROVE  s.base + i \in S
        OBVIOUS
      <3>1. id \in Nat /\ id - s.base \in 0 .. s.count - 1
        BY Contained
      <3>2. i = id - s.base
        BY <3>1, Slots
      <3>3. s.base + i = id
        BY <3>1, <3>2, <2>2
      <3> QED
        BY <3>3
    <2>4. s.base + i \in S => hit(Index(s, i))
      <3>1. s.base + i >= s.base /\ (s.base + i) - s.base = i
        BY <2>2
      <3> QED
        BY <3>1
    <2> HIDE DEF hit, dead
    <2> QED
      BY <2>1, <2>3, <2>4 DEF slot
  <1> HIDE DEF p, f, hit, dead
  <1>7. /\ DOMAIN t = {"slots", "head", "count", "base", "sparse"} /\ t.slots = f
        /\ t.head = s.head /\ t.count = s.count /\ t.base = s.base /\ t.sparse = p
    BY DEF Good
  <1> HIDE DEF t
  <1>8. Capacity(t) = Capacity(s)
    BY <1>4, <1>7, Capacities DEF Good
  <1>9. Good(t, n)
    <2>1. DOMAIN p \subseteq 1 .. s.base - 1
      BY <1>5 DEF Good
    <2> QED
      BY <1>4, <1>5, <1>7, <1>8, <2>1 DEF Good
  <1>10. ASSUME NEW r \in Ids
         PROVE  View(t)[r] = IF r \in S THEN Entry ELSE View(s)[r]
    <2>0. r \in Nat /\ s.base \in Nat /\ s.count \in Nat
      BY DEF Ids, Good
    <2>1. CASE r < s.base
      <3>1. contains(t, r) <=> contains(s, r) /\ r \notin S
        BY <2>1, <1>5, <1>7 DEF contains
      <3>2. contains(t, r) => find(t, r) = find(s, r)
        BY <2>1, <1>5, <1>7 DEF contains, find
      <3> QED
        BY <3>1, <3>2 DEF View
    <2>2. CASE ~(r < s.base)
      <3> DEFINE i == r - s.base
      <3>1. i \in Nat /\ s.base + i = r
        BY <2>0, <2>2
      <3>2. i \in 0 .. s.count - 1 => slot(t, i) = IF r \in S THEN dead(slot(s, i)) ELSE slot(s, i)
        <4>1. Index(t, i) = Index(s, i)
          BY <1>7, <1>8 DEF Index
        <4> QED
          BY <3>1, <4>1, <1>6, <1>7 DEF slot
      <3>3. i \in 0 .. s.count - 1 => slot(s, i) \in Entries
        BY Slots, <1>2 DEF slot
      <3> HIDE DEF i
      <3>4. contains(t, r) <=> contains(s, r) /\ r \notin S
        <4>1. i \in LiveSlots(t) <=> i \in LiveSlots(s) /\ r \notin S
          BY <3>1, <3>2, <3>3, <1>3, <1>7 DEF LiveSlots
        <4> QED
          BY <2>2, <4>1, <1>7 DEF contains, i
      <3>5. contains(t, r) => find(t, r) = find(s, r)
        <4>1. contains(t, r) => i \in 0 .. s.count - 1
          BY <2>2, <1>7 DEF contains, LiveSlots, i
        <4> QED
          BY <2>2, <3>2, <3>4, <4>1, <1>7 DEF find, i
      <3> QED
        BY <3>4, <3>5 DEF View
    <2> QED
      BY <2>1, <2>2
  <1>11. View(t) = [r \in Ids |-> IF r \in S THEN Entry ELSE View(s)[r]]
    BY <1>10 DEF View
  <1> QED
    BY <1>1, <1>8, <1>9, <1>11

\* The store with e in the next slot (admit), and the map with e at the next id.
Store(s, e) == [s EXCEPT !.slots[Index(s, s.count)] = e, !.count = s.count + 1]
Insert(v, r, e) == [v EXCEPT ![r] = e]

\* A new entry takes the next slot, and leaves every other entry alone.
LEMMA Stores ==
  ASSUME NEW s, NEW n \in 0 .. MaxRequests - 1, Good(s, n), s.count < Capacity(s),
         NEW e \in Entries, e.live,
         NEW t, t = Store(s, e)
  PROVE  /\ Good(t, n + 1) /\ Capacity(t) = Capacity(s)
         /\ View(t) = Insert(View(s), n + 1, e)
  <1> DEFINE x == Index(s, s.count)
             f == [s.slots EXCEPT ![x] = e]
  <1>0. n \in Nat /\ n + 1 \in Ids
    BY RingAssumption DEF Ids
  <1>1. /\ x \in 0 .. Capacity(s) - 1 /\ s.slots \in [0 .. Capacity(s) - 1 -> Entries]
    BY <1>0, Slots DEF Good
  <1>a. t = [s EXCEPT !.slots[x] = e, !.count = s.count + 1]
    BY DEF x, Store
  <1> HIDE DEF x
  <1>2. /\ DOMAIN t = {"slots", "head", "count", "base", "sparse"} /\ t.slots = f
        /\ t.head = s.head /\ t.count = s.count + 1 /\ t.base = s.base /\ t.sparse = s.sparse
    BY <1>a DEF Good
  <1>3. f \in [0 .. Capacity(s) - 1 -> Entries] /\ DOMAIN f = 0 .. Capacity(s) - 1 /\ f[x] = e
        /\ \A i \in 0 .. Capacity(s) - 1 : i # x => f[i] = s.slots[i]
    BY <1>1
  <1> HIDE DEF f
  <1>4. Capacity(t) = Capacity(s)
    <2>1. Capacity(s) \in Nat
      BY DEF Good
    <2>2. DOMAIN t.slots = 0 .. Capacity(s) - 1
      BY ONLY <1>2, <1>3
    <2> QED
      BY ONLY <2>1, <2>2, Capacities
  <1>5. s.base \in Nat \ {0} /\ s.count \in Nat /\ s.base + s.count = n + 1 /\ Capacity(s) \in Nat
    BY DEF Good
  <1>6. Good(t, n + 1)
    <2>1. s.count + 1 \in 0 .. Capacity(s) /\ s.base + (s.count + 1) = (n + 1) + 1
      BY <1>0, <1>5
    <2> QED
      BY <1>2, <1>3, <1>4, <2>1 DEF Good
  <1>7. \A i \in 0 .. s.count - 1 : slot(t, i) = slot(s, i)
    <2>1. ASSUME NEW i \in 0 .. s.count - 1
          PROVE  Index(s, i) \in 0 .. Capacity(s) - 1 /\ Index(s, i) # x
      BY <1>0, Slots DEF x
    <2>2. \A i : Index(t, i) = Index(s, i)
      BY <1>2, <1>4 DEF Index
    <2> QED
      BY <1>2, <1>3, <2>1, <2>2 DEF slot
  <1>8. slot(t, s.count) = e
    BY <1>2, <1>3, <1>4 DEF slot, Index, x
  <1>9. ASSUME NEW r \in Ids
        PROVE  View(t)[r] = IF r = n + 1 THEN e ELSE View(s)[r]
    <2>0. r \in Nat
      BY DEF Ids
    <2>1. CASE r < s.base
      <3>1. r # n + 1
        BY <2>0, <2>1, <1>0, <1>5
      <3> QED
        BY <2>1, <3>1, <1>2 DEF View, contains, find
    <2>2. CASE ~(r < s.base)
      <3> DEFINE i == r - s.base
      <3>1. i \in Nat /\ (r = n + 1 <=> i = s.count)
        BY <2>0, <2>2, <1>0, <1>5
      <3> HIDE DEF i
      <3>2. (i \in 0 .. (s.count + 1) - 1 <=> i \in 0 .. s.count - 1 \/ i = s.count)
        BY <3>1, <1>5
      <3>3. i \in LiveSlots(t) <=> (i \in LiveSlots(s) \/ i = s.count)
        BY <3>1, <3>2, <1>1, <1>2, <1>7, <1>8 DEF LiveSlots
      <3>4. i \in LiveSlots(s) => i # s.count /\ slot(t, i) = slot(s, i)
        BY <1>5, <1>7 DEF LiveSlots
      <3>5. /\ contains(t, r) <=> i \in LiveSlots(t)
            /\ contains(s, r) <=> i \in LiveSlots(s)
            /\ find(t, r) = slot(t, i) /\ find(s, r) = slot(s, i)
        BY <2>2, <1>2 DEF contains, find, i
      <3> QED
        BY <3>1, <3>3, <3>4, <3>5, <1>8 DEF View
    <2> QED
      BY <2>1, <2>2
  <1>10. View(t) = Insert(View(s), n + 1, e)
    BY <1>9, <1>0 DEF View, Insert
  <1> QED
    BY <1>4, <1>6, <1>10

\* Beginning a write marks one entry, in the ring or in the sparse map.
LEMMA Marks ==
  ASSUME NEW s, NEW n \in Nat, Good(s, n), NEW id \in Ids, contains(s, id)
  PROVE  LET t == IF id < s.base THEN [s EXCEPT !.sparse[id].active = TRUE]
                  ELSE [s EXCEPT !.slots[Index(s, id - s.base)].active = TRUE]
         IN  /\ Good(t, n) /\ Capacity(t) = Capacity(s)
             /\ View(t) = [r \in Ids |-> IF r \in {id} THEN [View(s)[r] EXCEPT !.active = TRUE]
                                         ELSE View(s)[r]]
  <1> DEFINE mark(e) == [e EXCEPT !.active = TRUE]
  <1>0. id \in Nat /\ s.base \in Nat /\ s.count \in Nat /\ find(s, id) \in Entries
    BY Contained DEF Ids, Good
  <1>1. \A e \in Entries : mark(e) \in Entries /\ mark(e).live = e.live
    BY DEF Entries
  <1>2. CASE id < s.base
    <2> DEFINE p == [s.sparse EXCEPT ![id] = mark(s.sparse[id])]
               t == [s EXCEPT !.sparse[id].active = TRUE]
    <2>1. id \in DOMAIN s.sparse
      BY <1>2 DEF contains
    <2>2. /\ DOMAIN t = {"slots", "head", "count", "base", "sparse"} /\ t.slots = s.slots
          /\ t.head = s.head /\ t.count = s.count /\ t.base = s.base /\ t.sparse = p
      BY <2>1 DEF Good
    <2> HIDE DEF t, mark
    <2>3. /\ DOMAIN p = DOMAIN s.sparse /\ p \in [DOMAIN s.sparse -> Entries]
          /\ p[id] = mark(s.sparse[id])
          /\ \A r \in DOMAIN p : r # id => p[r] = s.sparse[r]
          /\ \A r \in DOMAIN p : p[r].live
      BY <2>1, <1>1 DEF Good
    <2> HIDE DEF p
    <2>4. Capacity(t) = Capacity(s)
      BY <2>2 DEF Capacity
    <2>5. Good(t, n)
      BY <2>2, <2>3, <2>4 DEF Good
    <2>6. LiveSlots(t) = LiveSlots(s) /\ \A i : slot(t, i) = slot(s, i)
      BY <2>2, <2>4 DEF LiveSlots, slot, Index
    <2>7. ASSUME NEW r \in Ids
          PROVE  View(t)[r] = IF r \in {id} THEN mark(View(s)[r]) ELSE View(s)[r]
      BY <1>2, <2>1, <2>2, <2>3, <2>6 DEF View, contains, find
    <2>8. View(t) = [r \in Ids |-> IF r \in {id} THEN mark(View(s)[r]) ELSE View(s)[r]]
      BY <2>7 DEF View
    <2> QED
      BY <1>2, <2>4, <2>5, <2>8 DEF t, mark
  <1>3. CASE ~(id < s.base)
    <2> DEFINE x == Index(s, id - s.base)
               f == [s.slots EXCEPT ![x] = mark(s.slots[x])]
               t == [s EXCEPT !.slots[x].active = TRUE]
    <2>1. id - s.base \in 0 .. s.count - 1 /\ id - s.base \in LiveSlots(s)
      BY <1>0, <1>3, Contained
    <2>2. x \in 0 .. Capacity(s) - 1 /\ s.slots \in [0 .. Capacity(s) - 1 -> Entries]
      BY <2>1, Slots DEF Good
    <2> HIDE DEF x
    <2>3. /\ DOMAIN t = {"slots", "head", "count", "base", "sparse"} /\ t.slots = f
          /\ t.head = s.head /\ t.count = s.count /\ t.base = s.base /\ t.sparse = s.sparse
      BY <2>2 DEF Good
    <2> HIDE DEF t, mark
    <2>4. /\ DOMAIN f = 0 .. Capacity(s) - 1 /\ f \in [0 .. Capacity(s) - 1 -> Entries]
          /\ f[x] = mark(s.slots[x]) /\ s.slots[x] \in Entries
          /\ \A i \in DOMAIN f : i # x => f[i] = s.slots[i]
      BY <2>2, <1>1
    <2> HIDE DEF f
    <2>5. Capacity(t) = Capacity(s)
      BY <2>3, <2>4, Capacities DEF Good
    <2>6. Good(t, n)
      BY <2>3, <2>4, <2>5 DEF Good
    <2>7. ASSUME NEW i \in 0 .. s.count - 1
          PROVE  slot(t, i) = IF s.base + i = id THEN mark(slot(s, i)) ELSE slot(s, i)
      <3>1. Index(t, i) = Index(s, i)
        BY <2>3, <2>5 DEF Index
      <3>2. Index(s, i) \in 0 .. Capacity(s) - 1
        BY Slots
      <3>3. Index(s, i) = x <=> i = id - s.base
        BY <2>1, Slots DEF x
      <3>4. i = id - s.base <=> s.base + i = id
        BY <1>0
      <3> QED
        BY <3>1, <3>2, <3>3, <3>4, <2>3, <2>4 DEF slot
    <2>8. LiveSlots(t) = LiveSlots(s)
      <3>1. \A i \in 0 .. s.count - 1 : slot(s, i) \in Entries
        BY <2>2, Slots DEF slot
      <3>2. \A i \in 0 .. s.count - 1 : slot(t, i).live = slot(s, i).live
        BY <3>1, <2>7, <1>1
      <3> QED
        BY <3>2, <2>3 DEF LiveSlots
    <2>9. ASSUME NEW r \in Ids
          PROVE  View(t)[r] = IF r \in {id} THEN mark(View(s)[r]) ELSE View(s)[r]
      <3>1. contains(t, r) <=> contains(s, r)
        BY <2>3, <2>8 DEF contains
      <3>2. CASE r < s.base
        BY <3>1, <3>2, <1>3, <2>3 DEF View, find
      <3>3. CASE ~(r < s.base) /\ ~contains(s, r)
        BY <3>1, <3>3 DEF View
      <3>4. CASE ~(r < s.base) /\ contains(s, r)
        <4>1. r \in Nat /\ r - s.base \in 0 .. s.count - 1 /\ s.base + (r - s.base) = r
          BY <3>4, <1>0, Contained DEF Ids
        <4>2. find(t, r) = IF r = id THEN mark(find(s, r)) ELSE find(s, r)
          BY <3>4, <4>1, <2>3, <2>7 DEF find
        <4> QED
          BY <3>1, <3>4, <4>2 DEF View
      <3> QED
        BY <3>2, <3>3, <3>4
    <2>10. View(t) = [r \in Ids |-> IF r \in {id} THEN mark(View(s)[r]) ELSE View(s)[r]]
      BY <2>9 DEF View
    <2> QED
      BY <1>3, <2>5, <2>6, <2>10 DEF t, mark, x
  <1> QED
    BY <1>2, <1>3

\* end() leaves an empty store, of the same capacity.
LEMMA Empties ==
  ASSUME NEW s, NEW n \in Nat, Good(s, n)
  PROVE  LET t == [s EXCEPT !.sparse = [r \in {} |-> Entry],
                            !.slots = [i \in DOMAIN @ |->
                                IF \E k \in 0 .. s.count - 1 : i = Index(s, k) THEN Entry ELSE @[i]],
                            !.head = 0, !.count = 0, !.base = n + 1]
         IN  /\ Good(t, n) /\ Capacity(t) = Capacity(s) /\ View(t) = [r \in Ids |-> Entry]
  <1> DEFINE p == [r \in {} |-> Entry]
             f == [i \in DOMAIN s.slots |->
                      IF \E k \in 0 .. s.count - 1 : i = Index(s, k) THEN Entry ELSE s.slots[i]]
             t == [s EXCEPT !.sparse = [r \in {} |-> Entry],
                            !.slots = [i \in DOMAIN @ |->
                                IF \E k \in 0 .. s.count - 1 : i = Index(s, k) THEN Entry ELSE @[i]],
                            !.head = 0, !.count = 0, !.base = n + 1]
  <1>1. f \in [0 .. Capacity(s) - 1 -> Entries] /\ DOMAIN f = 0 .. Capacity(s) - 1
    BY DEF Good, Entry, Entries
  <1>2. /\ DOMAIN t = {"slots", "head", "count", "base", "sparse"} /\ t.slots = f
        /\ t.head = 0 /\ t.count = 0 /\ t.base = n + 1 /\ t.sparse = p
    BY DEF Good
  <1>3. DOMAIN p = {} /\ p \in [DOMAIN p -> Entries]
    OBVIOUS
  <1> HIDE DEF t, f, p
  <1>4. Capacity(t) = Capacity(s)
    BY <1>1, <1>2, Capacities DEF Good
  <1>5. Good(t, n)
    <2>1. Capacity(s) \in Nat /\ 0 \in 0 .. Capacity(s) /\ n + 1 \in Nat \ {0} /\ (n + 1) + 0 = n + 1
      BY DEF Good
    <2> QED
      BY <1>1, <1>2, <1>3, <1>4, <2>1 DEF Good
  <1>6. \A r \in Ids : ~contains(t, r)
    BY <1>2, <1>3 DEF contains, LiveSlots
  <1>7. View(t) = [r \in Ids |-> Entry]
    BY <1>6 DEF View
  <1> QED
    BY <1>4, <1>5, <1>7 DEF t

-----------------------------------------------------------------------------
(* How many requests are alive.                                              *)

\* Which ids are live is seen in the view.
LEMMA ViewLive ==
  ASSUME NEW s, NEW n \in Nat, Good(s, n)
  PROVE  /\ Live(s) = {r \in Ids : View(s)[r].live} /\ Live(s) \subseteq 1 .. n
         /\ IsFiniteSet(Live(s)) /\ Cardinality(Live(s)) \in Nat
  <1>1. Live(s) \subseteq 1 .. n
    BY Contained DEF Live, Ids
  <1>2. ASSUME NEW r \in Ids PROVE contains(s, r) <=> View(s)[r].live
    BY Contained DEF View, Entry, Ids
  <1>3. IsFiniteSet(1 .. n)
    BY FS_Interval
  <1>4. IsFiniteSet(Live(s)) /\ Cardinality(Live(s)) \in Nat
    BY <1>1, <1>3, FS_Subset, FS_CardinalityType
  <1> QED
    BY <1>1, <1>2, <1>4 DEF Live

\* The ring holds no more live slots than there are live requests.
LEMMA LiveInRing ==
  ASSUME NEW s, NEW n \in 0 .. MaxRequests, Good(s, n)
  PROVE  Cardinality(LiveSlots(s)) \in Nat /\ Cardinality(LiveSlots(s)) <= Cardinality(Live(s))
  <1> DEFINE L == LiveSlots(s)
             f == [i \in L |-> s.base + i]
  <1>1. n \in Nat /\ s.base \in Nat \ {0} /\ s.count \in Nat /\ s.base + s.count = n + 1
    BY RingAssumption DEF Good
  <1>2. L \subseteq 0 .. s.count - 1
    BY DEF LiveSlots
  <1>3. \A i \in L : s.base + i \in Live(s)
    <2>1. ASSUME NEW i \in L
          PROVE  s.base + i \in Ids /\ ~(s.base + i < s.base) /\ (s.base + i) - s.base = i
      BY <1>1, <1>2, RingAssumption DEF Ids
    <2> QED
      BY <2>1 DEF Live, contains
  <1>4. \A i, j \in L : s.base + i = s.base + j => i = j
    BY <1>1, <1>2
  <1> HIDE DEF L
  <1>5. f \in Injection(L, Live(s))
    BY <1>3, <1>4 DEF Injection, IsInjective
  <1>6. IsFiniteSet(Live(s))
    BY <1>1, ViewLive
  <1> HIDE DEF f
  <1>7. IsFiniteSet(L) /\ Cardinality(L) <= Cardinality(Live(s))
    BY <1>5, <1>6, FS_Injection
  <1>8. Cardinality(L) \in Nat
    BY <1>7, FS_CardinalityType
  <1> QED
    BY <1>7, <1>8 DEF L

\* make_room() makes room, and only a ring that is more than half live grows.
LEMMA MakesRoom ==
  ASSUME NEW s, Good(s, next_id), next_id \in 0 .. MaxRequests, s.count = Capacity(s)
  PROVE  LET t == make_room(s)
         IN  /\ Good(t, next_id) /\ View(t) = View(s) /\ t.count < Capacity(t)
             /\ \/ Capacity(t) = Capacity(s) \/ Capacity(t) = InitialSlots
                \/ Capacity(t) < 4 * (Cardinality(Live(s)) + 1)
  <1>0. next_id \in Nat /\ Capacity(s) \in Nat
    BY RingAssumption DEF Good
  <1>1. CASE Capacity(s) > 0 /\ Cardinality(LiveSlots(s)) <= s.count \div 2
    <2>1. make_room(s) = Detach(s)
      BY <1>1 DEF make_room
    <2> QED
      BY <1>0, <1>1, <2>1, Detaches
  <1>2. CASE ~(Capacity(s) > 0 /\ Cardinality(LiveSlots(s)) <= s.count \div 2)
    <2>1. make_room(s) = Grow(s)
      BY <1>2 DEF make_room
    <2>2. /\ Good(Grow(s), next_id) /\ View(Grow(s)) = View(s) /\ Grow(s).count < Capacity(Grow(s))
          /\ Capacity(Grow(s)) = IF Capacity(s) = 0 THEN InitialSlots ELSE 2 * Capacity(s)
      BY <1>0, Grows
    <2>3. Capacity(s) # 0 => 2 * Capacity(s) < 4 * (Cardinality(Live(s)) + 1)
      <3> DEFINE k == Capacity(s)
                 l == Cardinality(LiveSlots(s))
                 m == Cardinality(Live(s))
      <3>1. k \in Nat /\ l \in Nat /\ m \in Nat /\ l <= m
        BY <1>0, LiveInRing, ViewLive
      <3>2. k # 0 => ~(l <= k \div 2)
        BY <1>0, <1>2
      <3> HIDE DEF k, l, m
      <3>3. k # 0 => 2 * k < 4 * (m + 1)
        BY <3>1, <3>2
      <3> QED
        BY <3>3 DEF k, m
    <2> QED
      BY <2>1, <2>2, <2>3
  <1> QED
    BY <1>1, <1>2

-----------------------------------------------------------------------------
(* The invariant, and what each operation does to the map.                   *)

RInv ==
    /\ next_id \in 0 .. MaxRequests /\ peak \in Nat
    /\ Good(store, next_id)
    /\ Cardinality(Live(store)) <= peak
    /\ CapacityBounded

\* An operation that revives nothing and keeps the capacity keeps the invariant.
LEMMA Keeps ==
  ASSUME RInv, UNCHANGED <<next_id, peak>>, Good(store', next_id),
         Capacity(store') = Capacity(store),
         \A r \in Ids : View(store')[r].live => View(store)[r].live
  PROVE  RInv'
  <1>1. next_id \in Nat
    BY RingAssumption DEF RInv
  <1>2. Live(store') \subseteq Live(store)
    BY <1>1, ViewLive DEF RInv
  <1>3. Cardinality(Live(store')) <= Cardinality(Live(store))
    BY <1>1, <1>2, ViewLive, FS_Subset DEF RInv
  <1>4. Cardinality(Live(store')) \in Nat /\ Cardinality(Live(store)) \in Nat
    BY <1>1, ViewLive DEF RInv
  <1>5. Cardinality(Live(store')) <= peak
    BY <1>3, <1>4 DEF RInv
  <1> QED
    BY <1>5 DEF RInv, CapacityBounded

\* admit() adds the next id to the map.
LEMMA Admits ==
  ASSUME RInv, NEW tag \in Tags, admit(tag)
  PROVE  RInv' /\ Map!Admit(tag)
  <1> DEFINE s == IF store.count = Capacity(store) THEN make_room(store) ELSE store
             e == [live |-> TRUE, active |-> FALSE, tag |-> tag]
             m == Cardinality(Live(store))
  <1>1. /\ next_id \in 0 .. MaxRequests /\ next_id \in Nat /\ next_id \in 0 .. MaxRequests - 1
        /\ next_id' = next_id + 1 /\ next_id < MaxRequests
    BY RingAssumption DEF RInv, admit
  <1>2. /\ Good(s, next_id) /\ View(s) = View(store) /\ s.count < Capacity(s)
        /\ \/ Capacity(s) = Capacity(store) \/ Capacity(s) = InitialSlots
           \/ Capacity(s) < 4 * (m + 1)
    <2>1. Good(store, next_id)
      BY DEF RInv
    <2>2. store.count \in 0 .. Capacity(store) /\ Capacity(store) \in Nat
      BY <2>1 DEF Good
    <2>3. CASE store.count = Capacity(store)
      <3>1. s = make_room(store)
        BY <2>3
      <3> HIDE DEF s
      <3> QED
        BY <1>1, <2>1, <2>3, <3>1, MakesRoom
    <2>4. CASE store.count # Capacity(store)
      <3>1. s = store
        BY <2>4
      <3> HIDE DEF s
      <3> QED
        BY <2>1, <2>2, <2>4, <3>1
    <2> QED
      BY <2>3, <2>4
  <1>3. /\ store' = [s EXCEPT !.slots[Index(s, s.count)] = e, !.count = s.count + 1]
        /\ peak' = IF m + 1 > peak THEN m + 1 ELSE peak
    BY <1>2 DEF admit, Good
  <1>4. m \in Nat /\ peak \in Nat /\ m <= peak
    BY <1>1, ViewLive DEF RInv
  <1> HIDE DEF s, m
  <1>5. /\ Good(store', next_id + 1) /\ Capacity(store') = Capacity(s)
        /\ View(store') = [View(store) EXCEPT ![next_id + 1] = e]
    <2>1. e \in Entries /\ e.live
      BY DEF Entries
    <2> HIDE DEF e
    <2> QED
      <3>1. /\ next_id \in 0 .. MaxRequests - 1 /\ Good(s, next_id) /\ s.count < Capacity(s)
            /\ store' = Store(s, e)
        BY <1>1, <1>2, <1>3 DEF Store
      <3>2. /\ Good(store', next_id + 1) /\ Capacity(store') = Capacity(s)
            /\ View(store') = Insert(View(s), next_id + 1, e)
        BY ONLY <2>1, <3>1, Stores
      <3> QED
        BY <1>2, <3>2, Zenon DEF Insert
  <1>6. Map!Admit(tag)
    <2>1. next_id < MaxRequests /\ next_id' = next_id + 1
      BY <1>1
    <2> QED
      BY <1>5, <2>1, Zenon DEF Map!Admit, Map!Fresh, View
  <1>7. Live(store') = Live(store) \cup {next_id + 1} /\ next_id + 1 \notin Live(store)
    <2>1. next_id + 1 \in Ids /\ next_id + 1 \in Nat
      BY <1>1, RingAssumption DEF Ids
    <2>2. /\ Live(store) = {r \in Ids : View(store)[r].live}
          /\ Live(store') = {r \in Ids : View(store')[r].live}
          /\ Live(store) \subseteq 1 .. next_id
      BY <1>1, <1>5, <2>1, ViewLive DEF RInv
    <2>3. \A r \in Ids : View(store')[r] = IF r = next_id + 1 THEN e ELSE View(store)[r]
      BY <1>5 DEF View
    <2>4. e.live /\ next_id + 1 \notin 1 .. next_id
      BY <1>1
    <2> QED
      BY <2>1, <2>2, <2>3, <2>4
  <1>8. Cardinality(Live(store')) = m + 1
    BY <1>1, <1>7, ViewLive, FS_AddElement DEF RInv, m
  <1>9. peak' \in Nat /\ m + 1 <= peak' /\ peak <= peak'
    BY <1>3, <1>4
  <1>10. CapacityBounded'
    <2>1. Capacity(store) <= InitialSlots \/ Capacity(store) < 4 * peak
      BY DEF RInv, CapacityBounded
    <2>2. Capacity(store) \in Nat /\ Capacity(s) \in Nat /\ InitialSlots \in Nat
      BY <1>2, RingAssumption DEF RInv, Good
    <2>3. Capacity(s) <= InitialSlots \/ Capacity(s) < 4 * peak'
      BY <1>2, <1>4, <1>9, <2>1, <2>2
    <2> QED
      BY <1>5, <2>3 DEF CapacityBounded
  <1>11. /\ next_id' \in 0 .. MaxRequests /\ Good(store', next_id')
         /\ Cardinality(Live(store')) <= peak'
    <2>1. next_id + 1 \in 0 .. MaxRequests
      BY <1>1, RingAssumption
    <2>2. Good(store', next_id')
      BY <1>1, <1>5, Zenon
    <2> QED
      BY <1>1, <1>8, <1>9, <2>1, <2>2
  <1> QED
    BY <1>6, <1>9, <1>10, <1>11, Zenon DEF RInv

\* begin() activates one id.
LEMMA Begins ==
  ASSUME RInv, NEW id \in Ids, begin(id)
  PROVE  RInv' /\ Map!Activate({id}) /\ id \in Live(store)
  <1>1. next_id \in Nat /\ Good(store, next_id)
    BY RingAssumption DEF RInv
  <1>2. /\ Good(store', next_id) /\ Capacity(store') = Capacity(store)
        /\ View(store') = [r \in Ids |-> IF r \in {id} THEN [View(store)[r] EXCEPT !.active = TRUE]
                                         ELSE View(store)[r]]
    BY <1>1, Marks DEF begin
  <1>3. id \in Live(store) /\ UNCHANGED <<next_id, peak>>
    BY DEF begin, Live
  <1>4. Map!Activate({id})
    BY <1>2, <1>3, Zenon DEF Map!Activate, Map!Ids, Ids, View
  <1>5. \A r \in Ids : View(store')[r].live => View(store)[r].live
    <2>1. View(store)[id] \in Entries
      BY <1>1, Contained DEF begin, View, Ids
    <2>2. [View(store)[id] EXCEPT !.active = TRUE].live = View(store)[id].live
      BY <2>1 DEF Entries
    <2>3. \A r \in Ids : View(store')[r] = IF r = id THEN [View(store)[id] EXCEPT !.active = TRUE]
                                           ELSE View(store)[r]
      BY <1>2
    <2> QED
      BY <2>2, <2>3
  <1> QED
    BY <1>2, <1>3, <1>4, <1>5, Keeps

\* Whatever retires the live ids S, and compacts the ring or not.
LEMMA Retires ==
  ASSUME RInv, UNCHANGED <<next_id, peak>>, NEW S \in SUBSET Live(store),
         store' = Kill(store, S) \/ store' = compact(Kill(store, S))
  PROVE  RInv' /\ Map!Retire(S)
  <1>1. next_id \in Nat /\ Good(store, next_id)
    BY RingAssumption DEF RInv
  <1> DEFINE t == Kill(store, S)
  <1>2. /\ Good(t, next_id) /\ Capacity(t) = Capacity(store)
        /\ View(t) = [r \in Ids |-> IF r \in S THEN Entry ELSE View(store)[r]]
    <2>1. \A id \in S : id \in Nat /\ contains(store, id)
      BY DEF Live, Ids
    <2> QED
      BY <1>1, <2>1, Kills
  <1> HIDE DEF t
  <1>3. /\ Good(store', next_id) /\ Capacity(store') = Capacity(store)
        /\ View(store') = [r \in Ids |-> IF r \in S THEN Entry ELSE View(store)[r]]
    <2>1. store' = t \/ store' = compact(t)
      BY DEF t
    <2> QED
      BY <1>1, <1>2, <2>1, Compacts
  <1>4. Map!Retire(S)
    BY <1>3, Zenon DEF Map!Retire, Map!Ids, Map!Dead, Ids, View, Entry
  <1>5. \A r \in Ids : View(store')[r].live => View(store)[r].live
    BY <1>3 DEF Entry
  <1> QED
    BY <1>3, <1>4, <1>5, Keeps

\* end() retires every live id.
LEMMA Ends ==
  ASSUME RInv, end
  PROVE  RInv' /\ Map!Retire(Map!Live)
  <1>1. next_id \in Nat /\ Good(store, next_id)
    BY RingAssumption DEF RInv
  <1>2. /\ Good(store', next_id) /\ Capacity(store') = Capacity(store)
        /\ View(store') = [r \in Ids |-> Entry]
    BY <1>1, Empties DEF end
  <1>3. \A r \in Ids : View(store)[r].live \/ View(store)[r] = Entry
    BY <1>1, Contained DEF View, Ids
  <1>4. UNCHANGED <<next_id, peak>>
    BY DEF end
  <1>5. Map!Live = {r \in Ids : View(store)[r].live}
    BY DEF Map!Live, Map!Ids, Ids, View
  <1>6. View(store') = [r \in Ids |-> IF r \in Map!Live THEN Entry ELSE View(store)[r]]
    BY <1>2, <1>3, <1>5
  <1>7. Map!Retire(Map!Live)
    BY <1>4, <1>6, Zenon DEF Map!Retire, Map!Ids, Map!Dead, Ids, View, Entry
  <1>8. \A r \in Ids : View(store')[r].live => View(store)[r].live
    BY <1>2 DEF Entry
  <1> QED
    BY <1>2, <1>4, <1>7, <1>8, Keeps

\* What erase() and discard_waiting() retire is live.
LEMMA Retiring ==
  ASSUME RInv
  PROVE  /\ \A id \in Ids : erase(id) => RInv' /\ Map!Retire({id}) /\ {id} \subseteq Live(store)
         /\ \A tag \in Tags : discard_waiting(tag) =>
                RInv' /\ Map!Retire(Waiting(tag)) /\ Waiting(tag) \subseteq Live(store)
  <1>1. ASSUME NEW id \in Ids, erase(id)
        PROVE  RInv' /\ Map!Retire({id}) /\ {id} \subseteq Live(store)
    <2>1. {id} \in SUBSET Live(store)
      BY <1>1 DEF erase, Live
    <2>2. /\ store' = Kill(store, {id}) \/ store' = compact(Kill(store, {id}))
          /\ UNCHANGED <<next_id, peak>>
      BY <1>1 DEF erase
    <2> QED
      BY <2>1, <2>2, Retires
  <1>2. ASSUME NEW tag \in Tags, discard_waiting(tag)
        PROVE  RInv' /\ Map!Retire(Waiting(tag)) /\ Waiting(tag) \subseteq Live(store)
    <2>1. Waiting(tag) \in SUBSET Live(store)
      BY DEF Waiting
    <2> QED
      BY <1>2, <2>1, Retires DEF discard_waiting
  <1> QED
    BY <1>1, <1>2

-----------------------------------------------------------------------------
(* The theorems.                                                             *)

\* An empty store is good and shows the empty map.
LEMMA Starts ==
  ASSUME Init
  PROVE  RInv /\ Map!Init
  <1>1. /\ store.slots = [i \in {} |-> Entry] /\ store.sparse = [r \in {} |-> Entry]
        /\ store.head = 0 /\ store.count = 0 /\ store.base = 1
        /\ DOMAIN store = {"slots", "head", "count", "base", "sparse"}
        /\ next_id = 0 /\ peak = 0
    BY DEF Init
  <1>2. DOMAIN store.slots = 0 .. 0 - 1 /\ DOMAIN store.sparse = {}
    BY <1>1
  <1>3. Capacity(store) = 0
    BY <1>2, Capacities
  <1>4. store.slots \in [0 .. Capacity(store) - 1 -> Entries]
    BY <1>1, <1>2, <1>3
  <1>5. Good(store, next_id)
    BY <1>1, <1>2, <1>3, <1>4 DEF Good
  <1>6. LiveSlots(store) = {}
    BY <1>1 DEF LiveSlots
  <1>7. \A r \in Ids : ~contains(store, r)
    BY <1>1, <1>2, <1>6 DEF contains
  <1>8. Live(store) = {}
    BY <1>7 DEF Live
  <1>9. Cardinality(Live(store)) = 0
    BY <1>8, FS_EmptySet
  <1>10. Map!Init
    BY <1>1, <1>7, Zenon DEF Map!Init, Map!Ids, Map!Dead, Ids, Entry
  <1> QED
    BY <1>1, <1>3, <1>5, <1>9, <1>10, RingAssumption DEF RInv, CapacityBounded

\* Every step keeps the invariant, is a step of the map, and does to the map
\* what its operation promises.
LEMMA Steps ==
  ASSUME RInv, Next
  PROVE  RInv' /\ Map!Next
  <1>1. Map!Live = Live(store)
    <2>1. \A r \in Ids : View(store)[r].live <=> contains(store, r)
      <3>1. next_id \in Nat /\ Good(store, next_id)
        BY RingAssumption DEF RInv
      <3>2. Live(store) = {r \in Ids : View(store)[r].live}
        BY <3>1, ViewLive
      <3> QED
        BY <3>2 DEF Live
    <2> QED
      BY <2>1 DEF Map!Live, Map!Ids, Ids, View, Live
  <1>2. ASSUME NEW tag \in Tags, admit(tag)
        PROVE  RInv' /\ Map!Next
    <2>1. RInv' /\ Map!Admit(tag)
      BY <1>2, Admits
    <2> QED
      BY <2>1, Zenon DEF Map!Next
  <1>3. ASSUME NEW tag \in Tags, discard_waiting(tag)
        PROVE  RInv' /\ Map!Next
    <2>1. RInv' /\ Map!Retire(Waiting(tag)) /\ Waiting(tag) \in SUBSET Map!Live
      BY <1>1, <1>3, Retiring
    <2> QED
      BY <2>1, Zenon DEF Map!Next
  <1>4. ASSUME NEW id \in Ids, begin(id)
        PROVE  RInv' /\ Map!Next
    <2>1. RInv' /\ Map!Activate({id}) /\ {id} \in SUBSET Map!Live
      BY <1>1, <1>4, Begins
    <2> QED
      BY <2>1, Zenon DEF Map!Next
  <1>5. ASSUME NEW id \in Ids, erase(id)
        PROVE  RInv' /\ Map!Next
    <2>1. RInv' /\ Map!Retire({id}) /\ {id} \in SUBSET Map!Live
      BY <1>1, <1>5, Retiring
    <2> QED
      BY <2>1, Zenon DEF Map!Next
  <1>6. CASE end
    <2>1. RInv' /\ Map!Retire(Map!Live) /\ Map!Live \in SUBSET Map!Live
      BY <1>6, Ends
    <2> QED
      BY <2>1, Zenon DEF Map!Next
  <1> QED
    BY <1>2, <1>3, <1>4, <1>5, <1>6 DEF Next

\* A step that leaves the store alone leaves the map alone.
LEMMA Idles ==
  ASSUME RInv, UNCHANGED vars
  PROVE  /\ RInv'
         /\ UNCHANGED <<[r \in Ids |-> IF contains(store, r) THEN find(store, r) ELSE Entry], next_id>>
  <1>1. store' = store /\ next_id' = next_id /\ peak' = peak
    BY DEF vars
  <1>2. RInv'
    BY <1>1, Zenon DEF RInv, CapacityBounded
  <1>3. View(store') = View(store)
    BY <1>1
  <1>4. [r \in Ids |-> IF contains(store, r) THEN find(store, r) ELSE Entry]' = View(store')
    BY Zenon DEF View
  <1> QED
    BY <1>1, <1>2, <1>3, <1>4, Zenon DEF View

\* The store stays well formed whatever is admitted, begun, erased, discarded
\* and ended, at any initial capacity.
THEOREM RingInvariance == Spec => []RInv
  <1>1. Init => RInv
    BY Starts
  <1>2. RInv /\ [Next]_vars => RInv'
    BY Steps, Idles
  <1> QED
    BY <1>1, <1>2, PTL DEF Spec

\* make_room() keeps the ring's capacity under four times the most requests
\* ever live at once, or at its first size.
THEOREM RingBounded == Spec => []CapacityBounded
  <1>1. RInv => CapacityBounded
    BY DEF RInv
  <1> QED
    BY <1>1, RingInvariance, PTL

\* Ring and sparse map together, read through find(), implement the map of
\* requests that the accounting is written against.
THEOREM RingImplementsMap == Spec => ImplementsMap
  <1> DEFINE e == [r \in Ids |-> IF contains(store, r) THEN find(store, r) ELSE Entry]
  <1>1. Init => Map!Init
    BY Starts
  <1>2. RInv /\ [Next]_vars => [Map!Next]_<<e, next_id>>
    BY Steps, Idles, Zenon
  <1> QED
    BY <1>1, <1>2, RingInvariance, PTL DEF Spec, ImplementsMap, Map!Spec

\* Each operation of the store does exactly its part of the map: admit() adds
\* the next id, begin() marks one, erase(), discard_waiting() and end() retire
\* the ids they are asked to and no other.
THEOREM RingOperationsExact == Spec => OperationsExact
  <1> DEFINE A == /\ \A tag \in Tags : admit(tag) => Map!Admit(tag)
                  /\ \A id \in Ids : begin(id) => Map!Activate({id})
                  /\ \A id \in Ids : erase(id) => Map!Retire({id})
                  /\ \A tag \in Tags : discard_waiting(tag) => Map!Retire(Waiting(tag))
                  /\ end => Map!Retire(Map!Live)
  <1>1. RInv => A
    BY Admits, Begins, Retiring, Ends
  <1>2. RInv => [A]_vars
    BY <1>1
  <1> HIDE DEF A
  <1>3. Spec => [][A]_vars
    BY <1>2, RingInvariance, PTL
  <1> QED
    BY <1>3 DEF OperationsExact, A
=============================================================================
