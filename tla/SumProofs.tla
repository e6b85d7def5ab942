------------------------------ MODULE SumProofs ------------------------------
(***************************************************************************)
(* What the sum of a sequence of natural numbers is after the sequence is  *)
(* extended, shortened, joined with another or changed in one place.       *)
(*                                                                         *)
(* Total is a recursive function, so each fact needs an induction.  Only   *)
(* one is made, over the partial sums: they exist, and any function that   *)
(* satisfies their recursion ends in the total.  The other facts exhibit   *)
(* the partial sums of the changed sequence.                               *)
(***************************************************************************)
EXTENDS Sums, TLAPS, FiniteSetTheorems

Below == {r \in Nat \X Nat : r[1] < r[2]}

\* The naturals are well-founded.
LEMMA BelowWellFounded == IsWellFoundedOn(Below, Nat)
  <1>1. OpToRel(<, Nat) = Below
    BY DEF OpToRel, Below
  <1>2. QED
    BY <1>1, NatLessThanWellFounded

\* A set of naturals that is not empty has a least element.
LEMMA Least ==
  ASSUME NEW T, T \subseteq Nat, T # {}
  PROVE  \E x \in T : \A y \in T : x <= y
  <1>1. PICK x \in T : \A y \in T : ~ (<<y, x>> \in Below)
    BY BelowWellFounded, WFMin, Zenon
  <1>2. \A y \in T : ~ (y < x)
    BY <1>1 DEF Below
  <1>3. QED
    BY <1>2

\* A set of naturals that contains 0, and with each number below a bound its
\* successor, contains every number up to the bound.
LEMMA Climb ==
  ASSUME NEW n \in Nat, NEW T, 0 \in T, \A i \in 0 .. n - 1 : i \in T => i + 1 \in T
  PROVE  \A i \in 0 .. n : i \in T
  <1> DEFINE C == {i \in 0 .. n : i \notin T}
  <1>1. SUFFICES ASSUME C # {} PROVE FALSE
    OBVIOUS
  <1>2. PICK x \in C : \A y \in C : x <= y
    <2>1. C \subseteq Nat
      OBVIOUS
    <2> HIDE DEF C
    <2>2. QED
      BY <1>1, <2>1, Least
  <1>3. x # 0 /\ x - 1 \in 0 .. n - 1 /\ x - 1 \notin C
    BY <1>2
  <1>4. x - 1 \in T
    BY <1>3
  <1>5. (x - 1) + 1 \in T /\ (x - 1) + 1 = x
    BY <1>3, <1>4
  <1>6. QED
    BY <1>5

\* p holds the partial sums of s up to the n-th.
Partial(p, s, n) ==
    /\ p \in [0 .. n -> Int]
    /\ p[0] = 0
    /\ \A i \in 1 .. n : p[i] = p[i - 1] + s[i]

\* There are partial sums, and they are natural numbers.
LEMMA PartialExists ==
  ASSUME NEW s \in Seq(Nat)
  PROVE  \E p \in [0 .. Len(s) -> Nat] : Partial(p, s, Len(s))
  <1> DEFINE P(n) == \E p \in [0 .. n -> Nat] : Partial(p, s, n)
             T == {n \in Nat : P(n)}
  <1>1. 0 \in T
    <2>1. [i \in 0 .. 0 |-> 0] \in [0 .. 0 -> Nat] /\ Partial([i \in 0 .. 0 |-> 0], s, 0)
      BY DEF Partial
    <2>2. QED
      BY <2>1
  <1>2. ASSUME NEW n \in 0 .. Len(s) - 1, n \in T
        PROVE  n + 1 \in T
    <2>1. PICK p \in [0 .. n -> Nat] : Partial(p, s, n)
      BY <1>2
    <2>2. s[n + 1] \in Nat /\ n \in Nat
      OBVIOUS
    <2> DEFINE q == [i \in 0 .. n + 1 |-> IF i <= n THEN p[i] ELSE p[n] + s[n + 1]]
    <2>3. q \in [0 .. n + 1 -> Nat]
      <3>1. p[n] + s[n + 1] \in Nat /\ \A i \in 0 .. n : p[i] \in Nat
        BY <2>1, <2>2
      <3>2. QED
        BY <3>1, <2>2
    <2>4. (\A i \in 0 .. n : q[i] = p[i]) /\ q[n + 1] = p[n] + s[n + 1]
      BY <2>2
    <2> HIDE DEF q
    <2>5. \A i \in 1 .. n + 1 : q[i] = q[i - 1] + s[i]
      <3>1. ASSUME NEW i \in 1 .. n PROVE q[i] = q[i - 1] + s[i]
        <4>1. i \in 0 .. n /\ i - 1 \in 0 .. n
          BY <2>2
        <4>2. QED
          BY <2>1, <2>4, <4>1 DEF Partial
      <3>2. q[n + 1] = q[(n + 1) - 1] + s[n + 1]
        BY <2>2, <2>4
      <3>3. QED
        BY <2>2, <3>1, <3>2
    <2>8. q[0] = 0
      BY <2>1, <2>2, <2>4 DEF Partial
    <2>6. Partial(q, s, n + 1)
      BY <2>3, <2>5, <2>8 DEF Partial
    <2>7. P(n + 1)
      BY <2>3, <2>6, Zenon
    <2>9. n + 1 \in Nat
      BY <2>2
    <2>10. QED
      BY <2>7, <2>9
  <1>3. \A n \in 0 .. Len(s) : n \in T
    <2>1. Len(s) \in Nat
      OBVIOUS
    <2> HIDE DEF T
    <2>2. QED
      BY <1>1, <1>2, <2>1, Climb
  <1>4. QED
    BY <1>3

\* Two functions that satisfy the recursion agree.
LEMMA PartialUnique ==
  ASSUME NEW s, NEW n \in Nat, NEW p, NEW q, Partial(p, s, n), Partial(q, s, n)
  PROVE  p = q
  <1> DEFINE T == {i \in 0 .. n : p[i] = q[i]}
  <1>1. 0 \in T
    BY DEF Partial
  <1>2. ASSUME NEW i \in 0 .. n - 1, i \in T PROVE i + 1 \in T
    <2>1. i + 1 \in 1 .. n /\ (i + 1) - 1 = i
      OBVIOUS
    <2>2. p[i + 1] = p[(i + 1) - 1] + s[i + 1] /\ q[i + 1] = q[(i + 1) - 1] + s[i + 1]
      BY <2>1 DEF Partial
    <2>3. QED
      BY <1>2, <2>1, <2>2
  <1>3. \A i \in 0 .. n : i \in T
    <2> HIDE DEF T
    <2> QED
      BY <1>1, <1>2, Climb
  <1>4. QED
    BY <1>3 DEF Partial

\* Whatever satisfies the recursion ends in the total.
LEMMA TotalPartial ==
  ASSUME NEW s \in Seq(Nat), NEW p, Partial(p, s, Len(s))
  PROVE  Total(s) = p[Len(s)]
  <1> DEFINE R(g) == g = [i \in 0 .. Len(s) |-> IF i = 0 THEN 0 ELSE g[i - 1] + s[i]]
             c == CHOOSE g : R(g)
  <1>1. Total(s) = c[Len(s)]
    BY Zenon DEF Total
  <1>2. Len(s) \in Nat /\ \A i \in 1 .. Len(s) : s[i] \in Nat
    OBVIOUS
  <1>3. R(p)
    BY <1>2 DEF Partial
  <1>4. R(c)
    BY <1>3
  <1>5. c = p
    <2> DEFINE T == {i \in 0 .. Len(s) : c[i] = p[i]}
    <2> HIDE DEF c
    <2>1. 0 \in T
      BY <1>2, <1>4 DEF Partial
    <2>2. ASSUME NEW i \in 0 .. Len(s) - 1, i \in T PROVE i + 1 \in T
      <3>1. i + 1 \in 1 .. Len(s) /\ (i + 1) - 1 = i
        BY <1>2
      <3>2. p[i + 1] = p[(i + 1) - 1] + s[i + 1]
        BY <3>1 DEF Partial
      <3>3. c[i + 1] = c[(i + 1) - 1] + s[i + 1]
        BY <1>2, <1>4, <3>1
      <3>4. QED
        BY <1>2, <2>2, <3>1, <3>2, <3>3
    <2>3. \A i \in 0 .. Len(s) : i \in T
      <3> HIDE DEF T
      <3> QED
        BY <1>2, <2>1, <2>2, Climb
    <2>4. QED
      BY <1>3, <1>4, <2>3
  <1>6. QED
    BY <1>1, <1>5
-----------------------------------------------------------------------------
\* A total with its partial sums.
LEMMA TotalSums ==
  ASSUME NEW s \in Seq(Nat)
  PROVE  \E p \in [0 .. Len(s) -> Nat] : Partial(p, s, Len(s)) /\ Total(s) = p[Len(s)]
  BY PartialExists, TotalPartial

\* A total is a natural number.
LEMMA TotalType ==
  ASSUME NEW s \in Seq(Nat)
  PROVE  Total(s) \in Nat
  <1>1. PICK p \in [0 .. Len(s) -> Nat] : Total(s) = p[Len(s)]
    BY TotalSums
  <1>2. Len(s) \in 0 .. Len(s)
    OBVIOUS
  <1>3. QED
    BY <1>1, <1>2

\* Nothing adds up to nothing.
LEMMA TotalZero ==
  ASSUME NEW s \in Seq(Nat), \A i \in 1 .. Len(s) : s[i] = 0
  PROVE  Total(s) = 0
  <1> DEFINE p == [i \in 0 .. Len(s) |-> 0]
  <1>1. Partial(p, s, Len(s))
    BY DEF Partial
  <1>2. p[Len(s)] = 0
    OBVIOUS
  <1> HIDE DEF p
  <1>3. QED
    BY <1>1, <1>2, TotalPartial

\* Nothing adds up to nothing.
LEMMA TotalEmpty == Total(<<>>) = 0
  <1> DEFINE e == << >>
  <1>1. e \in Seq(Nat) /\ \A i \in 1 .. Len(e) : e[i] = 0
    OBVIOUS
  <1> HIDE DEF e
  <1>2. Total(e) = 0
    BY <1>1, TotalZero
  <1>3. QED
    BY <1>2 DEF e

\* The total of two sequences added term by term.
LEMMA TotalPlus ==
  ASSUME NEW s \in Seq(Nat), NEW t \in Seq(Nat), NEW u \in Seq(Nat),
         Len(t) = Len(s), Len(u) = Len(s),
         \A i \in 1 .. Len(s) : u[i] = s[i] + t[i]
  PROVE  Total(u) = Total(s) + Total(t)
  <1> DEFINE n == Len(s)
  <1>1. PICK p \in [0 .. n -> Nat] : Partial(p, s, n) /\ Total(s) = p[n]
    BY TotalSums
  <1>2. PICK q \in [0 .. n -> Nat] : Partial(q, t, n) /\ Total(t) = q[n]
    BY TotalSums
  <1>3. n \in Nat /\ n \in 0 .. n
    OBVIOUS
  <1>4. \A i \in 1 .. n : s[i] \in Nat /\ t[i] \in Nat
    OBVIOUS
  <1> DEFINE r == [i \in 0 .. n |-> p[i] + q[i]]
  <1>5. Partial(r, u, n)
    <2>1. r \in [0 .. n -> Int] /\ r[0] = 0
      BY <1>1, <1>2, <1>3 DEF Partial
    <2>2. ASSUME NEW i \in 1 .. n PROVE r[i] = r[i - 1] + u[i]
      <3>1. i \in 0 .. n /\ i - 1 \in 0 .. n
        BY <1>3
      <3>2. p[i] = p[i - 1] + s[i] /\ q[i] = q[i - 1] + t[i]
        BY <1>1, <1>2 DEF Partial
      <3>3. p[i - 1] \in Nat /\ q[i - 1] \in Nat /\ s[i] \in Nat /\ t[i] \in Nat
        BY <1>4, <3>1
      <3>4. u[i] = s[i] + t[i] /\ r[i] = p[i] + q[i] /\ r[i - 1] = p[i - 1] + q[i - 1]
        BY <3>1
      <3> HIDE DEF r, n
      <3>5. QED
        BY ONLY <3>2, <3>3, <3>4
    <2>3. QED
      BY <2>1, <2>2 DEF Partial
  <1>6. r[n] = Total(s) + Total(t)
    BY <1>1, <1>2, <1>3
  <1> HIDE DEF r
  <1>7. QED
    BY <1>5, <1>6, TotalPartial

\* Two sequences one after the other.
LEMMA TotalConcat ==
  ASSUME NEW s \in Seq(Nat), NEW t \in Seq(Nat)
  PROVE  Total(s \o t) = Total(s) + Total(t)
  <1> DEFINE m == Len(s)
             n == Len(t)
             u == s \o t
  <1>1. PICK p \in [0 .. m -> Nat] : Partial(p, s, m) /\ Total(s) = p[m]
    BY TotalSums
  <1>2. PICK q \in [0 .. n -> Nat] : Partial(q, t, n) /\ Total(t) = q[n]
    BY TotalSums
  <1>3. m \in Nat /\ n \in Nat /\ u \in Seq(Nat) /\ Len(u) = m + n
    OBVIOUS
  <1>4. /\ \A i \in 1 .. m : u[i] = s[i]
        /\ \A i \in m + 1 .. m + n : u[i] = t[i - m] /\ t[i - m] \in Nat
    OBVIOUS
  <1> HIDE DEF u, m, n
  <1> DEFINE r == [i \in 0 .. m + n |-> IF i <= m THEN p[i] ELSE p[m] + q[i - m]]
  <1>5. \A i \in 0 .. m : p[i] \in Nat
    OBVIOUS
  <1>6. \A i \in m .. m + n : i - m \in 0 .. n /\ q[i - m] \in Nat
    BY <1>3
  <1>7. p[0] = 0 /\ q[0] = 0
    BY <1>1, <1>2 DEF Partial
  <1>8. /\ \A i \in 0 .. m : r[i] = p[i]
        /\ \A i \in m .. m + n : r[i] = p[m] + q[i - m]
    <2>1. ASSUME NEW i \in 0 .. m PROVE r[i] = p[i]
      BY <1>3
    <2>2. ASSUME NEW i \in m + 1 .. m + n PROVE r[i] = p[m] + q[i - m]
      BY <1>3
    <2>3. r[m] = p[m] + q[m - m]
      <3>1. r[m] = p[m] /\ p[m] \in Nat /\ m - m = 0
        BY <1>3, <1>5, <2>1
      <3> HIDE DEF r
      <3>2. QED
        BY <1>7, <3>1
    <2> HIDE DEF r
    <2>4. ASSUME NEW i \in m .. m + n PROVE r[i] = p[m] + q[i - m]
      <3>1. i = m \/ i \in m + 1 .. m + n
        BY <1>3
      <3>2. QED
        BY <2>2, <2>3, <3>1
    <2>5. QED
      BY <2>1, <2>4
  <1>9. r \in [0 .. m + n -> Int]
    BY <1>3, <1>5, <1>6
  <1> HIDE DEF r
  <1>10. \A i \in 1 .. m + n : r[i] = r[i - 1] + u[i]
    <2>1. ASSUME NEW i \in 1 .. m PROVE r[i] = r[i - 1] + u[i]
      <3>1. i \in 0 .. m /\ i - 1 \in 0 .. m
        BY <1>3
      <3>2. QED
        BY <1>1, <1>4, <1>8, <3>1 DEF Partial
    <2>2. ASSUME NEW i \in m + 1 .. m + n PROVE r[i] = r[i - 1] + u[i]
      <3>1. i \in m .. m + n /\ i - 1 \in m .. m + n /\ i - m \in 1 .. n
            /\ (i - 1) - m = (i - m) - 1
        BY <1>3
      <3>2. q[i - m] = q[(i - m) - 1] + t[i - m]
        BY <1>2, <3>1 DEF Partial
      <3>3. q[(i - m) - 1] \in Nat /\ p[m] \in Nat /\ t[i - m] \in Nat
        <4>1. q[(i - 1) - m] \in Nat
          BY <1>6, <3>1
        <4>2. p[m] \in Nat
          BY <1>3, <1>5
        <4>3. QED
          BY <1>4, <3>1, <4>1, <4>2
      <3>4. r[i] = p[m] + q[i - m] /\ r[i - 1] = p[m] + q[(i - m) - 1]
        BY <1>8, <3>1
      <3>5. u[i] = t[i - m]
        BY <1>4
      <3>6. QED
        BY <3>2, <3>3, <3>4, <3>5
    <2>3. QED
      BY <1>3, <2>1, <2>2
  <1>11. r[0] = 0 /\ r[m + n] = p[m] + q[n]
    <2>1. 0 \in 0 .. m /\ m + n \in m .. m + n /\ (m + n) - m = n
      BY <1>3
    <2>2. QED
      BY <1>7, <1>8, <2>1
  <1>12. Partial(r, u, Len(u))
    BY <1>3, <1>9, <1>10, <1>11 DEF Partial
  <1>13. QED
    BY <1>1, <1>2, <1>3, <1>11, <1>12, TotalPartial DEF u

\* One term.
LEMMA TotalOne ==
  ASSUME NEW e \in Nat
  PROVE  Total(<<e>>) = e
  <1> DEFINE p == [i \in 0 .. 1 |-> IF i = 0 THEN 0 ELSE e]
  <1>1. <<e>> \in Seq(Nat) /\ Len(<<e>>) = 1 /\ <<e>>[1] = e
    OBVIOUS
  <1>2. p \in [0 .. 1 -> Int] /\ p[0] = 0 /\ p[1] = e
    OBVIOUS
  <1> HIDE DEF p
  <1>3. \A i \in 1 .. 1 : p[i] = p[i - 1] + <<e>>[i]
    BY <1>1, <1>2
  <1>4. Partial(p, <<e>>, Len(<<e>>))
    BY <1>1, <1>2, <1>3 DEF Partial
  <1>5. QED
    BY <1>1, <1>2, <1>4, TotalPartial

\* A term more at the end.
LEMMA TotalAppend ==
  ASSUME NEW s \in Seq(Nat), NEW e \in Nat
  PROVE  Total(Append(s, e)) = Total(s) + e
  <1>1. Append(s, e) = s \o <<e>> /\ <<e>> \in Seq(Nat)
    OBVIOUS
  <1>2. QED
    BY <1>1, TotalConcat, TotalOne

\* The first term, and the others.
LEMMA TotalTail ==
  ASSUME NEW s \in Seq(Nat), s # <<>>
  PROVE  Total(s) = Head(s) + Total(Tail(s))
  <1>1. s = <<Head(s)>> \o Tail(s) /\ Tail(s) \in Seq(Nat)
        /\ Head(s) \in Nat /\ <<Head(s)>> \in Seq(Nat)
    OBVIOUS
  <1>2. QED
    BY <1>1, TotalConcat, TotalOne

\* One term replaced: by 0, the total loses it.
LEMMA TotalLess ==
  ASSUME NEW s \in Seq(Nat), NEW i \in 1 .. Len(s)
  PROVE  /\ [s EXCEPT ![i] = 0] \in Seq(Nat)
         /\ Total(s) = Total([s EXCEPT ![i] = 0]) + s[i]
  <1> DEFINE n == Len(s)
             z == [s EXCEPT ![i] = 0]
             one == [j \in 1 .. n |-> IF j = i THEN s[i] ELSE 0]
             p == [j \in 0 .. n |-> IF j < i THEN 0 ELSE s[i]]
  <1>1. n \in Nat /\ s[i] \in Nat /\ i \in 1 .. n
    OBVIOUS
  <1>2. z \in Seq(Nat) /\ Len(z) = n /\ one \in Seq(Nat) /\ Len(one) = n
    OBVIOUS
  <1>3. \A j \in 1 .. n : s[j] = z[j] + one[j]
    OBVIOUS
  <1>4. Total(s) = Total(z) + Total(one)
    <2> HIDE DEF z, one
    <2> QED
      BY <1>2, <1>3, TotalPlus
  <1>5. Total(one) = s[i]
    <2>1. p \in [0 .. n -> Int] /\ p[0] = 0 /\ p[n] = s[i]
      BY <1>1
    <2>2. \A j \in 1 .. n : p[j] = p[j - 1] + one[j]
      <3>1. ASSUME NEW j \in 1 .. n PROVE p[j] = p[j - 1] + one[j]
        <4>1. CASE j < i
          BY <1>1, <4>1
        <4>2. CASE j = i
          BY <1>1, <4>2
        <4>3. CASE j > i
          BY <1>1, <4>3
        <4>4. QED
          BY <1>1, <4>1, <4>2, <4>3
      <3>2. QED
        BY <3>1
    <2> HIDE DEF p, one
    <2>3. Partial(p, one, Len(one))
      BY <1>2, <2>1, <2>2 DEF Partial
    <2>4. QED
      BY <1>2, <2>1, <2>3, TotalPartial
  <1> HIDE DEF one
  <1>6. QED
    BY <1>2, <1>4, <1>5

-----------------------------------------------------------------------------
(* How many there are.                                                     *)

\* One for each member of a set adds up to their number.
LEMMA OnesTotal ==
  ASSUME NEW n \in Nat, NEW X, X \subseteq 1 .. n, NEW s, s \in Seq(Nat), Len(s) = n,
         \A i \in 1 .. n : s[i] = IF i \in X THEN 1 ELSE 0
  PROVE  Total(s) = Cardinality(X)
  <1> DEFINE Y(i) == X \cap (1 .. i)
             p == [i \in 0 .. n |-> Cardinality(Y(i))]
  <1>1. \A i \in 0 .. n : IsFiniteSet(Y(i)) /\ Cardinality(Y(i)) \in Nat
    <2>1. TAKE i \in 0 .. n
    <2>2. IsFiniteSet(1 .. i)
      BY FS_Interval
    <2>3. IsFiniteSet(Y(i))
      BY <2>2, FS_Subset
    <2> QED
      BY <2>3, FS_CardinalityType
  <1>2. /\ p = [i \in 0 .. n |-> p[i]]
        /\ \A i \in 0 .. n : p[i] = Cardinality(Y(i))
    OBVIOUS
  <1> HIDE DEF p
  <1>3. p[0] = 0
    <2>1. Y(0) = {}
      OBVIOUS
    <2> QED
      BY <1>2, <2>1, FS_EmptySet
  <1>4. ASSUME NEW i \in 1 .. n PROVE p[i] = p[i - 1] + s[i]
    <2>1. i - 1 \in 0 .. n /\ i \in 0 .. n /\ i \notin Y(i - 1)
      OBVIOUS
    <2>2. IsFiniteSet(Y(i - 1)) /\ Cardinality(Y(i - 1)) \in Nat
      BY <1>1, <2>1
    <2>3. CASE i \in X
      <3>1. Y(i) = Y(i - 1) \cup {i}
        BY <2>1, <2>3
      <3>2. Cardinality(Y(i)) = Cardinality(Y(i - 1)) + 1
        BY <2>1, <2>2, <3>1, FS_AddElement
      <3> QED
        BY <1>2, <2>1, <2>3, <3>2
    <2>4. CASE i \notin X
      <3>1. Y(i) = Y(i - 1)
        BY <2>1, <2>4
      <3> QED
        BY <1>2, <2>1, <2>2, <2>4, <3>1
    <2> QED
      BY <2>3, <2>4
  <1>5. Partial(p, s, n)
    <2>1. \A i \in 0 .. n : p[i] \in Int
      BY <1>1, <1>2
    <2>2. p \in [0 .. n -> Int]
      BY <1>2, <2>1
    <2> QED
      BY <1>3, <1>4, <2>2 DEF Partial
  <1>6. Y(n) = X
    OBVIOUS
  <1> QED
    BY <1>2, <1>5, <1>6, TotalPartial

\* The subsets of an interval are finite, and numbers measure them.
LEMMA Subsets ==
  ASSUME NEW n \in Nat, NEW X, X \subseteq 1 .. n
  PROVE  /\ Cardinality(X) \in Nat /\ (Cardinality(X) = 0 <=> X = {})
         /\ \A k \in X : Cardinality(X \ {k}) = Cardinality(X) - 1
         /\ Total([k \in 1 .. n |-> IF k \in X THEN 1 ELSE 0]) = Cardinality(X)
  <1> DEFINE one == [k \in 1 .. n |-> IF k \in X THEN 1 ELSE 0]
  <1>1. IsFiniteSet(1 .. n)
    BY FS_Interval
  <1>2. IsFiniteSet(X)
    BY <1>1, FS_Subset
  <1>3. Cardinality(X) \in Nat /\ (Cardinality(X) = 0 <=> X = {})
    BY <1>2, FS_CardinalityType, FS_EmptySet
  <1>4. \A k \in X : Cardinality(X \ {k}) = Cardinality(X) - 1
    BY <1>2, FS_RemoveElement
  <1>5. one \in Seq(Nat) /\ Len(one) = n /\ \A i \in 1 .. n : one[i] = IF i \in X THEN 1 ELSE 0
    OBVIOUS
  <1> HIDE DEF one
  <1>6. Total(one) = Cardinality(X)
    BY <1>5, OnesTotal
  <1> QED
    BY <1>3, <1>4, <1>6 DEF one
=============================================================================
