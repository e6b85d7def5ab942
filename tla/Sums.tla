-------------------------------- MODULE Sums --------------------------------
(***************************************************************************)
(* The sum of a sequence of numbers.  The byte counters and the totals of  *)
(* the program are compared with it.                                       *)
(***************************************************************************)
EXTENDS Naturals, Sequences

Total(s) ==
    LET sum[i \in 0 .. Len(s)] == IF i = 0 THEN 0 ELSE sum[i - 1] + s[i]
    IN  sum[Len(s)]
=============================================================================
