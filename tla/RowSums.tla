------------------------------ MODULE RowSums ------------------------------
(***************************************************************************)
(* Adding up the lines of a document and the entries of a journal.         *)
(***************************************************************************)
EXTENDS Integers, Sequences

\* The sum of the first n of a row of numbers, and of F over a sequence.
SumTo(v, n) ==
  LET sum[i \in 0..n] == IF i = 0 THEN 0 ELSE sum[i - 1] + v[i] IN sum[n]
Total(seq, F(_)) == SumTo([i \in DOMAIN seq |-> F(seq[i])], Len(seq))
=============================================================================
