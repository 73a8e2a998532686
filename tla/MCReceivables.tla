---------------------------- MODULE MCReceivables ----------------------------
(* Invoices, bills and settlements on small instances. *)
EXTENDS Receivables, TLC

\* Handlers run the same code.
Handlers == Permutations(Proc)
=============================================================================
