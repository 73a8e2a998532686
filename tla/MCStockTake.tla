----------------------------- MODULE MCStockTake -----------------------------
(* Stock takes on small instances: handlers are interchangeable. *)
EXTENDS StockTake, TLC

Handlers == Permutations(Proc)
=============================================================================
