------------------------------ MODULE MCCounter ------------------------------
(* The counter on small instances: handlers are interchangeable, and so are orders. *)
EXTENDS Counter, TLC

Handlers == Permutations(Proc)
HandlersAndOrders == Permutations(Proc) \cup Permutations(Order)
=============================================================================
