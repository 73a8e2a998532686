------------------------------ MODULE MCGoldLots ------------------------------
(* Gold lots on small instances: handlers are interchangeable. *)
EXTENDS GoldLots, TLC

Handlers == Permutations(Proc)
=============================================================================
