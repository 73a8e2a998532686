--------------------------- MODULE MCGeneralLedger ---------------------------
(* A small instance of GeneralLedger for TLC.  The run has a liveness property, *)
(* and so no symmetry.                                                          *)
EXTENDS GeneralLedger
=============================================================================
