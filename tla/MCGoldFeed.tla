----------------------------- MODULE MCGoldFeed -----------------------------
(* The feed, its job and two override requests. *)
EXTENDS GoldFeed
=============================================================================
