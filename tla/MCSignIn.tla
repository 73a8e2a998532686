------------------------------ MODULE MCSignIn ------------------------------
(* One account and the requests about it on small instances. *)
EXTENDS SignIn
=============================================================================
