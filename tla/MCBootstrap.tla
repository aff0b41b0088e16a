----------------------------- MODULE MCBootstrap -----------------------------
(* The instance of Bootstrap for TLC; its constants are in Bootstrap.cfg. *)
EXTENDS Bootstrap
=============================================================================
