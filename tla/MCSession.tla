----------------------------- MODULE MCSession -----------------------------
(* Session for TLC, with the constants of the configurations. *)
EXTENDS Session
=============================================================================
