---------------------------- MODULE MCVblankNmi ----------------------------
(* VblankNmi for TLC, with the constants of the configurations. *)
EXTENDS VblankNmi
=============================================================================
