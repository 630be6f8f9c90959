------------------------------ MODULE MCVrcIrq ------------------------------
(* VrcIrq for TLC, with the constants of the configurations. *)
EXTENDS VrcIrq
=============================================================================
