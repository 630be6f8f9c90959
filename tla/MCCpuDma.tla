------------------------------ MODULE MCCpuDma ------------------------------
(* CpuDma for TLC. *)
EXTENDS CpuDma
=============================================================================
