------------------------------ MODULE BusCycles -----------------------------
(***************************************************************************)
(* What the instructions of the CPU promise to the rest of the console     *)
(* about the order of their bus cycles (src/src/cpu.rs: read, write;       *)
(* src/src/cpu/instr.rs).  The CPU can be stopped at a read only, so it    *)
(* matters how many writes come in a row, and a register of the APU or the *)
(* PPU sees a write only after a number of reads.                          *)
(*                                                                         *)
(* CpuDma runs this program; Instructions implements it.                   *)
(***************************************************************************)
EXTENDS Naturals

VARIABLES
  target,       (* Where the CPU is writing, for how many cycles in a row,  *)
  writes,       (*   and how many cycles it read before (ReadsKept at       *)
  reads         (*   most): what an instruction may do next.                *)

program_vars == <<target, writes, reads>>

Registers == {"$2003", "$4010", "$4011", "$4012", "$4013", "$4014", "$4015"}
Targets   == {"none", "ram"} \union Registers

(* Bound on reads, which stays there. *)
ReadsKept == 4

(* At least two reads before a push to the stack, three before a store to  *)
(* a register, four before a read-modify-write instruction writes a        *)
(* register twice.  An interrupt pushes three bytes in a row.              *)
MayStart(t)    == writes = 0 /\ reads >= (IF t = "ram" THEN 2 ELSE 3)
MayContinue(t) == /\ target = t
                  /\ IF t = "ram" THEN writes \in {1, 2}
                     ELSE writes = 1 /\ reads = ReadsKept

CountWrite(t) ==
  /\ MayStart(t) \/ MayContinue(t)
  /\ target' = t
  /\ writes' = writes + 1
  /\ UNCHANGED reads

CountRead ==
  /\ target' = "none"
  /\ writes' = 0
  /\ reads' = IF writes > 0 THEN 1 ELSE IF reads < ReadsKept THEN reads + 1 ELSE reads

(* A reset comes between two instructions, so never after the third write  *)
(* of an interrupt.                                                        *)
Forget ==
  /\ writes < 3
  /\ target' = "none"
  /\ writes' = 0
  /\ reads' = 0

BusInit == target = "none" /\ writes = 0 /\ reads = 0

BusNext == CountRead \/ Forget \/ \E t \in Targets \ {"none"} : CountWrite(t)

BusSpec == BusInit /\ [][BusNext]_program_vars
=============================================================================
