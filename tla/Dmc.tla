-------------------------------- MODULE Dmc --------------------------------
(***************************************************************************)
(* The delta modulation channel of the APU (src/src/apu/dmc.rs): the       *)
(* memory reader that asks the CPU for sample bytes, and the output unit   *)
(* that plays them.  The channel is owned by the APU and changed several   *)
(* times inside one CPU cycle (clocked, written by the program, polled by  *)
(* the interrupt logic, handed a byte), so it is a record here and every   *)
(* method of the Rust type is an operator from a record to a record.  The  *)
(* modules that own a channel compose them in the order the code calls     *)
(* them.  force_silent only mutes the mixer and is left out.               *)
(***************************************************************************)
EXTENDS Integers

CONSTANTS
  FreqTimers,   (* Values of freq_timer: the region's rate table less 2.    *)
  SlowTimer,    (* The table's first rate, restored by a reset.             *)
  OutputBits,   (* Bits played per sample byte: 8 in the code.              *)
  OutputTop,    (* The largest output level: 127 in the code.               *)
  AddrBase,     (* The address after a hard reset: 0xC000.                  *)
  AddrWrap,     (* Where an address past AddrTop restarts: 0x8000.          *)
  AddrTop,      (* The last address: 0xFFFF.                                *)
  AddrLoads,    (* Values of addr_load: 0xC000 + 64 * v for $4012.          *)
  LengthLoads   (* Values of length_load: 16 * v + 1 for $4013.             *)

ASSUME DmcAssumption ==
  /\ FreqTimers \subseteq Nat /\ SlowTimer \in FreqTimers
  /\ OutputBits \in Nat \ {0}
  /\ OutputTop \in Nat
  /\ AddrTop \in Nat /\ AddrWrap \in 0..AddrTop /\ AddrBase \in 0..AddrTop
  /\ AddrLoads \subseteq 0..AddrTop
  /\ LengthLoads \subseteq Nat \ {0}

(* The fields of the Rust struct.  addr_load and length_load hold 0 until  *)
(* the program writes them after a soft reset.                             *)
DmcState ==
  [irq_enabled         : BOOLEAN,
   irq_pending         : BOOLEAN,
   loops               : BOOLEAN,
   freq_timer          : FreqTimers,
   freq_counter        : Nat,
   addr                : 0..AddrTop,
   addr_load           : 0..AddrTop,
   length              : Nat,
   length_load         : Nat,
   sample_buffer       : Nat,
   sample_buffer_empty : BOOLEAN,
   dma_pending         : BOOLEAN,
   init                : 0..3,
   output              : 0..OutputTop,
   output_bits         : 0..OutputBits,
   output_shift        : Nat,
   output_silent       : BOOLEAN]

(* Reset: everything is put back; a soft reset leaves length_load at 0, so *)
(* enabling the channel before $4013 is written fetches nothing.           *)
ResetDmc(addr, length_load) ==
  [irq_enabled         |-> FALSE,
   irq_pending         |-> FALSE,
   loops               |-> FALSE,
   freq_timer          |-> SlowTimer,
   freq_counter        |-> SlowTimer,
   addr                |-> addr,
   addr_load           |-> 0,
   length              |-> 0,
   length_load         |-> length_load,
   sample_buffer       |-> 0,
   sample_buffer_empty |-> TRUE,
   dma_pending         |-> FALSE,
   init                |-> 0,
   output              |-> 0,
   output_bits         |-> 0,
   output_shift        |-> 0,
   output_silent       |-> TRUE]

HardResetDmc == ResetDmc(AddrBase, 1)
SoftResetDmc == ResetDmc(0, 0)

-----------------------------------------------------------------------------
(* The memory reader. *)

(* Mutant: the countdown asks for a byte whether or not one is buffered. *)
CheckPendingDmaFull(d) ==
  [d EXCEPT !.init        = IF d.init > 0 THEN d.init - 1 ELSE 0,
            !.dma_pending = @ \/ (d.init = 1 /\ d.length > 0)]

(* Dmc::check_pending_dma: the countdown a $4015 write starts; when it     *)
(* runs out, an empty buffer asks for its first byte.                      *)
CheckPendingDma(d) ==
  [d EXCEPT !.init        = IF d.init > 0 THEN d.init - 1 ELSE 0,
            !.dma_pending = \/ @
                            \/ d.init = 1 /\ d.sample_buffer_empty /\ d.length > 0]

(* Dmc::dma: the CPU takes the request, which is cleared by the reading. *)
TakeDma(d) == [d EXCEPT !.dma_pending = FALSE]

(* The reader moves to the next byte of the sample; after the last one it  *)
(* starts over or ends, which may raise the interrupt.                     *)
AdvanceReader(d) ==
  LET next == IF d.addr = AddrTop THEN AddrWrap ELSE d.addr + 1
  IN  IF d.length > 1 THEN [d EXCEPT !.addr = next, !.length = @ - 1]
      ELSE IF d.loops THEN [d EXCEPT !.addr = d.addr_load, !.length = d.length_load]
      ELSE [d EXCEPT !.addr = next, !.length = 0,
                     !.irq_pending = @ \/ d.irq_enabled]

(* Dmc::load_buffer: the CPU hands over the byte it fetched.  A byte that  *)
(* arrives once the sample was stopped (length 0) is dropped.              *)
LoadBuffer(d, val) ==
  LET taken == TakeDma(d)
  IN  IF d.length = 0 THEN taken
      ELSE AdvanceReader([taken EXCEPT !.sample_buffer = val,
                                       !.sample_buffer_empty = FALSE])

-----------------------------------------------------------------------------
(* The output unit. *)

(* One bit of the shift register moves the output level by two, unless it  *)
(* would leave the range.                                                  *)
NextLevel(level, bit) ==
  CASE bit = 1 /\ level <= OutputTop - 2 -> level + 2
    [] bit = 0 /\ level >= 2             -> level - 2
    [] OTHER                             -> level

PlayBit(d) ==
  IF d.output_silent THEN d
  ELSE [d EXCEPT !.output       = NextLevel(@, d.output_shift % 2),
                 !.output_shift = @ \div 2]

(* The start of an output cycle: the buffer moves to the shift register    *)
(* and the reader asks for the next byte, or silence begins.               *)
StartOutputCycle(d) ==
  LET begun == [d EXCEPT !.output_bits = OutputBits, !.output_silent = d.sample_buffer_empty]
  IN  IF d.sample_buffer_empty THEN begun
      ELSE [begun EXCEPT !.output_shift        = d.sample_buffer,
                         !.sample_buffer_empty = TRUE,
                         !.dma_pending         = @ \/ d.length > 0]

(* Dmc::clock, every second CPU cycle: the timer counts CPU cycles, two at *)
(* a time.  The bit counter saturates at 0.                                *)
ClockDmc(d) ==
  LET played == PlayBit([d EXCEPT !.freq_counter = d.freq_timer])
  IN  IF d.freq_counter >= 2 THEN [d EXCEPT !.freq_counter = @ - 2]
      ELSE IF d.output_bits <= 1 THEN StartOutputCycle(played)
      ELSE [played EXCEPT !.output_bits = @ - 1]

-----------------------------------------------------------------------------
(* The registers. *)

(* $4010 *)
WriteTimer(d, irq, loop, timer) ==
  [d EXCEPT !.irq_enabled = irq, !.loops = loop, !.freq_timer = timer,
            !.irq_pending = @ /\ irq]

(* $4011, $4012 and $4013 *)
WriteOutput(d, level)      == [d EXCEPT !.output = level]
WriteAddrLoad(d, addr)     == [d EXCEPT !.addr_load = addr]
WriteLength(d, length)     == [d EXCEPT !.length_load = length]

(* Dmc::set_enabled ($4015): stopping empties the byte count; starting a   *)
(* sample that had ended restarts it, after 2 CPU cycles if the APU's      *)
(* cycle count is even, 3 if it is odd.                                    *)
SetEnabled(d, enabled, odd) ==
  LET quiet == [d EXCEPT !.irq_pending = FALSE]
  IN  IF ~enabled THEN [quiet EXCEPT !.length = 0]
      ELSE IF d.length > 0 THEN quiet
      ELSE [quiet EXCEPT !.addr   = d.addr_load,
                         !.length = d.length_load,
                         !.init   = IF odd THEN 3 ELSE 2]
=============================================================================
