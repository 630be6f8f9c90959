------------------------------- MODULE VrcIrq -------------------------------
(***************************************************************************)
(* The IRQ counter of Konami's VRC boards (src/src/mapper/vrc_irq.rs), as  *)
(* Vrc6 drives it: clocked every CPU cycle, with three registers.          *)
(*                                                                         *)
(* In scanline mode a prescaler divides the CPU cycles by a third of a     *)
(* scanline's dots, 341; in cycle mode every cycle counts.  The prescaler  *)
(* is an i16: the release build, which is modelled, wraps it around, and a *)
(* debug build stops where it would wrap.                                  *)
(*                                                                         *)
(* The names that every specification has begin with Vrc here, so that the *)
(* proofs about this counter and about the NMI can share a module.         *)
(***************************************************************************)
EXTENDS Integers

CONSTANTS
  Period,          (* Dots of a scanline: 341.                             *)
  Step,            (* Dots of a CPU cycle: 3.                              *)
  CounterMax,      (* The largest u8: 0xFF.                                *)
  PrescalerHalf,   (* Half the values of an i16: 2^15.                     *)
  Reloads          (* The values that the program writes to the reload.    *)

ASSUME VrcIrqAssumption ==
  /\ Step \in Nat \ {0}
  /\ Period \in Nat /\ Period >= 2 * Step
  /\ CounterMax \in Nat
  /\ PrescalerHalf \in Nat /\ PrescalerHalf > 2 * Period
  /\ Reloads \subseteq 0..CounterMax

VARIABLES reload, counter, prescalar_counter, enabled, enabled_after_ack, cycle_mode, pending

VARIABLES          (* History, for the properties only. *)
  start, counts,   (* What the counter was loaded with, and counts since.  *)
  elapsed, divisions, (* Cycles and divisions of the prescaler in this lap,*)
  lap,             (*   and the cycles that the last lap took: a lap is    *)
                   (*   Step divisions long.                               *)
  scanlines,       (* Since its reset, the prescaler has seen no cycle     *)
                   (*   mode.                                              *)
  quiet            (* The program leaves the registers alone.              *)

control == <<enabled, enabled_after_ack, cycle_mode>>
tally   == <<start, counts, elapsed, divisions, lap, scanlines>>
vrc_vars == <<reload, counter, prescalar_counter, control, pending, tally, quiet>>

-----------------------------------------------------------------------------
(* i16 arithmetic. *)
Wrapped(n) == ((n + PrescalerHalf) % (2 * PrescalerHalf)) - PrescalerHalf

Subtracted == Wrapped(prescalar_counter - Step)
Counts == cycle_mode \/ Subtracted <= 0

(* Mutant: the comparison is off by one. *)
CountUpLate ==
  /\ counter' = IF counter = CounterMax THEN 0 ELSE counter + 1
  /\ pending' = (pending \/ counter > CounterMax)

Prescale == prescalar_counter' = IF Counts THEN Wrapped(Subtracted + Period) ELSE Subtracted

CountUp ==
  /\ counter' = IF counter = CounterMax THEN reload ELSE counter + 1
  /\ pending' = (pending \/ counter = CounterMax)

(* The history of the prescaler. *)
Lap ==
  IF cycle_mode \/ ~scanlines
  THEN elapsed' = 0 /\ divisions' = 0 /\ lap' = 0 /\ scanlines' = FALSE
  ELSE /\ UNCHANGED scanlines
       /\ IF Counts /\ divisions = Step - 1
          THEN elapsed' = 0 /\ divisions' = 0 /\ lap' = elapsed + 1
          ELSE /\ elapsed' = elapsed + 1
               /\ divisions' = IF Counts THEN divisions + 1 ELSE divisions
               /\ UNCHANGED lap

(* clock, of a counter that is enabled. *)
Count ==
  /\ enabled
  /\ Prescale
  /\ IF Counts
     THEN /\ CountUp
          /\ start' = IF counter = CounterMax THEN reload ELSE start
          /\ counts' = IF counter = CounterMax THEN 0 ELSE counts + 1
     ELSE UNCHANGED <<counter, pending, start, counts>>
  /\ Lap
  /\ UNCHANGED <<reload, control, quiet>>

Idle == ~enabled /\ UNCHANGED vrc_vars

Clock == Count \/ Idle

WriteReload(val) ==
  /\ ~quiet
  /\ reload' = val
  /\ UNCHANGED <<counter, prescalar_counter, control, pending, tally, quiet>>

(* Mutant: the counter goes on from where it was. *)
StartKeepsCounter ==
  /\ prescalar_counter' = Period
  /\ elapsed' = 0 /\ divisions' = 0 /\ lap' = 0 /\ scanlines' = TRUE
  /\ start' = reload /\ counts' = 0
  /\ UNCHANGED counter

(* Enabling the counter starts it anew. *)
Start ==
  /\ counter' = reload
  /\ prescalar_counter' = Period
  /\ start' = reload /\ counts' = 0
  /\ elapsed' = 0 /\ divisions' = 0 /\ lap' = 0 /\ scanlines' = TRUE

WriteControl(enable, after_ack, cycles) ==
  /\ ~quiet
  /\ enabled' = enable /\ enabled_after_ack' = after_ack /\ cycle_mode' = cycles
  /\ pending' = FALSE
  /\ IF enable THEN Start ELSE UNCHANGED <<counter, prescalar_counter, tally>>
  /\ UNCHANGED <<reload, quiet>>

Acknowledge ==
  /\ ~quiet
  /\ enabled' = enabled_after_ack
  /\ pending' = FALSE
  /\ UNCHANGED <<reload, counter, prescalar_counter, enabled_after_ack, cycle_mode, tally, quiet>>

(* A reset leaves the IRQ line as it is. *)
VrcReset ==
  /\ ~quiet
  /\ reload' = 0 /\ counter' = 0 /\ prescalar_counter' = 0
  /\ enabled' = FALSE /\ enabled_after_ack' = FALSE /\ cycle_mode' = FALSE
  /\ start' = 0 /\ counts' = 0 
  /\ elapsed' = 0 /\ divisions' = 0 /\ lap' = 0 /\ scanlines' = FALSE
  /\ UNCHANGED <<pending, quiet>>

FallQuiet ==
  /\ ~quiet
  /\ quiet' = TRUE
  /\ UNCHANGED <<reload, counter, prescalar_counter, control, pending, tally>>

VrcInit ==
  /\ reload = 0 /\ counter = 0 /\ prescalar_counter = 0
  /\ enabled = FALSE /\ enabled_after_ack = FALSE /\ cycle_mode = FALSE
  /\ pending = FALSE
  /\ start = 0 /\ counts = 0 
  /\ elapsed = 0 /\ divisions = 0 /\ lap = 0 /\ scanlines = FALSE
  /\ quiet = FALSE

VrcNext ==
  \/ Clock
  \/ \E val \in Reloads : WriteReload(val)
  \/ \E enable, after_ack, cycles \in BOOLEAN : WriteControl(enable, after_ack, cycles)
  \/ Acknowledge
  \/ VrcReset
  \/ FallQuiet

VrcSpec == VrcInit /\ [][VrcNext]_vrc_vars

(* Every CPU cycle clocks the mapper. *)
VrcFairSpec == VrcSpec /\ WF_vrc_vars(Clock)

-----------------------------------------------------------------------------
(* Every variable holds a value of its type; the prescaler is an i16. *)
VrcTypeOK ==
  /\ reload \in 0..CounterMax /\ counter \in 0..CounterMax
  /\ prescalar_counter \in (-PrescalerHalf)..(PrescalerHalf - 1)
  /\ enabled \in BOOLEAN /\ enabled_after_ack \in BOOLEAN /\ cycle_mode \in BOOLEAN
  /\ pending \in BOOLEAN
  /\ start \in 0..CounterMax /\ counts \in 0..CounterMax /\ elapsed \in Nat /\ divisions \in Nat /\ lap \in Nat
  /\ scanlines \in BOOLEAN /\ quiet \in BOOLEAN

(* As long as only scanline mode was used since the prescaler was reset,   *)
(* it never holds more than a scanline and never reaches zero, and so it   *)
(* cannot wrap around.                                                     *)
WithinScanline == scanlines => prescalar_counter \in 1..Period

(* In scanline mode the fractions of a cycle are not lost: three counts    *)
(* take exactly the 341 cycles of three scanlines, whatever acknowledge-   *)
(* ments and changes of the reload come in between (docs/mapper/021.txt:   *)
(* the 114, 114, 113 pattern).                                             *)
EvenPace == lap \in {0, Period}

(* The IRQ comes at the count for which the counter was started, neither   *)
(* before it nor after it.                                                 *)
Punctual == [][ ~pending /\ pending' => counts = CounterMax - start ]_vrc_vars

(* A counter that is left running trips. *)
IrqComes == quiet /\ enabled ~> pending

=============================================================================
