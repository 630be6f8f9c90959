---------------------------- MODULE FrameCounter ----------------------------
(***************************************************************************)
(* The APU's frame counter (src/src/apu/frame_counter.rs), what Apu makes  *)
(* of it every CPU cycle (src/src/apu.rs) and the length counters that its *)
(* half frames count down (src/src/apu/length_counter.rs).                 *)
(*                                                                         *)
(* The counter divides a frame into six steps.  The end of a step can be a *)
(* quarter frame, which clocks the envelopes, or a half frame, which       *)
(* clocks the length counters too; the last steps of the four-step mode    *)
(* raise an IRQ.  The program restarts the sequence by writing $4017, and  *)
(* the write takes effect three or four cycles later.                      *)
(***************************************************************************)
EXTENDS Integers

Modes == {"Step4", "Step5"}
Steps == 0..5

CONSTANTS
  Regions,
  StepCycles,      (* STEP_CYCLES_*: region -> mode -> step -> CPU cycles. *)
  Channels,        (* Those with a length counter: both pulses and so on.  *)
  Lengths          (* LENGTH_TABLE: the lengths a program can load.        *)

ASSUME FrameCounterAssumption ==
  /\ StepCycles \in [Regions -> [Modes -> [Steps -> Nat \ {0}]]]
  /\ \A r \in Regions, m \in Modes : StepCycles[r][m][0] > 1
  /\ Lengths \subseteq Nat \ {0}

NoWrite == "None"
MaxDelay == 4

VARIABLES
  region,
  step, cycles,    (* The current step and the cycles left of it.          *)
  mode,
  write_buffer,    (* The mode that a write of $4017 is about to select.   *)
  write_delay,
  irq_pending, irq_disabled,
  odd,             (* Apu::cycle & 1 *)
  enabled,         (* The channels that $4015 enables.                     *)
  counts,          (* LengthCounter::enabled: not halted.                  *)
  counter          (* LengthCounter::counter *)

VARIABLES          (* History, for the properties only. *)
  elapsed,         (* Cycles since the sequence began.                     *)
  quarters, halves,(* Quarter and half frames since then.                  *)
  frame,           (* How many the last sequence had that ran to its end.  *)
  steady,          (* The region has not changed since then.               *)
  quiet            (* The program and the user leave the APU alone.        *)

position == <<region, step, cycles, mode>>
written  == <<write_buffer, write_delay>>
irqs     == <<irq_pending, irq_disabled>>
lengths  == <<enabled, counts, counter>>
tally    == <<elapsed, quarters, halves, frame, steady>>
vars == <<position, written, irqs, odd, lengths, tally, quiet>>

-----------------------------------------------------------------------------
(* One cycle. *)

(* FrameCounter::clock: the step that ends now, and the state after it.    *)
Ends == cycles <= 1
NextStep   == IF ~Ends THEN step ELSE IF step = 5 THEN 0 ELSE step + 1
NextCycles == IF Ends THEN StepCycles[region][mode][NextStep] ELSE cycles - 1

(* Mutant: the fifth step is left out. *)
HalfStepsShort == {2}

(* Which ends of steps Apu takes for quarter and half frames.  clock()     *)
(* returns the step that ended, and 0 for none.                            *)
QuarterSteps == {1, 2, 3, 5}
HalfSteps    == {2, 5}

(* FrameCounter::update, whether a write takes effect after this cycle.    *)
Reloads == write_buffer # NoWrite /\ write_delay = 1
ReloadsStep5 == Reloads /\ write_buffer = "Step5"

Quarters == (IF Ends /\ step \in QuarterSteps THEN 1 ELSE 0) + (IF ReloadsStep5 THEN 1 ELSE 0)
Halves   == (IF Ends /\ step \in HalfSteps    THEN 1 ELSE 0) + (IF ReloadsStep5 THEN 1 ELSE 0)

Update ==
  /\ write_delay' = IF write_buffer = NoWrite THEN write_delay ELSE write_delay - 1
  /\ write_buffer' = IF Reloads THEN NoWrite ELSE write_buffer

(* Mutant: a reload leaves the step's cycles as they were. *)
ReloadKeepsCycles ==
  /\ mode' = write_buffer
  /\ step' = 0
  /\ cycles' = NextCycles

(* FrameCounter::reload: five-step mode is clocked at once.                *)
Reload ==
  /\ mode' = write_buffer
  /\ step' = 0
  /\ cycles' = StepCycles[region][write_buffer][0] - (IF ReloadsStep5 THEN 1 ELSE 0)

Advance ==
  /\ mode' = mode
  /\ step' = NextStep
  /\ cycles' = NextCycles

(* Mutant: one step too late. *)
RaisesIrqLate == mode = "Step4" /\ ~irq_disabled /\ NextStep > 5

RaisesIrq == mode = "Step4" /\ ~irq_disabled /\ NextStep >= 4

(* Mutant: the last half frame of a length is not counted. *)
ClockLengthsShort ==
  counter' = [c \in Channels |->
    IF ~counts[c] THEN counter[c] ELSE IF counter[c] > Halves THEN counter[c] - Halves ELSE counter[c]]

(* LengthCounter::clock, for every half frame. *)
ClockLengths ==
  counter' = [c \in Channels |->
    IF ~counts[c] THEN counter[c] ELSE IF counter[c] > Halves THEN counter[c] - Halves ELSE 0]

Count ==
  IF Reloads
  THEN /\ elapsed' = (IF ReloadsStep5 THEN 1 ELSE 0)
       /\ quarters' = 0 /\ halves' = 0
       /\ steady' = TRUE
       /\ UNCHANGED frame
  ELSE IF Ends /\ step = 5
  THEN /\ elapsed' = 0
       /\ quarters' = 0 /\ halves' = 0
       /\ frame' = <<quarters + Quarters, halves + Halves>>
       /\ steady' = TRUE
  ELSE /\ elapsed' = elapsed + 1
       /\ quarters' = quarters + Quarters /\ halves' = halves + Halves
       /\ UNCHANGED <<frame, steady>>

(* Apu::clock, as far as it is here: clock_frame_counter and the cycle.    *)
Clock ==
  /\ IF Reloads THEN Reload ELSE Advance
  /\ Update
  /\ irq_pending' = (irq_pending \/ RaisesIrq)
  /\ ClockLengths
  /\ odd' = ~odd
  /\ Count
  /\ UNCHANGED <<region, irq_disabled, enabled, counts, quiet>>

-----------------------------------------------------------------------------
(* The program's accesses.  The cycle-accurate mode clocks the APU between *)
(* any two of them, the other one only between instructions.               *)

WriteDelay == IF odd THEN MaxDelay ELSE MaxDelay - 1

Inhibit(inhibit) ==
  /\ irq_disabled' = inhibit
  /\ irq_pending' = (irq_pending /\ ~inhibit)

(* $4017 *)
WriteFrameCounter(selected, inhibit) ==
  /\ ~quiet
  /\ write_buffer' = selected
  /\ write_delay' = WriteDelay
  /\ Inhibit(inhibit)
  /\ UNCHANGED <<position, odd, lengths, tally, quiet>>

(* $4015, read: the status is the flag and the counters, the flag goes.    *)
ReadStatus ==
  /\ irq_pending' = FALSE
  /\ UNCHANGED <<position, written, irq_disabled, odd, lengths, tally, quiet>>

(* $4015, written: set_enabled of every channel. *)
WriteStatus(on) ==
  /\ ~quiet
  /\ enabled' = on
  /\ counter' = [c \in Channels |-> IF c \in on THEN counter[c] ELSE 0]
  /\ UNCHANGED <<position, written, irqs, odd, counts, tally, quiet>>

(* write_ctrl of a channel; $4008 for the triangle. *)
WriteCtrl(c, counting) ==
  /\ ~quiet
  /\ counts' = [counts EXCEPT ![c] = counting]
  /\ UNCHANGED <<position, written, irqs, odd, enabled, counter, tally, quiet>>

(* write_timer_hi of a channel, write_length of the noise. *)
WriteLength(c, length) ==
  /\ ~quiet
  /\ counter' = [counter EXCEPT ![c] = IF c \in enabled THEN length ELSE @]
  /\ UNCHANGED <<position, written, irqs, odd, enabled, counts, tally, quiet>>

-----------------------------------------------------------------------------
(* The user. *)

(* Apu::set_region: the step in progress keeps its length. *)
SetRegion(r) ==
  /\ ~quiet
  /\ region' = r
  /\ steady' = (steady /\ r = region)
  /\ UNCHANGED <<step, cycles, mode, written, irqs, odd, lengths, elapsed, quarters, halves, frame, quiet>>

(* Apu::reset: as if the mode was written to $4017 again. *)
Reset(hard) ==
  /\ ~quiet
  /\ mode' = IF hard THEN "Step4" ELSE mode
  /\ step' = 0
  /\ cycles' = StepCycles[region][mode'][0]
  /\ write_buffer' = mode'
  /\ write_delay' = 3
  /\ irq_pending' = FALSE /\ irq_disabled' = FALSE
  /\ odd' = FALSE
  /\ enabled' = {}
  /\ counts' = [c \in Channels |-> FALSE]
  /\ counter' = [c \in Channels |-> 0]
  /\ elapsed' = 0 /\ quarters' = 0 /\ halves' = 0 /\ steady' = TRUE
  /\ UNCHANGED <<region, frame, quiet>>

(* From now on nobody writes. *)
FallQuiet ==
  /\ ~quiet
  /\ quiet' = TRUE
  /\ UNCHANGED <<position, written, irqs, odd, lengths, tally>>

-----------------------------------------------------------------------------
(* FrameCounter::new and Apu::new; loading a game resets them at once.     *)
Init ==
  /\ region \in Regions
  /\ mode = "Step4"
  /\ step = 0
  /\ cycles = StepCycles[region][mode][0]
  /\ write_buffer = NoWrite /\ write_delay = 0
  /\ irq_pending = FALSE /\ irq_disabled = FALSE
  /\ odd = FALSE
  /\ enabled = {}
  /\ counts = [c \in Channels |-> FALSE]
  /\ counter = [c \in Channels |-> 0]
  /\ elapsed = 0 /\ quarters = 0 /\ halves = 0 /\ frame = <<4, 2>> /\ steady = TRUE
  /\ quiet = FALSE

Next ==
  \/ Clock
  \/ \E selected \in Modes, inhibit \in BOOLEAN : WriteFrameCounter(selected, inhibit)
  \/ ReadStatus
  \/ \E on \in SUBSET Channels : WriteStatus(on)
  \/ \E c \in Channels, counting \in BOOLEAN : WriteCtrl(c, counting)
  \/ \E c \in Channels, length \in Lengths : WriteLength(c, length)
  \/ \E r \in Regions : SetRegion(r)
  \/ \E hard \in BOOLEAN : Reset(hard)
  \/ FallQuiet

Spec == Init /\ [][Next]_vars

(* Every CPU cycle clocks the APU, whatever the program does. *)
FairSpec == Spec /\ WF_vars(Clock)

-----------------------------------------------------------------------------
(* Properties. *)

(* Every variable holds a value of its type. *)
TypeOK ==
  /\ region \in Regions /\ mode \in Modes /\ step \in Steps /\ cycles \in Nat
  /\ write_buffer \in Modes \union {NoWrite} /\ write_delay \in 0..MaxDelay
  /\ irq_pending \in BOOLEAN /\ irq_disabled \in BOOLEAN /\ odd \in BOOLEAN
  /\ enabled \in SUBSET Channels
  /\ counts \in [Channels -> BOOLEAN] /\ counter \in [Channels -> Nat]
  /\ elapsed \in Nat /\ quarters \in Nat /\ halves \in Nat /\ frame \in Nat \X Nat
  /\ steady \in BOOLEAN /\ quiet \in BOOLEAN

(* The counters never pass below zero, where a u8 or a u16 would wrap: a   *)
(* write that is waiting has a cycle to wait for, and so has a step.       *)
NeverWraps ==
  /\ write_buffer # NoWrite => write_delay > 0
  /\ cycles > 0

(* A program that inhibits the frame IRQ does not see the flag, not even   *)
(* while the write that inhibits it still waits to restart the sequence.   *)
InhibitHolds == irq_disabled => ~irq_pending

(* A channel that $4015 switched off is silent: it has no length, and      *)
(* nothing gives it one, until it is switched on again.                    *)
OffIsSilent == \A c \in Channels \ enabled : counter[c] = 0

(* The cycles of a sequence before step s begins. *)
CyclesIf(r, m, i, s) == IF i < s THEN StepCycles[r][m][i] ELSE 0

Before(r, m, s) ==
  CyclesIf(r, m, 0, s) + CyclesIf(r, m, 1, s) + CyclesIf(r, m, 2, s)
    + CyclesIf(r, m, 3, s) + CyclesIf(r, m, 4, s) + CyclesIf(r, m, 5, s)

(* Wherever a sequence was restarted, by $4017, by a reset or by running   *)
(* to its end, its steps follow the table from there on.  (A change of the *)
(* region lets the step in progress run to its old end.)                   *)
OnSchedule == steady => elapsed + cycles = Before(region, mode, step + 1)

(* A sequence that ran to its end had four quarter and two half frames in  *)
(* either mode, so envelopes and lengths go at the same pace in both.      *)
WholeSequence == frame = <<4, 2>>

(* The frame IRQ comes in four-step mode only, and never before four steps *)
(* of it have gone by since the sequence was restarted, whatever writes of *)
(* $4017 came in between.                                                  *)
IrqNotEarly ==
  [][ ~irq_pending /\ irq_pending' /\ steady
      => mode = "Step4" /\ elapsed + 1 >= Before(region, "Step4", 4) ]_vars

(* The mode that the last write of $4017, or the last reset, selected. *)
Selected == IF write_buffer = NoWrite THEN mode ELSE write_buffer

(* A program that selected four-step mode without inhibiting its IRQ gets  *)
(* the IRQ, also when its write is yet to take effect.                     *)
IrqComes == quiet /\ Selected = "Step4" /\ ~irq_disabled ~> irq_pending

(* A note that nobody halts or reloads ends, in either mode. *)
NotesEnd == quiet ~> \A c \in Channels : counter[c] = 0 \/ ~counts[c]

=============================================================================
