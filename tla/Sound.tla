------------------------------- MODULE Sound -------------------------------
(***************************************************************************)
(* The sound channels that play from registers (src/src/apu/pulse.rs,      *)
(* triangle.rs, noise.rs, and the ones on boards: the pulses of the MMC5,  *)
(* the pulses and the saw of the VRC6 in m024_m026_vrc6.rs).  A channel is *)
(* a record; each operation takes it to the next.  The samples are Dmc,    *)
(* when the frames come is FrameCounter, the mixing is left out.           *)
(***************************************************************************)
EXTENDS Banks, Integers, Sequences

-----------------------------------------------------------------------------
(* The length counter, which halts a note. *)

LengthTable == <<10, 254, 20, 2, 40, 4, 80, 6, 160, 8, 60, 10, 14, 12, 26, 14, 12, 16, 24, 18,
                 48, 20, 96, 22, 192, 24, 72, 26, 16, 28, 32, 30>>

(* A channel that is off loads none. *)
LoadLength(c, val) ==
  IF c.enabled THEN [c EXCEPT !.length.counter = LengthTable[(val \div 8) + 1]] ELSE c

ClockLength(c) ==
  [c EXCEPT !.length.counter = IF c.length.enabled /\ @ > 0 THEN @ - 1 ELSE @]

-----------------------------------------------------------------------------
(* The envelope: a restart, then a decay by one in constant_volume + 1     *)
(* quarter frames.                                                         *)

NewEnvelope ==
  [enabled |-> FALSE, loops |-> FALSE, reset |-> FALSE, volume |-> 0, constant_volume |-> 0, counter |-> 0]

WriteEnvelope(c, val) ==
  [c EXCEPT !.length.enabled = ~Bit(val, 5),
            !.envelope = [@ EXCEPT !.loops = Bit(val, 5), !.enabled = ~Bit(val, 4),
                                   !.constant_volume = val % 16]]

Decay(e) == IF e.volume > 0 THEN e.volume - 1 ELSE IF e.loops THEN 15 ELSE 0

(* Mutant: a note that is begun anew goes on from its level. *)
ClockEnvelopeOn(e) ==
  CASE e.counter > 0                 -> [e EXCEPT !.counter = @ - 1, !.reset = FALSE]
    [] e.counter = 0                 -> [e EXCEPT !.counter = e.constant_volume, !.volume = Decay(e), !.reset = FALSE]

ClockEnvelope(e) ==
  CASE e.reset                   -> [e EXCEPT !.reset = FALSE, !.volume = 15, !.counter = e.constant_volume]
    [] ~e.reset /\ e.counter > 0 -> [e EXCEPT !.counter = @ - 1]
    [] ~e.reset /\ e.counter = 0 -> [e EXCEPT !.counter = e.constant_volume, !.volume = Decay(e)]

-----------------------------------------------------------------------------
(* The sweep, which bends a pulse's pitch up or down by a share of it.     *)

NewSweep == [enabled |-> FALSE, reload |-> FALSE, negate |-> FALSE, timer |-> 0, counter |-> 0, shift |-> 0]

Share(c) == c.freq_timer \div 2^c.sweep.shift

SweepForcingSilence(c) ==
  ~c.ultrasonic /\ (c.freq_timer < 8 \/ (~c.sweep.negate /\ c.freq_timer + Share(c) >= 2048))

(* The first pulse's pitch changes by one less downwards.                  *)
Bent(c) ==
  IF c.sweep.negate THEN (c.freq_timer - Share(c) - (IF c.channel = 1 THEN 0 ELSE 1)) % 2^16
                    ELSE (c.freq_timer + Share(c)) % 2^16

(* Mutant: a pitch out of range goes on being bent. *)
ClockSweepAlways(c) ==
  LET s == c.sweep
  IN CASE s.reload                   -> [c EXCEPT !.sweep = [s EXCEPT !.counter = s.timer, !.reload = FALSE]]
       [] ~s.reload /\ s.counter > 0 -> [c EXCEPT !.sweep.counter = @ - 1]
       [] ~s.reload /\ s.counter = 0 ->
            [c EXCEPT !.sweep.counter = s.timer, !.freq_timer = IF s.enabled THEN Bent(c) ELSE @]

ClockSweep(c) ==
  LET s == c.sweep
  IN CASE s.reload                   -> [c EXCEPT !.sweep = [s EXCEPT !.counter = s.timer, !.reload = FALSE]]
       [] ~s.reload /\ s.counter > 0 -> [c EXCEPT !.sweep.counter = @ - 1]
       [] ~s.reload /\ s.counter = 0 ->
            [c EXCEPT !.sweep.counter = s.timer,
                      !.freq_timer = IF s.enabled /\ ~SweepForcingSilence(c) THEN Bent(c) ELSE @]

WriteSweep(c, val) ==
  [c EXCEPT !.sweep = [@ EXCEPT !.timer = Bits(val, 4, 3), !.negate = Bit(val, 3), !.shift = val % 8,
                                !.enabled = Bit(val, 7) /\ val % 8 # 0, !.reload = TRUE]]

-----------------------------------------------------------------------------
(* Timers. *)

WriteTimerLo(c, val) == [c EXCEPT !.freq_timer = 256 * (@ \div 256) + val]
WriteTimerHi(c, val) ==
  LET freq == 256 * (val % 8) + (c.freq_timer % 256)
  IN [c EXCEPT !.freq_timer = freq, !.freq_counter = freq]

(* One of a channel's clocks: the timer runs, or the wave takes a step. *)
RunTimer(c, stepped) ==
  IF c.freq_counter > 0 THEN [c EXCEPT !.freq_counter = @ - 1]
                        ELSE [stepped EXCEPT !.freq_counter = c.freq_timer]

(* $4015: a channel that is turned off falls silent at once. *)
SetEnabled(c, enabled) ==
  [c EXCEPT !.enabled = enabled, !.length.counter = IF enabled THEN @ ELSE 0]

-----------------------------------------------------------------------------
(* Pulses: the APU's two and, "ultrasonic", those of the MMC5. *)

NewPulse(channel, ultrasonic) ==
  [kind |-> "pulse", channel |-> channel, ultrasonic |-> ultrasonic, enabled |-> FALSE,
   duty_cycle |-> 0, duty_counter |-> 0, freq_timer |-> 0, freq_counter |-> 0,
   length |-> [enabled |-> FALSE, counter |-> 0], envelope |-> NewEnvelope, sweep |-> NewSweep]

ClockPulse(c) == RunTimer(c, [c EXCEPT !.duty_counter = (@ + 1) % 8])

(* $4000-$4003, $4004-$4007; the MMC5's pulses have no sweep. *)
WritePulse(c, reg, val) ==
  CASE reg = 0 -> WriteEnvelope([c EXCEPT !.duty_cycle = val \div 64], val)
    [] reg = 1 -> IF c.ultrasonic THEN c ELSE WriteSweep(c, val)
    [] reg = 2 -> WriteTimerLo(c, val)
    [] reg = 3 -> LoadLength([WriteTimerHi(c, val) EXCEPT !.duty_counter = 0, !.envelope.reset = TRUE], val)

-----------------------------------------------------------------------------
(* The triangle. *)

NewTriangle ==
  [kind |-> "triangle", enabled |-> FALSE, ultrasonic |-> FALSE, step |-> 0, freq_timer |-> 0,
   freq_counter |-> 0, length |-> [enabled |-> FALSE, counter |-> 0],
   linear |-> [reload |-> FALSE, control |-> FALSE, load |-> 0, counter |-> 0]]

ClockTriangle(c) ==
  LET t == [c EXCEPT !.ultrasonic = c.length.counter > 0 /\ c.freq_timer < 2 /\ c.freq_counter = 0]
  IN IF t.length.counter = 0 \/ t.linear.counter = 0 \/ t.ultrasonic THEN t
     ELSE RunTimer(t, [t EXCEPT !.step = (@ + 1) % 32])

ClockLinear(c) ==
  LET l == c.linear
  IN [c EXCEPT !.linear = [l EXCEPT
        !.counter = IF l.reload THEN l.load ELSE IF @ > 0 THEN @ - 1 ELSE 0,
        !.reload  = l.reload /\ l.control]]

(* $4008, $400A and $400B; $4009 is connected to nothing. *)
WriteTriangle(c, reg, val) ==
  CASE reg = 0 -> [c EXCEPT !.linear = [@ EXCEPT !.control = Bit(val, 7), !.load = val \div 2],
                            !.length.enabled = ~Bit(val, 7)]
    [] reg = 1 -> c
    [] reg = 2 -> WriteTimerLo(c, val)
    [] reg = 3 -> LoadLength([WriteTimerHi(c, val) EXCEPT !.linear.reload = TRUE], val)

-----------------------------------------------------------------------------
(* The noise. *)

FreqTable(pal) ==
  IF pal THEN <<4, 8, 14, 30, 60, 88, 118, 148, 188, 236, 354, 472, 708, 944, 1890, 3778>>
         ELSE <<4, 8, 16, 32, 64, 96, 128, 160, 202, 254, 380, 508, 762, 1016, 2034, 4068>>

(* A reset makes the channel NTSC, whatever the region of the console. *)
NewNoise ==
  [kind |-> "noise", enabled |-> FALSE, pal |-> FALSE, shift_mode |-> "Zero", shift |-> 1,
   freq_timer |-> 0, freq_counter |-> 0, length |-> [enabled |-> FALSE, counter |-> 0],
   envelope |-> NewEnvelope]

(* The bits 0 and 1, or 0 and 6, come back as bit 14, which the register   *)
(* itself never has, before it is shifted.                                 *)
Tap(c) == IF c.shift_mode = "One" THEN 6 ELSE 1
Shifted(c) ==
  (c.shift + (IF Bit(c.shift, 0) = Bit(c.shift, Tap(c)) THEN 0 ELSE 2^14)) \div 2

ClockNoise(c) == RunTimer(c, [c EXCEPT !.shift = Shifted(c)])

(* $400C, $400E and $400F; $400D is connected to nothing. *)
WriteNoise(c, reg, val) ==
  CASE reg = 0 -> WriteEnvelope(c, val)
    [] reg = 1 -> c
    [] reg = 2 -> [c EXCEPT !.freq_timer = FreqTable(c.pal)[(val % 16) + 1] - 1,
                            !.shift_mode = IF Bit(val, 7) THEN "One" ELSE "Zero"]
    [] reg = 3 -> [LoadLength(c, val) EXCEPT !.envelope.reset = TRUE]

-----------------------------------------------------------------------------
(* What the frames do to the APU's channels and the MMC5's pulses.         *)

ClockQuarterFrame(c) ==
  IF c.kind = "triangle" THEN ClockLinear(c) ELSE [c EXCEPT !.envelope = ClockEnvelope(@)]

ClockHalfFrame(c) == ClockLength(IF c.kind = "pulse" THEN ClockSweep(c) ELSE c)

-----------------------------------------------------------------------------
(* The VRC6: pulses and a saw, which one register stops or speeds up.      *)

NewVrc6(kind) ==
  [kind |-> kind, enabled |-> FALSE, halt |-> FALSE, freq_shift |-> 0, frequency |-> 1, timer |-> 1,
   step |-> 0, volume |-> 0, duty_cycle |-> 0, ignore_duty |-> FALSE, accum |-> 0, accum_rate |-> 0]

(* The saw's accumulator is a u8: six steps of a rate beyond 42 wrap it    *)
(* around, where a debug build panics.                                     *)
StepSaw(c) ==
  LET step == (c.step + 1) % 14
  IN [c EXCEPT !.step = step,
               !.accum = CASE step = 0                    -> 0
                           [] step # 0 /\ step % 2 = 0     -> (@ + c.accum_rate) % 256
                           [] OTHER                       -> @]

StepVrc6(c) == IF c.kind = "saw" THEN StepSaw(c) ELSE [c EXCEPT !.step = (@ + 1) % 16]

ClockVrc6(c) ==
  CASE c.halt \/ ~c.enabled                   -> c
    [] ~c.halt /\ c.enabled /\ c.timer > 1    -> [c EXCEPT !.timer = @ - 1]
    [] ~c.halt /\ c.enabled /\ c.timer = 1    ->
         [StepVrc6(c) EXCEPT !.timer = (c.frequency \div 2^c.freq_shift) + 1]

(* $9000-$9003, $A000-$A002, $B000-$B002. *)
WriteVrc6Sound(c, reg, val) ==
  CASE reg = 0 /\ c.kind = "saw" -> [c EXCEPT !.accum_rate = val % 64]
    [] reg = 0 /\ c.kind # "saw" ->
         [c EXCEPT !.volume = val % 16, !.duty_cycle = Bits(val, 4, 3), !.ignore_duty = Bit(val, 7)]
    [] reg = 1 -> [c EXCEPT !.frequency = 256 * (@ \div 256) + val]
    [] reg = 2 -> [c EXCEPT !.frequency = 256 * (val % 16) + (@ % 256), !.enabled = Bit(val, 7),
                            !.step  = IF Bit(val, 7) THEN @ ELSE 0,
                            !.accum = IF Bit(val, 7) THEN @ ELSE 0]
    [] reg = 3 -> [c EXCEPT !.halt = Bit(val, 0),
                            !.freq_shift = IF Bit(val, 2) THEN 8 ELSE IF Bit(val, 1) THEN 4 ELSE 0]
=============================================================================
