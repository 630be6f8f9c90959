------------------------------ MODULE Channels ------------------------------
(***************************************************************************)
(* A sound channel that a program plays: its clocks, the frames of the     *)
(* frame counter (or of the MMC5's own timer), and the program's writes,   *)
(* in any order.  The channels keep no state in common, so one is followed *)
(* at a time; "tune" is the program: the channel and what it writes.       *)
(***************************************************************************)
EXTENDS Sound

CONSTANTS
  Tunes,      (* The programs.                                             *)
  MaxFrames   (* Bound: quarter frames that a note is followed for.        *)

Kinds   == {"pulse", "triangle", "noise", "vrc6_pulse", "saw"}
Silence == [kind |-> "none", channel |-> 0, ultrasonic |-> FALSE, writes |-> {}, uses |-> {}, pitch |-> 0]

ASSUME ChannelsAssumption ==
  /\ MaxFrames \in Nat
  /\ \A t \in Tunes :
       /\ t.kind \in Kinds /\ t.ultrasonic \in BOOLEAN
       /\ t.kind = "pulse" => t.channel \in 1..2
       /\ t.pitch \in Nat /\ t.pitch < 2048 /\ (t.pitch > 0 => t.kind = "pulse")
       /\ t.writes \subseteq (0..3) \X (0..255)
       /\ t.uses \subseteq {"clocks", "frames", "notes"}

VARIABLES
  tune,       (* The program and its channel.                              *)
  chan,       (* The channel.                                              *)
  since       (* Quarter frames since a note was begun, or steps since the *)
              (* saw was at rest; or not known.                            *)

channel_vars == <<tune, chan, since>>

OnVrc6 == chan.kind \in {"vrc6_pulse", "saw"}

-----------------------------------------------------------------------------
(* The channel when the console is turned on. *)
New(t) ==
  CASE t.kind = "pulse"                 -> NewPulse(t.channel, t.ultrasonic)
    [] t.kind = "triangle"              -> NewTriangle
    [] t.kind = "noise"                 -> NewNoise
    [] t.kind \in {"vrc6_pulse", "saw"} -> NewVrc6(t.kind)

(* What is followed for LevelOfNote. *)
Unknown == -1
Played(c, writes) ==
  CASE "notes" \notin tune.uses                -> Unknown
    [] "notes" \in tune.uses /\ c.kind = "saw" ->
         IF ~chan'.enabled THEN 0 ELSE IF writes[1] = 0 THEN Unknown ELSE since
    [] "notes" \in tune.uses /\ c.kind # "saw" ->
         CASE writes[1] = 3 -> 0
           [] writes[1] = 0 -> Unknown
           [] OTHER         -> since

-----------------------------------------------------------------------------
ClockChannel ==
  /\ "clocks" \in tune.uses
  /\ chan' = CASE chan.kind = "pulse"    -> ClockPulse(chan)
               [] chan.kind = "triangle" -> ClockTriangle(chan)
               [] chan.kind = "noise"    -> ClockNoise(chan)
               [] OnVrc6                 -> ClockVrc6(chan)
  /\ since' = IF chan.kind = "saw" /\ since # Unknown /\ chan.enabled /\ ~chan.halt /\ chan.timer = 1
              THEN (since + 1) % 14 ELSE since
  /\ UNCHANGED tune

OneMore == IF since = Unknown \/ since = MaxFrames THEN Unknown ELSE since + 1

(* The VRC6 has no frames. *)
QuarterFrame ==
  /\ "frames" \in tune.uses /\ ~tune.ultrasonic /\ ~OnVrc6
  /\ chan' = ClockQuarterFrame(chan)
  /\ since' = OneMore
  /\ UNCHANGED tune

(* The MMC5's timer knows only this one. *)
HalfFrame ==
  /\ "frames" \in tune.uses /\ ~OnVrc6
  /\ chan' = ClockHalfFrame(ClockQuarterFrame(chan))
  /\ since' = OneMore
  /\ UNCHANGED tune

WriteRegister ==
  \E w \in tune.writes :
    /\ chan' = CASE chan.kind = "pulse"    -> WritePulse(chan, w[1], w[2])
                 [] chan.kind = "triangle" -> WriteTriangle(chan, w[1], w[2])
                 [] chan.kind = "noise"    -> WriteNoise(chan, w[1], w[2])
                 [] OnVrc6                 -> WriteVrc6Sound(chan, w[1], w[2])
    /\ since' = Played(chan, w)
    /\ UNCHANGED tune

(* $4015, or $5015. *)
WriteEnables ==
  /\ ~OnVrc6
  /\ chan' = SetEnabled(chan, ~chan.enabled)
  /\ UNCHANGED <<tune, since>>

(* The user changes the console's region.  (Bound: not while the clocks    *)
(* are followed.)                                                          *)
SetRegion ==
  /\ chan.kind = "noise" /\ "clocks" \notin tune.uses
  /\ chan' = [chan EXCEPT !.pal = ~@]
  /\ UNCHANGED <<tune, since>>

(* A reset: the APU's channels begin anew, the VRC6's only go on if they   *)
(* were halted, the MMC5's are left as they are.                           *)
ResetSound ==
  /\ ~tune.ultrasonic
  /\ chan' = IF OnVrc6 THEN [chan EXCEPT !.halt = FALSE] ELSE New(tune)
  /\ since' = IF OnVrc6 THEN since ELSE Unknown
  /\ UNCHANGED tune

-----------------------------------------------------------------------------
(* The console has been turned on; or a pulse has been given a pitch and   *)
(* its envelope has since decayed.                                         *)
ChannelInit ==
  /\ tune \in Tunes
  /\ chan = IF tune.pitch = 0 THEN New(tune)
            ELSE [New(tune) EXCEPT !.freq_timer = tune.pitch, !.freq_counter = tune.pitch]
  /\ since = Unknown

ChannelNext ==
  \/ ClockChannel \/ QuarterFrame \/ HalfFrame \/ WriteRegister \/ WriteEnables
  \/ SetRegion \/ ResetSound

-----------------------------------------------------------------------------
(* What the channels promise.                                              *)

(* The level of an envelope that was begun n quarter frames ago.           *)
Envelope(n) ==
  LET steps == (n - 1) \div (chan.envelope.constant_volume + 1)
  IN IF chan.envelope.loops THEN 15 - (steps % 16) ELSE IF steps < 15 THEN 15 - steps ELSE 0

Linear(n) ==
  IF chan.linear.control THEN chan.linear.load
  ELSE IF chan.linear.load >= n THEN chan.linear.load - (n - 1) ELSE 0

(* However writes, frames and clocks fall, a note that the program has     *)
(* begun and left alone has the level that is due after so many quarter    *)
(* frames: fifteen less one for each period, again and again if it loops;  *)
(* the triangle's counter what is left of its load; and the saw, as many   *)
(* times its rate as it took double steps of its seven (Envelope::clock,   *)
(* Triangle::clock_quarter_frame, Vrc6Saw::clock).                         *)
LevelOfNote ==
  since # Unknown =>
    CASE chan.kind = "saw"               -> chan.accum = ((since \div 2) * chan.accum_rate) % 256
      [] chan.kind \in {"pulse", "noise"} -> since > 0 => chan.envelope.volume = Envelope(since)
      [] chan.kind = "triangle"          -> since > 0 => chan.linear.counter = Linear(since)
      [] OTHER                           -> TRUE

(* No sequence of writes, sweeps and clocks takes a channel out of its     *)
(* range: a pulse's pitch never leaves eleven bits, the noise's register   *)
(* is never zero (the comment on Noise::shift), a VRC6 timer never passes  *)
(* zero, and a channel that is off has no note.                            *)
ChannelInRange ==
  /\ chan.kind = "pulse" => chan.freq_timer < 2048
  /\ chan.kind = "noise" => chan.shift \in 1..(2^14 - 1)
  /\ OnVrc6 => chan.timer >= 1
  /\ chan.kind \in {"pulse", "triangle", "noise"} => chan.enabled \/ chan.length.counter = 0
=============================================================================
