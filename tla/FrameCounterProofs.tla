------------------------- MODULE FrameCounterProofs -------------------------
(***************************************************************************)
(* Theorems about FrameCounter for every table of steps, every set of      *)
(* channels and every set of lengths, with their proofs.                   *)
(***************************************************************************)
EXTENDS FrameCounter, TLAPS

(* The tally of quarter and half frames when step s begins. *)
QuartersBefore(s) == IF s <= 1 THEN 0 ELSE IF s = 2 THEN 1 ELSE IF s = 3 THEN 2 ELSE 3
HalvesBefore(s)   == IF s <= 2 THEN 0 ELSE 1

(* What the steps have to do with the table: no step has more cycles left  *)
(* than the table gives it, and the tallies are those of its position.     *)
Progress ==
  /\ steady => cycles <= StepCycles[region][mode][step]
  /\ quarters = QuartersBefore(step)
  /\ halves = HalvesBefore(step)

IInv ==
  /\ TypeOK /\ NeverWraps
  /\ InhibitHolds /\ OffIsSilent
  /\ Progress /\ OnSchedule /\ WholeSequence

-----------------------------------------------------------------------------
(* The table gives every step a positive number of cycles. *)
LEMMA TableType ==
  ASSUME NEW r \in Regions, NEW m \in Modes, NEW s \in Steps
  PROVE  /\ StepCycles[r][m][s] \in Nat \ {0}
         /\ s = 0 => StepCycles[r][m][s] > 1
BY FrameCounterAssumption

(* A step begins when the one before it is over. *)
LEMMA BeforeStep ==
  ASSUME NEW r \in Regions, NEW m \in Modes, NEW s \in Steps
  PROVE  /\ Before(r, m, s) \in Nat
         /\ Before(r, m, s + 1) = Before(r, m, s) + StepCycles[r][m][s]
         /\ Before(r, m, 0) = 0
<1>1. /\ StepCycles[r][m][0] \in Nat /\ StepCycles[r][m][1] \in Nat
      /\ StepCycles[r][m][2] \in Nat /\ StepCycles[r][m][3] \in Nat
      /\ StepCycles[r][m][4] \in Nat /\ StepCycles[r][m][5] \in Nat
  BY TableType DEF Steps
<1> DEFINE d == StepCycles[r][m]
<1> HIDE DEF d
<1>2. ASSUME NEW t \in Nat
      PROVE  Before(r, m, t) = (IF t > 0 THEN d[0] ELSE 0) + (IF t > 1 THEN d[1] ELSE 0)
               + (IF t > 2 THEN d[2] ELSE 0) + (IF t > 3 THEN d[3] ELSE 0)
               + (IF t > 4 THEN d[4] ELSE 0) + (IF t > 5 THEN d[5] ELSE 0)
  BY DEF Before, CyclesIf, d
<1>3. d[0] \in Nat /\ d[1] \in Nat /\ d[2] \in Nat /\ d[3] \in Nat /\ d[4] \in Nat /\ d[5] \in Nat
  BY <1>1 DEF d
<1>4. Before(r, m, 0) = 0
  BY <1>2, <1>3
<1>5. s \in Nat /\ s + 1 \in Nat /\ s \in {0, 1, 2, 3, 4, 5}
  BY DEF Steps
<1>6. Before(r, m, s) \in Nat
  BY <1>2, <1>3, <1>5
<1>7. Before(r, m, s + 1) = Before(r, m, s) + d[s]
  <2>1. CASE s = 0
    BY <1>2, <1>3, <2>1
  <2>2. CASE s = 1
    BY <1>2, <1>3, <2>2
  <2>3. CASE s = 2
    BY <1>2, <1>3, <2>3
  <2>4. CASE s = 3
    BY <1>2, <1>3, <2>4
  <2>5. CASE s = 4
    BY <1>2, <1>3, <2>5
  <2>6. CASE s = 5
    BY <1>2, <1>3, <2>6
  <2> QED
    BY <1>5, <2>1, <2>2, <2>3, <2>4, <2>5, <2>6
<1> QED
  BY <1>4, <1>6, <1>7 DEF d

(* The initial states satisfy the invariant. *)
LEMMA InitInv == Init => IInv
<1> SUFFICES ASSUME Init PROVE IInv
  OBVIOUS
<1> USE DEF Init
<1>1. StepCycles[region]["Step4"][0] \in Nat \ {0} /\ "Step4" \in Modes /\ 0 \in Steps
  BY TableType DEF Modes, Steps
<1>2. TypeOK
  <2>1. cycles \in Nat /\ mode \in Modes /\ step \in Steps
    BY <1>1
  <2>2. write_buffer \in Modes \union {NoWrite} /\ write_delay \in 0..MaxDelay
    BY DEF MaxDelay
  <2>3. frame \in Nat \X Nat /\ counter \in [Channels -> Nat]
    OBVIOUS
  <2> QED
    BY <2>1, <2>2, <2>3 DEF TypeOK
<1>3. NeverWraps /\ InhibitHolds /\ OffIsSilent /\ WholeSequence
  BY <1>1 DEF NeverWraps, InhibitHolds, OffIsSilent, WholeSequence
<1>4. Progress
  BY <1>1 DEF Progress, QuartersBefore, HalvesBefore
<1>5. OnSchedule
  BY <1>1, BeforeStep DEF OnSchedule
<1> QED
  BY <1>2, <1>3, <1>4, <1>5 DEF IInv

-----------------------------------------------------------------------------
(* Where a step that advances or reloads leaves the counter. *)
LEMMA ClockTypes ==
  ASSUME IInv, Clock
  PROVE  /\ mode' \in Modes /\ step' \in Steps /\ cycles' \in Nat \ {0}
         /\ elapsed' \in Nat /\ steady' \in BOOLEAN
         /\ region' = region
<1> USE DEF IInv, TypeOK, NeverWraps
<1>1. region' = region /\ elapsed' \in Nat /\ steady' \in BOOLEAN
  <2>1. region' = region /\ elapsed' \in Nat
    BY DEF Clock, Count
  <2>2. steady' \in BOOLEAN
    BY Zenon DEF Clock, Count
  <2> QED
    BY <2>1, <2>2
<1>2. CASE Reloads
  <2>1. write_buffer \in Modes
    BY <1>2 DEF Reloads
  <2>2. mode' = write_buffer /\ step' = 0
    BY <1>2 DEF Clock, Reload
  <2>3. StepCycles[region][write_buffer][0] \in Nat /\ StepCycles[region][write_buffer][0] > 1
    BY <2>1, TableType DEF Steps
  <2>4. cycles' \in Nat \ {0}
    BY <1>2, <2>3 DEF Clock, Reload
  <2> QED
    BY <1>1, <2>1, <2>2, <2>4 DEF Steps
<1>3. CASE ~Reloads
  <2>1. mode' = mode /\ step' = NextStep /\ cycles' = NextCycles
    BY <1>3 DEF Clock, Advance
  <2>2. NextStep \in Steps
    BY DEF NextStep, Steps
  <2>3. StepCycles[region][mode][NextStep] \in Nat \ {0}
    BY <2>2, TableType
  <2>4. NextCycles \in Nat \ {0}
    BY <2>3 DEF NextCycles, Ends
  <2> QED
    BY <1>1, <2>1, <2>2, <2>4
<1> QED
  BY <1>2, <1>3

(* A cycle keeps the types, and the counters from wrapping. *)
LEMMA ClockTypeOK ==
  ASSUME IInv, Clock
  PROVE  TypeOK' /\ NeverWraps'
<1> USE DEF IInv, TypeOK, NeverWraps
<1>1. /\ mode' \in Modes /\ step' \in Steps /\ cycles' \in Nat \ {0}
      /\ elapsed' \in Nat /\ steady' \in BOOLEAN /\ region' = region
  BY ClockTypes
<1>2. write_buffer' \in Modes \union {NoWrite} /\ write_delay' \in 0..MaxDelay
  BY DEF Clock, Update, Reloads, MaxDelay
<1>3. write_buffer' # NoWrite => write_delay' > 0
  BY DEF Clock, Update, Reloads, MaxDelay
<1>4. irq_pending' \in BOOLEAN /\ irq_disabled' \in BOOLEAN /\ odd' \in BOOLEAN
  BY Zenon DEF Clock, RaisesIrq
<1>5. Quarters \in Nat /\ Halves \in Nat
  BY DEF Quarters, Halves
<1>6. counter' \in [Channels -> Nat]
  BY <1>5 DEF Clock, ClockLengths
<1>7. quarters' \in Nat /\ halves' \in Nat /\ frame' \in Nat \X Nat
  BY <1>5 DEF Clock, Count
<1>8. enabled' \in SUBSET Channels /\ counts' \in [Channels -> BOOLEAN] /\ quiet' \in BOOLEAN
  BY DEF Clock
<1> QED
  BY <1>1, <1>2, <1>3, <1>4, <1>6, <1>7, <1>8

(* A cycle keeps the schedule and the tallies. *)
LEMMA ClockProgress ==
  ASSUME IInv, Clock
  PROVE  Progress' /\ OnSchedule' /\ WholeSequence'
<1> USE DEF IInv, TypeOK, NeverWraps, Progress, OnSchedule, WholeSequence
<1>1. region' = region
  BY DEF Clock
<1>2. CASE Reloads
  <2>1. write_buffer \in Modes /\ mode' = write_buffer /\ step' = 0
    BY <1>2 DEF Reloads, Clock, Reload
  <2>2. StepCycles[region][write_buffer][0] \in Nat
    BY <2>1, TableType DEF Steps
  <2>3. elapsed' + cycles' = StepCycles[region][write_buffer][0]
    BY <1>2, <2>2 DEF Clock, Reload, Count
  <2>4. Before(region, write_buffer, 1) = StepCycles[region][write_buffer][0]
    <3>1. 0 \in Steps /\ 0 + 1 = 1
      BY DEF Steps
    <3> QED
      BY <2>1, <2>2, <3>1, BeforeStep
  <2>5. cycles' <= StepCycles[region][write_buffer][0]
    BY <1>2, <2>2 DEF Clock, Reload
  <2>6. quarters' = 0 /\ halves' = 0 /\ frame' = frame
    BY <1>2 DEF Clock, Count
  <2> QED
    BY <1>1, <2>1, <2>3, <2>4, <2>5, <2>6 DEF QuartersBefore, HalvesBefore
<1>3. CASE ~Reloads /\ Ends
  <2>1. mode' = mode /\ step' = NextStep /\ cycles' = StepCycles[region][mode][NextStep]
    BY <1>3 DEF Clock, Advance, NextCycles
  <2>2. NextStep = (IF step = 5 THEN 0 ELSE step + 1) /\ NextStep \in Steps /\ step \in Steps
    BY <1>3 DEF NextStep, Steps
  <2>3. StepCycles[region][mode][NextStep] \in Nat
    BY <2>2, TableType
  <2>4. cycles = 1
    BY <1>3 DEF Ends
  <2>5. /\ Before(region, mode, NextStep + 1)
           = Before(region, mode, NextStep) + StepCycles[region][mode][NextStep]
        /\ Before(region, mode, NextStep) \in Nat /\ Before(region, mode, 0) = 0
    BY <2>2, BeforeStep
  <2>6. CASE step = 5
    <3>1. elapsed' = 0 /\ quarters' = 0 /\ halves' = 0
      BY <1>3, <2>6 DEF Clock, Count
    <3>2. Quarters = 1 /\ Halves = 1
      BY <1>3, <2>6 DEF Quarters, Halves, QuarterSteps, HalfSteps, ReloadsStep5
    <3>3. frame' = <<4, 2>>
      BY <1>3, <2>6, <3>2 DEF Clock, Count, QuartersBefore, HalvesBefore
    <3> QED
      BY <1>1, <2>1, <2>2, <2>3, <2>5, <2>6, <3>1, <3>3 DEF QuartersBefore, HalvesBefore
  <2>7. CASE step # 5
    <3>1. elapsed' = elapsed + 1 /\ steady' = steady /\ frame' = frame
      BY <1>3, <2>7 DEF Clock, Count
    <3>2. quarters' = quarters + Quarters /\ halves' = halves + Halves
      BY <1>3, <2>7 DEF Clock, Count
    <3>3. /\ Quarters = IF step \in {1, 2, 3, 5} THEN 1 ELSE 0
          /\ Halves = IF step \in {2, 5} THEN 1 ELSE 0
      BY <1>3 DEF Quarters, Halves, QuarterSteps, HalfSteps, ReloadsStep5
    <3>4. quarters' = QuartersBefore(step + 1) /\ halves' = HalvesBefore(step + 1)
      BY <2>2, <2>7, <3>2, <3>3 DEF QuartersBefore, HalvesBefore, Steps
    <3>5. steady => elapsed + 1 = Before(region, mode, NextStep)
      BY <2>2, <2>4, <2>7
    <3>6. steady' => elapsed' + cycles' = Before(region, mode, NextStep + 1)
      BY <2>1, <2>3, <2>5, <3>1, <3>5
    <3> QED
      BY <1>1, <2>1, <2>2, <2>3, <2>7, <3>1, <3>4, <3>6
  <2> QED
    BY <2>6, <2>7
<1>4. CASE ~Reloads /\ ~Ends
  <2>1. mode' = mode /\ step' = step /\ cycles' = cycles - 1
    BY <1>4 DEF Clock, Advance, NextStep, NextCycles
  <2>2. Quarters = 0 /\ Halves = 0
    BY <1>4 DEF Quarters, Halves, ReloadsStep5
  <2>3. elapsed' = elapsed + 1 /\ quarters' = quarters /\ halves' = halves
    BY <1>4, <2>2 DEF Clock, Count
  <2>4. frame' = frame /\ steady' = steady
    BY <1>4 DEF Clock, Count
  <2>5. StepCycles[region][mode][step] \in Nat
    BY TableType
  <2> QED
    BY <1>1, <2>1, <2>3, <2>4, <2>5
<1> QED
  BY <1>2, <1>3, <1>4

(* A cycle gives no inhibited IRQ and no length to a channel that is off.  *)
LEMMA ClockIrqAndLengths ==
  ASSUME IInv, Clock
  PROVE  InhibitHolds' /\ OffIsSilent'
<1>1. InhibitHolds'
  BY Zenon DEF IInv, InhibitHolds, Clock, RaisesIrq
<1>2. OffIsSilent'
  <2>1. Halves \in Nat
    BY DEF Halves
  <2>2. \A c \in Channels : counter[c] = 0 => counter'[c] = 0
    BY <2>1 DEF Clock, ClockLengths
  <2> QED
    BY <2>2 DEF IInv, OffIsSilent, Clock
<1> QED
  BY <1>1, <1>2

-----------------------------------------------------------------------------
(* The invariant is unaffected by what leaves the counter's position and   *)
(* its tally alone.                                                        *)
LEMMA SamePosition ==
  ASSUME IInv, UNCHANGED <<position, tally>>
  PROVE  Progress' /\ OnSchedule' /\ WholeSequence'
BY DEF IInv, Progress, OnSchedule, WholeSequence, position, tally

(* $4017 keeps the invariant, and so does every other access.              *)
LEMMA AccessInv ==
  ASSUME IInv,
         \/ \E selected \in Modes, inhibit \in BOOLEAN : WriteFrameCounter(selected, inhibit)
         \/ ReadStatus
         \/ \E on \in SUBSET Channels : WriteStatus(on)
         \/ \E c \in Channels, counting \in BOOLEAN : WriteCtrl(c, counting)
         \/ \E c \in Channels, length \in Lengths : WriteLength(c, length)
         \/ FallQuiet
         \/ UNCHANGED vars
  PROVE  IInv'
<1>1. CASE \E selected \in Modes, inhibit \in BOOLEAN : WriteFrameCounter(selected, inhibit)
  <2>1. PICK selected \in Modes, inhibit \in BOOLEAN : WriteFrameCounter(selected, inhibit)
    BY <1>1
  <2> USE <2>1 DEF WriteFrameCounter
  <2>2. Progress' /\ OnSchedule' /\ WholeSequence'
    BY SamePosition
  <2>3. /\ write_buffer' \in Modes \union {NoWrite}
        /\ write_delay' \in 0..MaxDelay /\ write_delay' > 0
    BY DEF WriteDelay, MaxDelay
  <2>4. irq_pending' \in BOOLEAN /\ irq_disabled' \in BOOLEAN /\ InhibitHolds'
    BY Zenon DEF Inhibit, InhibitHolds, IInv, TypeOK
  <2>5. TypeOK' /\ NeverWraps'
    BY <2>3, <2>4 DEF IInv, TypeOK, NeverWraps, position, lengths, tally
  <2>6. OffIsSilent'
    BY DEF IInv, OffIsSilent, lengths
  <2> QED
    BY <2>2, <2>4, <2>5, <2>6 DEF IInv
<1>2. CASE ReadStatus
  <2> USE <1>2 DEF ReadStatus
  <2>1. Progress' /\ OnSchedule' /\ WholeSequence'
    BY SamePosition
  <2>2. TypeOK' /\ NeverWraps'
    BY DEF IInv, TypeOK, NeverWraps, position, written, lengths, tally
  <2>3. InhibitHolds' /\ OffIsSilent'
    BY DEF IInv, InhibitHolds, OffIsSilent, lengths
  <2> QED
    BY <2>1, <2>2, <2>3 DEF IInv
<1>3. CASE \E on \in SUBSET Channels : WriteStatus(on)
  <2>1. PICK on \in SUBSET Channels : WriteStatus(on)
    BY <1>3
  <2> USE <2>1 DEF WriteStatus
  <2>2. Progress' /\ OnSchedule' /\ WholeSequence'
    BY SamePosition
  <2>3. TypeOK' /\ NeverWraps'
    BY DEF IInv, TypeOK, NeverWraps, position, written, irqs, tally
  <2>4. InhibitHolds' /\ OffIsSilent'
    BY DEF IInv, InhibitHolds, OffIsSilent, irqs
  <2> QED
    BY <2>2, <2>3, <2>4 DEF IInv
<1>4. CASE \E c \in Channels, counting \in BOOLEAN : WriteCtrl(c, counting)
  <2>1. PICK c \in Channels, counting \in BOOLEAN : WriteCtrl(c, counting)
    BY <1>4
  <2> USE <2>1 DEF WriteCtrl
  <2>2. Progress' /\ OnSchedule' /\ WholeSequence'
    BY SamePosition
  <2>3. TypeOK' /\ NeverWraps'
    BY DEF IInv, TypeOK, NeverWraps, position, written, irqs, tally
  <2>4. InhibitHolds' /\ OffIsSilent'
    BY DEF IInv, InhibitHolds, OffIsSilent, irqs
  <2> QED
    BY <2>2, <2>3, <2>4 DEF IInv
<1>5. CASE \E c \in Channels, length \in Lengths : WriteLength(c, length)
  <2>1. PICK c \in Channels, length \in Lengths : WriteLength(c, length)
    BY <1>5
  <2> USE <2>1 DEF WriteLength
  <2>2. Progress' /\ OnSchedule' /\ WholeSequence'
    BY SamePosition
  <2>3. length \in Nat
    BY FrameCounterAssumption
  <2>4. counter' \in [Channels -> Nat]
    BY <2>3 DEF IInv, TypeOK
  <2>5. TypeOK' /\ NeverWraps'
    BY <2>4 DEF IInv, TypeOK, NeverWraps, position, written, irqs, tally
  <2>6. InhibitHolds' /\ OffIsSilent'
    BY DEF IInv, TypeOK, InhibitHolds, OffIsSilent, irqs
  <2> QED
    BY <2>2, <2>5, <2>6 DEF IInv
<1>6. CASE FallQuiet
  <2> USE <1>6 DEF FallQuiet
  <2>1. Progress' /\ OnSchedule' /\ WholeSequence'
    BY SamePosition
  <2>2. TypeOK' /\ NeverWraps' /\ InhibitHolds' /\ OffIsSilent'
    BY DEF IInv, TypeOK, NeverWraps, InhibitHolds, OffIsSilent, position, written, irqs, lengths, tally
  <2> QED
    BY <2>1, <2>2 DEF IInv
<1>7. CASE UNCHANGED vars
  <2> USE <1>7 DEF vars
  <2>1. Progress' /\ OnSchedule' /\ WholeSequence'
    BY SamePosition
  <2>2. TypeOK' /\ NeverWraps' /\ InhibitHolds' /\ OffIsSilent'
    BY DEF IInv, TypeOK, NeverWraps, InhibitHolds, OffIsSilent, position, written, irqs, lengths, tally
  <2> QED
    BY <2>1, <2>2 DEF IInv
<1> QED
  BY <1>1, <1>2, <1>3, <1>4, <1>5, <1>6, <1>7

(* A change of the region keeps the invariant. *)
LEMMA SetRegionInv ==
  ASSUME IInv, NEW r \in Regions, SetRegion(r)
  PROVE  IInv'
<1> USE DEF SetRegion
<1>1. TypeOK' /\ NeverWraps'
  <2>1. steady' \in BOOLEAN
    BY Zenon DEF IInv, TypeOK
  <2> QED
    BY <2>1 DEF IInv, TypeOK, NeverWraps, written, irqs, lengths
<1>2. InhibitHolds' /\ OffIsSilent'
  BY DEF IInv, InhibitHolds, OffIsSilent, irqs, lengths
<1>3. steady' => steady /\ region' = region
  OBVIOUS
<1>4. Progress' /\ OnSchedule' /\ WholeSequence'
  BY <1>3 DEF IInv, Progress, OnSchedule, WholeSequence
<1> QED
  BY <1>1, <1>2, <1>4 DEF IInv

(* So does a reset. *)
LEMMA ResetInv ==
  ASSUME IInv, NEW hard \in BOOLEAN, Reset(hard)
  PROVE  IInv'
<1> USE DEF Reset
<1>1. mode' \in Modes /\ region' = region /\ region \in Regions /\ step' = 0
  BY DEF IInv, TypeOK, Modes
<1>2. StepCycles[region][mode'][0] \in Nat \ {0}
  BY <1>1, TableType DEF Steps
<1>3. Before(region, mode', 1) = StepCycles[region][mode'][0]
  <2>1. 0 \in Steps /\ 0 + 1 = 1
    BY DEF Steps
  <2> QED
    BY <1>1, <1>2, <2>1, BeforeStep
<1>4. cycles' = StepCycles[region][mode'][0]
  OBVIOUS
<1>5. TypeOK'
  <2>1. write_buffer' \in Modes \union {NoWrite} /\ write_delay' \in 0..MaxDelay
    BY <1>1 DEF MaxDelay
  <2>2. counter' \in [Channels -> Nat] /\ counts' \in [Channels -> BOOLEAN] /\ enabled' \in SUBSET Channels
    OBVIOUS
  <2>3. step' \in Steps /\ cycles' \in Nat
    BY <1>1, <1>2, <1>4 DEF Steps
  <2>4. frame' \in Nat \X Nat /\ quiet' \in BOOLEAN
    BY DEF IInv, TypeOK
  <2> QED
    BY <1>1, <2>1, <2>2, <2>3, <2>4 DEF TypeOK
<1>6. NeverWraps' /\ InhibitHolds' /\ OffIsSilent'
  BY <1>2, <1>4 DEF NeverWraps, InhibitHolds, OffIsSilent
<1>7. Progress' /\ OnSchedule' /\ WholeSequence'
  BY <1>1, <1>2, <1>3, <1>4
  DEF IInv, Progress, OnSchedule, WholeSequence, QuartersBefore, HalvesBefore
<1> QED
  BY <1>5, <1>6, <1>7 DEF IInv

(* Every step keeps the invariant. *)
LEMMA NextInv == IInv /\ [Next]_vars => IInv'
<1> SUFFICES ASSUME IInv, [Next]_vars PROVE IInv'
  OBVIOUS
<1>1. CASE Clock
  BY <1>1, ClockTypeOK, ClockProgress, ClockIrqAndLengths DEF IInv
<1>2. CASE \E r \in Regions : SetRegion(r)
  BY <1>2, SetRegionInv
<1>3. CASE \E hard \in BOOLEAN : Reset(hard)
  BY <1>3, ResetInv
<1> QED
  BY <1>1, <1>2, <1>3, AccessInv DEF Next

-----------------------------------------------------------------------------
(* The invariant holds in every reachable state. *)
THEOREM Invariance == Spec => []IInv
BY InitInv, NextInv, PTL DEF Spec

(* No counter of the frame counter is ever decremented at zero, however    *)
(* writes of $4017, resets and changes of the region interleave.           *)
THEOREM CountersNeverWrap == Spec => []NeverWraps
<1>1. IInv => NeverWraps
  BY DEF IInv
<1> QED
  BY <1>1, Invariance, PTL

(* An inhibited frame IRQ is never pending. *)
THEOREM InhibitAlwaysHolds == Spec => []InhibitHolds
<1>1. IInv => InhibitHolds
  BY DEF IInv
<1> QED
  BY <1>1, Invariance, PTL

(* A channel that is switched off has no length. *)
THEOREM OffChannelsAreSilent == Spec => []OffIsSilent
<1>1. IInv => OffIsSilent
  BY DEF IInv
<1> QED
  BY <1>1, Invariance, PTL

(* The sequence follows the table of its region, whatever the table.       *)
THEOREM AlwaysOnSchedule == Spec => []OnSchedule
<1>1. IInv => OnSchedule
  BY DEF IInv
<1> QED
  BY <1>1, Invariance, PTL

(* Every sequence that ends has four quarter and two half frames.          *)
THEOREM SequencesAreWhole == Spec => []WholeSequence
<1>1. IInv => WholeSequence
  BY DEF IInv
<1> QED
  BY <1>1, Invariance, PTL

(* The frame IRQ does not come before its time. *)
LEMMA IrqStep ==
  ASSUME IInv, [Next]_vars, ~irq_pending, irq_pending', steady
  PROVE  mode = "Step4" /\ elapsed + 1 >= Before(region, "Step4", 4)
<1> USE DEF IInv, TypeOK, NeverWraps, Progress, OnSchedule
<1>1. Clock
  BY DEF Next, vars, irqs, WriteFrameCounter, Inhibit, ReadStatus, WriteStatus, WriteCtrl,
         WriteLength, SetRegion, Reset, FallQuiet
<1>2. mode = "Step4" /\ NextStep >= 4
  BY <1>1 DEF Clock, RaisesIrq
<1>3. /\ 3 \in Steps /\ 4 \in Steps /\ 5 \in Steps
      /\ 3 + 1 = 4 /\ 4 + 1 = 5 /\ 5 + 1 = 6
  BY DEF Steps
<1>4. /\ Before(region, mode, 4) \in Nat /\ Before(region, mode, 5) \in Nat
      /\ Before(region, mode, 5) = Before(region, mode, 4) + StepCycles[region][mode][4]
      /\ Before(region, mode, 6) = Before(region, mode, 5) + StepCycles[region][mode][5]
      /\ StepCycles[region][mode][4] \in Nat /\ StepCycles[region][mode][5] \in Nat
  BY <1>3, BeforeStep, TableType
<1>5. \/ Ends /\ cycles = 1 /\ (step = 3 \/ step = 4)
      \/ ~Ends /\ (step = 4 \/ step = 5)
  BY <1>2 DEF NextStep, Ends, Steps
<1>6. elapsed + 1 >= Before(region, mode, 4)
  BY <1>3, <1>4, <1>5
<1> QED
  BY <1>2, <1>6

(* The frame IRQ is raised in four-step mode only, and only when four steps *)
(* are over, whatever the program wrote to $4017 before.                   *)
THEOREM IrqNeverEarly == Spec => IrqNotEarly
<1>1. IInv /\ [Next]_vars
      => [~irq_pending /\ irq_pending' /\ steady
          => mode = "Step4" /\ elapsed + 1 >= Before(region, "Step4", 4)]_vars
  BY IrqStep
<1> QED
  BY <1>1, Invariance, PTL DEF Spec, IrqNotEarly
=============================================================================
