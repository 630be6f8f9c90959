-------------------------- MODULE InterruptsProofs --------------------------
(***************************************************************************)
(* Proofs about two sources of interrupts, VblankNmi and VrcIrq, for every *)
(* length of frames, lines and cycles, any step of the VRC's prescaler and *)
(* any values written to its registers.                                    *)
(*                                                                         *)
(* The NMI line and the PPU's lag are inductive with the types.  A read    *)
(* that came too early is remembered in prevent_vbl only until the second  *)
(* dot of the VBL, so what it means needs the position; and an interrupt   *)
(* entered for an NMI keeps the NMI latched until its vector is settled.   *)
(* The VRC's pace follows from an account of what its prescaler has given  *)
(* and taken.                                                              *)
(***************************************************************************)
EXTENDS VblankNmi, VrcIrq, TLAPS

(* From the dot before the VBL to the dot that ends it. *)
AfterRead ==
  missed => /\ ~in_vblank /\ ~nmi_pending
            /\ \/ line = VblankLine /\ (dot = VblankDot - 1 => prevent_vbl)
               \/ line \in (VblankLine + 1)..(PrerenderLine - 1)
               \/ line = PrerenderLine /\ dot < VblankDot

Entered ==
  seq = "irq" =>
    /\ IF vector = "none" THEN nmi \/ by_irq ELSE vector = "nmi" \/ by_irq
    /\ vector # "none" => count > 4 \/ (count = 4 /\ at # "idle")

IdleLag == at = "idle" => clock <= Divider

IInv == TypeOK /\ NmiLine /\ AfterRead /\ Entered /\ IdleLag

-----------------------------------------------------------------------------
(* The PPU stays in its frame. *)
LEMMA PositionType ==
  ASSUME TypeOK, NextLine \/ NextDot
  PROVE  dot' \in 0..LastDot /\ line' \in 0..PrerenderLine /\ odd' \in BOOLEAN
<1>1. CASE NextLine
  <2>1. odd' \in BOOLEAN
    BY <1>1 DEF NextLine, TypeOK
  <2>2. dot' \in 0..LastDot /\ line' \in 0..PrerenderLine
    BY <1>1, VblankNmiAssumption DEF NextLine, TypeOK
  <2> QED BY <2>1, <2>2
<1>2. CASE NextDot
  <2>1. odd' \in BOOLEAN /\ line' = line
    BY <1>2 DEF NextDot, TypeOK
  <2>2. dot' \in 0..LastDot
    BY <1>2, VblankNmiAssumption DEF NextDot, TypeOK
  <2> QED BY <2>1, <2>2 DEF TypeOK
<1> QED BY <1>1, <1>2

(* What a dot can do to the flags. *)
LEMMA DotCases ==
  ASSUME NextLine \/ NextDot
  PROVE  \/ UNCHANGED <<ppu_flags, history>>
         \/ StartVblank /\ NextDot /\ line = VblankLine /\ dot' = VblankDot
         \/ StopVblank /\ NextDot /\ line = PrerenderLine /\ dot' = VblankDot
<1>1. CASE NextLine
  BY <1>1 DEF NextLine
<1>2. CASE NextDot
  BY <1>2 DEF NextDot
<1> QED BY <1>1, <1>2

(* Every step keeps to the types. *)
LEMMA TypeStep ==
  ASSUME TypeOK, [Next]_vars
  PROVE  TypeOK'
<1> USE DEF ppu_pos, ppu_flags, ppu_regs, detector, program, history
<1>1. CASE PpuDot
  <2>1. dot' \in 0..LastDot /\ line' \in 0..PrerenderLine /\ odd' \in BOOLEAN
    BY <1>1, PositionType DEF PpuDot
  <2>2. clock' \in Nat
    BY <1>1, VblankNmiAssumption DEF PpuDot, Behind, TypeOK
  <2>3. /\ in_vblank' \in BOOLEAN /\ nmi_pending' \in BOOLEAN /\ prevent_vbl' \in BOOLEAN
        /\ reset_signal' \in BOOLEAN /\ missed' \in BOOLEAN
    BY <1>1, DotCases DEF PpuDot, StartVblank, StopVblank, TypeOK
  <2>4. edges' \in Nat /\ causes' \in Nat
    <3>1. \/ edges' = 0 /\ causes' \in {0, 1}
          \/ edges' = edges /\ causes' = causes
      BY <1>1, DotCases DEF PpuDot, StartVblank, StopVblank
    <3> QED BY <3>1 DEF TypeOK
  <2>5. UNCHANGED <<at, op, ppu_regs, detector, program>>
    BY <1>1 DEF PpuDot
  <2> QED BY <2>1, <2>2, <2>3, <2>4, <2>5 DEF TypeOK
<1>2. ASSUME NEW o \in Ops, StartCycle(o) PROVE TypeOK'
  <2>1. clock' \in Nat
    BY <1>2, VblankNmiAssumption DEF StartCycle, TypeOK
  <2>2. nmi' \in BOOLEAN /\ vector' \in {"none", "nmi", "irq"}
    BY <1>2 DEF StartCycle, PushStatus, TypeOK
  <2> QED BY <1>2, <2>1, <2>2 DEF StartCycle, TypeOK
<1>3. CASE Access
  <2>1. clock' \in Nat
    BY <1>3, VblankNmiAssumption DEF Access, TypeOK
  <2>2. /\ nmi_enabled' \in BOOLEAN /\ rendering' \in BOOLEAN /\ in_vblank' \in BOOLEAN
        /\ nmi_pending' \in BOOLEAN /\ prevent_vbl' \in BOOLEAN /\ missed' \in BOOLEAN
    BY <1>3 DEF Access, WriteCtrl, WriteMask, ReadStatus, OtherAccess, TypeOK
  <2>3. causes' \in Nat
    <3>1. causes' \in {causes, causes + 1}
      BY <1>3 DEF Access, WriteCtrl, WriteMask, ReadStatus, OtherAccess
    <3> QED BY <3>1 DEF TypeOK
  <2>4. at' = "second" /\ UNCHANGED <<op, ppu_pos, reset_signal, detector, program, edges>>
    BY <1>3 DEF Access
  <2> QED BY <2>1, <2>2, <2>3, <2>4 DEF TypeOK
<1>4. ASSUME EndCycle, PollLines, prev_nmi' \in BOOLEAN, i_flag' \in BOOLEAN, count' \in Nat,
             seq' \in {"reset", "instr", "brk", "irq"}, vector' \in {"none", "nmi", "irq"},
             by_irq' \in BOOLEAN
      PROVE  TypeOK'
  <2>1. edges' \in Nat
    BY <1>4 DEF PollLines, TypeOK
  <2>2. /\ nmi' \in BOOLEAN /\ prev_nmi_pending' \in BOOLEAN
        /\ prev_run_irq' \in BOOLEAN /\ run_irq' \in BOOLEAN
    BY <1>4 DEF PollLines, TypeOK
  <2>3. at' = "idle" /\ UNCHANGED <<op, clock, ppu_pos, ppu_flags, ppu_regs, missed, causes>>
    BY <1>4 DEF EndCycle
  <2> QED BY <1>4, <2>1, <2>2, <2>3 DEF TypeOK
<1>5. CASE InstrCycle
  BY <1>5, <1>4 DEF InstrCycle, Poll, TypeOK
<1>6. CASE TurnToBrk
  BY <1>6, <1>4 DEF TurnToBrk, Poll, TypeOK
<1>7. CASE SequenceCycle
  <2>1. i_flag' \in BOOLEAN
    BY <1>7 DEF SequenceCycle, TypeOK
  <2> QED BY <1>7, <2>1, <1>4 DEF SequenceCycle, Poll, TypeOK
<1>8. CASE EndInstr
  BY <1>8, <1>4 DEF EndInstr, Poll, Boundary, TypeOK
<1>9. CASE EndBrk
  BY <1>9, <1>4 DEF EndBrk, Boundary, TypeOK
<1>10. CASE EndSequence
  BY <1>10, <1>4 DEF EndSequence, Poll, TypeOK
<1>11. ASSUME NEW hard \in BOOLEAN, Reset(hard) PROVE TypeOK'
  <2>1. 0 \in 0..LastDot /\ 0 \in 0..PrerenderLine
    BY VblankNmiAssumption
  <2>2. in_vblank' \in BOOLEAN
    BY <1>11 DEF Reset, TypeOK
  <2> QED BY <1>11, <2>1, <2>2 DEF Reset, TypeOK
<1>12. CASE UNCHANGED vars
  BY <1>12 DEF vars, TypeOK
<1> QED BY <1>1, <1>2, <1>3, <1>5, <1>6, <1>7, <1>8, <1>9, <1>10, <1>11, <1>12 DEF Next, Execute

(* No dot and no access separates the line from what drives it. *)
LEMMA LineStep ==
  ASSUME TypeOK, NmiLine, [Next]_vars
  PROVE  NmiLine'
<1> USE DEF NmiLine, ppu_pos, ppu_flags, ppu_regs, detector, program, history
<1>1. CASE PpuDot
  BY <1>1, DotCases DEF PpuDot, StartVblank, StopVblank, TypeOK
<1>2. CASE Access
  <2>1. ASSUME WriteCtrl PROVE NmiLine'
    <3>1. CASE reset_signal
      BY <2>1, <3>1 DEF WriteCtrl
    <3>2. CASE ~reset_signal
      <4>1. PICK enable \in BOOLEAN :
              /\ nmi_enabled' = enable
              /\ nmi_pending' = (enable /\ (in_vblank \/ nmi_pending))
        BY <2>1, <3>2 DEF WriteCtrl
      <4>2. in_vblank' = in_vblank
        BY <2>1 DEF WriteCtrl
      <4> QED BY <4>1, <4>2, Zenon DEF TypeOK
    <3> QED BY <3>1, <3>2
  <2>2. ASSUME ReadStatus PROVE NmiLine'
    BY <2>2 DEF ReadStatus
  <2>3. ASSUME WriteMask \/ OtherAccess PROVE NmiLine'
    <3>1. UNCHANGED <<in_vblank, nmi_pending, nmi_enabled>>
      BY <2>3 DEF WriteMask, OtherAccess
    <3> QED BY <3>1
  <2> QED BY <1>2, <2>1, <2>2, <2>3 DEF Access
<1>3. CASE UNCHANGED <<ppu_flags, ppu_regs>>
  BY <1>3
<1>4. ASSUME NEW hard \in BOOLEAN, Reset(hard) PROVE NmiLine'
  BY <1>4 DEF Reset
<1>5. (\E o \in Ops : StartCycle(o)) \/ EndCycle \/ UNCHANGED vars => UNCHANGED <<ppu_flags, ppu_regs>>
  BY DEF StartCycle, EndCycle, vars
<1> QED BY <1>1, <1>2, <1>3, <1>4, <1>5
           DEF Next, Execute, InstrCycle, TurnToBrk, SequenceCycle, EndInstr, EndBrk, EndSequence

(* A VBL that was read away stays away until it ends. *)
LEMMA MissedStep ==
  ASSUME TypeOK, AfterRead, [Next]_vars
  PROVE  AfterRead'
<1> USE DEF ppu_pos, ppu_flags, ppu_regs, detector, program, history
<1>1. CASE PpuDot
  <2> SUFFICES ASSUME missed' PROVE AfterRead'
    BY DEF AfterRead
  <2>1. CASE NextLine
    <3>1. UNCHANGED <<missed, in_vblank, nmi_pending, prevent_vbl>> /\ missed
      BY <2>1 DEF NextLine
    <3> QED BY <2>1, <3>1, VblankNmiAssumption DEF NextLine, AfterRead, VblankDot, TypeOK
  <2>2. CASE NextDot /\ UNCHANGED <<ppu_flags, history>>
    <3>1. dot' > dot /\ dot' \in Nat /\ line' = line
      BY <2>2, VblankNmiAssumption DEF NextDot, TypeOK
    <3>2. line = PrerenderLine => dot' # VblankDot
      <4>1. CASE line = PrerenderLine /\ dot' = VblankDot
        <5>1. line # VblankLine
          BY <4>1, VblankNmiAssumption
        <5>2. StopVblank
          BY <2>2, <4>1, <5>1, Zenon DEF NextDot
        <5> QED BY <5>2 DEF StopVblank
      <4> QED BY <4>1
    <3>3. line = PrerenderLine /\ dot = 0 => dot' = VblankDot
      BY <2>2, VblankNmiAssumption DEF NextDot, SkipsNext, VblankDot
    <3> QED BY <2>2, <3>1, <3>2, <3>3 DEF AfterRead, VblankDot, TypeOK
  <2>3. CASE StartVblank /\ NextDot /\ line = VblankLine /\ dot' = VblankDot
    <3>1. dot = VblankDot - 1 /\ line' = line
      BY <2>3, VblankNmiAssumption DEF NextDot, SkipsNext, VblankDot, TypeOK
    <3>2. prevent_vbl /\ ~in_vblank /\ ~nmi_pending
      BY <2>3, <3>1, VblankNmiAssumption DEF AfterRead, StartVblank
    <3>3. ~in_vblank' /\ ~nmi_pending'
      BY <2>3, <3>2 DEF StartVblank
    <3> QED BY <2>3, <3>1, <3>3 DEF AfterRead, VblankDot
  <2>4. CASE StopVblank
    BY <2>4 DEF StopVblank
  <2> QED BY <1>1, <2>1, <2>2, <2>3, <2>4, DotCases DEF PpuDot
<1>2. CASE Access
  <2>1. CASE ReadStatus
    BY <1>2, <2>1 DEF Access, ReadStatus, AfterRead, VblankDot
  <2>2. ASSUME WriteCtrl \/ WriteMask \/ OtherAccess PROVE AfterRead'
    <3>1. UNCHANGED <<ppu_pos, in_vblank, prevent_vbl, missed>>
      BY <1>2, <2>2 DEF Access, WriteCtrl, WriteMask, OtherAccess
    <3>2. nmi_pending' => in_vblank \/ nmi_pending
      BY <2>2 DEF WriteCtrl, WriteMask, OtherAccess
    <3> QED BY <3>1, <3>2 DEF AfterRead
  <2> QED BY <1>2, <2>1, <2>2 DEF Access
<1>3. CASE UNCHANGED <<ppu_pos, ppu_flags, missed>>
  BY <1>3 DEF AfterRead
<1>4. ASSUME NEW hard \in BOOLEAN, Reset(hard) PROVE AfterRead'
  BY <1>4 DEF Reset, AfterRead
<1>5. (\E o \in Ops : StartCycle(o)) \/ EndCycle \/ UNCHANGED vars => UNCHANGED <<ppu_pos, ppu_flags, missed>>
  BY DEF StartCycle, EndCycle, vars
<1> QED BY <1>1, <1>2, <1>3, <1>4, <1>5
           DEF Next, Execute, InstrCycle, TurnToBrk, SequenceCycle, EndInstr, EndBrk, EndSequence

(* An NMI that brought the CPU into irq() is there until irq() takes it.   *)
LEMMA EnteredStep ==
  ASSUME TypeOK, Entered, [Next]_vars
  PROVE  Entered'
<1> USE DEF detector, program
<1>1. CASE PpuDot
  BY <1>1 DEF PpuDot, Entered
<1>2. ASSUME NEW o \in Ops, StartCycle(o) PROVE Entered'
  BY <1>2 DEF StartCycle, PushStatus, Entered, TypeOK
<1>3. CASE Access
  BY <1>3 DEF Access, Entered
<1>4. PollLines => (nmi => nmi')
  BY DEF PollLines
<1>5. CASE InstrCycle \/ TurnToBrk
  BY <1>5 DEF InstrCycle, TurnToBrk, Entered
<1>6. CASE SequenceCycle
  <2>1. seq' = seq /\ vector' = vector /\ by_irq' = by_irq /\ count' = count + 1 /\ at' = "idle" /\ at = "second"
    BY <1>6 DEF SequenceCycle, EndCycle
  <2>2. nmi => nmi'
    BY <1>6, <1>4 DEF SequenceCycle, Poll
  <2> QED BY <2>1, <2>2 DEF Entered, TypeOK
<1>7. CASE EndInstr
  BY <1>7, <1>4 DEF EndInstr, Poll, Boundary, Entered, TypeOK
<1>8. CASE EndBrk
  BY <1>8 DEF EndBrk, Boundary, Entered, TypeOK
<1>9. CASE EndSequence
  BY <1>9 DEF EndSequence, Entered
<1>10. ASSUME NEW hard \in BOOLEAN, Reset(hard) PROVE Entered'
  BY <1>10 DEF Reset, Entered
<1>11. CASE UNCHANGED vars
  BY <1>11 DEF vars, Entered
<1> QED BY <1>1, <1>2, <1>3, <1>5, <1>6, <1>7, <1>8, <1>9, <1>10, <1>11 DEF Next, Execute

(* A cycle is over only when the PPU has caught up with it. *)
LEMMA LagStep ==
  ASSUME TypeOK, IdleLag, [Next]_vars
  PROVE  IdleLag'
<1>1. CASE EndCycle
  BY <1>1, VblankNmiAssumption DEF EndCycle, Behind, IdleLag, TypeOK
<1>2. CASE PpuDot
  BY <1>2 DEF PpuDot, IdleLag
<1>3. ASSUME NEW o \in Ops, StartCycle(o) PROVE IdleLag'
  BY <1>3 DEF StartCycle, IdleLag
<1>4. CASE Access
  BY <1>4 DEF Access, IdleLag
<1>5. ASSUME NEW hard \in BOOLEAN, Reset(hard) PROVE IdleLag'
  BY <1>5, VblankNmiAssumption DEF Reset, IdleLag
<1>6. CASE UNCHANGED vars
  BY <1>6 DEF vars, IdleLag
<1> QED BY <1>1, <1>2, <1>3, <1>4, <1>5, <1>6
           DEF Next, Execute, InstrCycle, TurnToBrk, SequenceCycle, EndInstr, EndBrk, EndSequence

(* The invariant is inductive. *)
LEMMA Invariance == Spec => []IInv
<1>1. Init => IInv
  <2>1. ASSUME Init PROVE TypeOK
    <3>1. 0 \in 0..LastDot /\ 0 \in 0..PrerenderLine
      BY VblankNmiAssumption
    <3> QED BY <2>1, <3>1 DEF Init, TypeOK, Ops
  <2>2. ASSUME Init PROVE NmiLine /\ AfterRead /\ Entered
    BY <2>2 DEF Init, NmiLine, AfterRead, Entered
  <2>3. ASSUME Init PROVE IdleLag
    BY <2>3, VblankNmiAssumption DEF Init, IdleLag
  <2> QED BY <2>1, <2>2, <2>3 DEF IInv
<1>2. IInv /\ [Next]_vars => IInv'
  BY TypeStep, LineStep, MissedStep, EnteredStep, LagStep DEF IInv
<1> QED BY <1>1, <1>2, PTL DEF Spec

-----------------------------------------------------------------------------
(* The NMI line is up exactly while the flag is set and the NMI enabled.   *)
THEOREM NmiLineFollows == Spec => []NmiLine
<1>1. IInv => NmiLine
  BY DEF IInv
<1> QED BY <1>1, Invariance, PTL

(* Reading $2002 on the dot before the VBL takes the frame's flag and NMI. *)
THEOREM EarlyReadMissesVblank == Spec => []MissedVblank
<1>1. IInv => MissedVblank
  BY DEF IInv, AfterRead, MissedVblank
<1> QED BY <1>1, Invariance, PTL

(* Only an IRQ sends the CPU to the IRQ vector through irq(). *)
THEOREM InterruptsHaveCauses == Spec => []NoSpuriousIrq
<1>1. IInv => NoSpuriousIrq
  BY DEF IInv, Entered, NoSpuriousIrq
<1> QED BY <1>1, Invariance, PTL

(* For every region's clocks, the PPU is less than a dot behind whenever   *)
(* the bus is accessed or a cycle is over.                                 *)
THEOREM PpuInStep == Spec => []InStep
<1>1. IInv => InStep
  BY VblankNmiAssumption DEF IInv, IdleLag, InStep, Behind, TypeOK
<1> QED BY <1>1, Invariance, PTL
-----------------------------------------------------------------------------
(* An edge that was not polled yet has its cause, and so had every edge    *)
(* that was.  A prevented VBL has no cause of its own and must find the    *)
(* line down: outside VBL the flag is down, unless a reset left it up, and *)
(* after a reset the NMI stays disabled until the end of a VBL.            *)
Outside ==
  \/ line < VblankLine
  \/ line = VblankLine /\ dot < VblankDot
  \/ line = PrerenderLine /\ dot >= VblankDot

FlagDown ==
  /\ Outside => ~in_vblank \/ reset_signal
  /\ reset_signal => ~nmi_enabled

EdgesCaused ==
  /\ edges <= causes
  /\ nmi_pending /\ ~prev_nmi_pending => edges < causes

Counted == FlagDown /\ EdgesCaused

(* No dot leaves the flag up outside VBL, and no write enables the NMI of  *)
(* a PPU that was reset. *)
LEMMA FlagStep ==
  ASSUME IInv, FlagDown, [Next]_vars
  PROVE  FlagDown'
<1> USE DEF ppu_pos, ppu_flags, ppu_regs, detector, program, history
<1>t. TypeOK
  BY DEF IInv
<1>1. CASE PpuDot
  <2>1. CASE NextLine
    BY <1>1, <1>t, <2>1, VblankNmiAssumption DEF PpuDot, NextLine, FlagDown, Outside, VblankDot, TypeOK
  <2>2. CASE NextDot /\ UNCHANGED <<ppu_flags, history>>
    <3>1. line' = line /\ dot \in Nat /\ dot' \in Nat /\ dot' > dot
      BY <1>t, <2>2, VblankNmiAssumption DEF NextDot, TypeOK
    <3>2. CASE line = PrerenderLine /\ dot < VblankDot
      <4>1. dot' = VblankDot
        BY <2>2, <3>1, <3>2, VblankNmiAssumption DEF NextDot, SkipsNext, VblankDot
      <4>2. StopVblank
        BY <2>2, <3>2, <4>1, VblankNmiAssumption DEF NextDot
      <4> QED BY <1>1, <4>2 DEF StopVblank, PpuDot, FlagDown
    <3>3. CASE ~(line = PrerenderLine /\ dot < VblankDot)
      <4>1. Outside' => Outside
        BY <1>t, <3>1, <3>3, VblankNmiAssumption DEF Outside, VblankDot, TypeOK
      <4> QED BY <1>1, <2>2, <4>1 DEF PpuDot, FlagDown
    <3> QED BY <3>2, <3>3
  <2>3. CASE StartVblank /\ NextDot /\ line = VblankLine /\ dot' = VblankDot
    <3>1. ~Outside'
      BY <2>3, VblankNmiAssumption DEF NextDot, Outside, VblankDot
    <3> QED BY <1>1, <2>3, <3>1 DEF StartVblank, PpuDot, FlagDown
  <2>4. CASE StopVblank
    BY <1>1, <2>4 DEF StopVblank, PpuDot, FlagDown
  <2> QED BY <1>1, <2>1, <2>2, <2>3, <2>4, DotCases DEF PpuDot
<1>2. CASE Access
  <2>1. UNCHANGED <<ppu_pos, reset_signal>>
    BY <1>2 DEF Access
  <2>2. in_vblank' => in_vblank
    BY <1>2 DEF Access, WriteCtrl, WriteMask, ReadStatus, OtherAccess
  <2>3. reset_signal => nmi_enabled' = nmi_enabled
    BY <1>2 DEF Access, WriteCtrl, WriteMask, ReadStatus, OtherAccess
  <2> QED BY <2>1, <2>2, <2>3 DEF FlagDown, Outside
<1>3. CASE UNCHANGED <<ppu_pos, ppu_flags, ppu_regs>>
  BY <1>3 DEF FlagDown, Outside
<1>4. ASSUME NEW hard \in BOOLEAN, Reset(hard) PROVE FlagDown'
  BY <1>4 DEF Reset, FlagDown
<1>5. (\E o \in Ops : StartCycle(o)) \/ EndCycle \/ UNCHANGED vars
      => UNCHANGED <<ppu_pos, ppu_flags, ppu_regs>>
  BY DEF StartCycle, EndCycle, vars
<1> QED BY <1>1, <1>2, <1>3, <1>4, <1>5
           DEF Next, Execute, InstrCycle, TurnToBrk, SequenceCycle, EndInstr, EndBrk, EndSequence

(* No edge appears without a cause of its own, and polling one only moves  *)
(* it from the line to the count.                                          *)
LEMMA EdgeStep ==
  ASSUME IInv, FlagDown, EdgesCaused, [Next]_vars
  PROVE  EdgesCaused'
<1> USE DEF ppu_pos, ppu_flags, ppu_regs, detector, program, history
<1>t. TypeOK /\ NmiLine
  BY DEF IInv
<1>n. edges \in Nat /\ causes \in Nat
  BY <1>t DEF TypeOK
<1>1. CASE PpuDot
  <2>1. CASE UNCHANGED <<ppu_flags, history>>
    BY <1>1, <2>1 DEF PpuDot, EdgesCaused
  <2>2. CASE StartVblank /\ NextDot /\ line = VblankLine /\ dot' = VblankDot
    <3>1. Outside
      BY <1>t, <2>2, VblankNmiAssumption DEF NextDot, SkipsNext, Outside, VblankDot, TypeOK
    <3>2. ~nmi_pending
      BY <1>t, <3>1 DEF FlagDown, NmiLine
    <3>3. nmi_pending' => causes' = 1
      BY <2>2, <3>2 DEF StartVblank
    <3>4. edges' = 0 /\ causes' \in {0, 1}
      BY <2>2 DEF StartVblank
    <3> QED BY <3>3, <3>4 DEF EdgesCaused
  <2>3. CASE StopVblank
    BY <1>1, <2>3 DEF PpuDot, StopVblank, EdgesCaused
  <2> QED BY <1>1, <2>1, <2>2, <2>3, DotCases DEF PpuDot
<1>2. CASE Access
  <2>1. UNCHANGED <<edges, prev_nmi_pending>>
    BY <1>2 DEF Access
  <2>2. CASE ReadStatus
    BY <2>1, <2>2 DEF ReadStatus, EdgesCaused
  <2>3. CASE WriteMask \/ OtherAccess \/ (WriteCtrl /\ reset_signal)
    BY <2>1, <2>3 DEF WriteMask, OtherAccess, WriteCtrl, EdgesCaused
  <2>4. CASE WriteCtrl /\ ~reset_signal
    <3>1. PICK enable \in BOOLEAN :
            /\ nmi_pending' = (enable /\ (in_vblank \/ nmi_pending))
            /\ causes' = IF enable /\ ~nmi_enabled /\ in_vblank THEN causes + 1 ELSE causes
      BY <2>4 DEF WriteCtrl
    <3>2. CASE nmi_pending' /\ ~nmi_pending
      <4>1. enable /\ in_vblank /\ ~nmi_enabled
        BY <1>t, <3>1, <3>2 DEF NmiLine
      <4> QED BY <1>n, <2>1, <3>1, <4>1 DEF EdgesCaused
    <3>3. CASE nmi_pending' => nmi_pending
      <4>1. causes' >= causes /\ causes' \in Nat
        BY <1>n, <3>1
      <4> QED BY <1>n, <2>1, <3>3, <4>1 DEF EdgesCaused
    <3> QED BY <3>2, <3>3
  <2> QED BY <1>2, <2>2, <2>3, <2>4 DEF Access
<1>3. ASSUME EndCycle, PollLines PROVE EdgesCaused'
  BY <1>3, <1>n DEF EndCycle, PollLines, EdgesCaused
<1>4. CASE InstrCycle \/ TurnToBrk \/ SequenceCycle \/ EndInstr \/ EndBrk \/ EndSequence
  BY <1>3, <1>4 DEF InstrCycle, TurnToBrk, SequenceCycle, EndInstr, EndBrk, EndSequence, Poll
<1>5. ASSUME NEW o \in Ops, StartCycle(o) PROVE EdgesCaused'
  BY <1>5 DEF StartCycle, EdgesCaused
<1>6. ASSUME NEW hard \in BOOLEAN, Reset(hard) PROVE EdgesCaused'
  BY <1>6 DEF Reset, EdgesCaused
<1>7. CASE UNCHANGED vars
  BY <1>7 DEF vars, EdgesCaused
<1> QED BY <1>1, <1>2, <1>4, <1>5, <1>6, <1>7 DEF Next, Execute

(* A VBL interrupts once, and once more for every time the program enables *)
(* the NMI anew in it, wherever reads of $2002 and resets fall.            *)
THEOREM OncePerCause == Spec => []NmiOncePerCause
<1>1. Init => Counted
  BY DEF Init, Counted, FlagDown, EdgesCaused
<1>2. IInv /\ Counted /\ [Next]_vars => Counted'
  BY FlagStep, EdgeStep DEF Counted
<1>3. Counted => NmiOncePerCause
  BY DEF Counted, EdgesCaused, NmiOncePerCause
<1> QED BY <1>1, <1>2, <1>3, Invariance, PTL DEF Spec

-----------------------------------------------------------------------------
(* The IRQ counter of the VRC boards. *)

(* What every cycle took from the prescaler, less what every division gave *)
(* it back, is what it holds.                                              *)
Balance ==
  scanlines => /\ divisions < Step
               /\ prescalar_counter = Period - Step * elapsed + Period * divisions

(* The counter is as many counts beyond the value it was loaded with.      *)
CountedUp == counter = start + counts

VrcIInv == VrcTypeOK /\ WithinScanline /\ EvenPace /\ Balance /\ CountedUp

-----------------------------------------------------------------------------
(* Arithmetic. *)

(* i16 arithmetic stays within the type and is exact within it.            *)
LEMMA Wrapping ==
  ASSUME NEW n \in Int
  PROVE  /\ Wrapped(n) \in (-PrescalerHalf)..(PrescalerHalf - 1)
         /\ n \in (-PrescalerHalf)..(PrescalerHalf - 1) => Wrapped(n) = n
<1> DEFINE w == 2 * PrescalerHalf
<1>1. w \in Nat \ {0} /\ PrescalerHalf \in Nat /\ n + PrescalerHalf \in Int /\ w = 2 * PrescalerHalf
  BY VrcIrqAssumption
<1>2. Wrapped(n) = ((n + PrescalerHalf) % w) - PrescalerHalf
  BY DEF Wrapped
<1> HIDE DEF w
<1>3. (n + PrescalerHalf) % w \in 0..(w - 1)
  BY <1>1
<1>4. ASSUME n + PrescalerHalf \in 0..(w - 1) PROVE (n + PrescalerHalf) % w = n + PrescalerHalf
  BY <1>1, <1>4
<1> QED
  BY <1>1, <1>2, <1>3, <1>4

(* The values that registers are set to are of their types.                *)
LEMMA Ranges ==
  /\ 0 \in 0..CounterMax /\ 0 \in Nat
  /\ 0 \in (-PrescalerHalf)..(PrescalerHalf - 1)
  /\ Period \in (-PrescalerHalf)..(PrescalerHalf - 1)
BY VrcIrqAssumption

(* A multiple of the step that is less than a step away from 0 is 0.       *)
LEMMA Multiple ==
  ASSUME NEW k \in Int, Step * k > -Step, Step * k <= 0
  PROVE  k = 0
<1>1. Step \in Nat \ {0}
  BY VrcIrqAssumption
<1>2. ASSUME k >= 1 PROVE FALSE
  BY <1>1, <1>2
<1>3. ASSUME k <= -1 PROVE FALSE
  <2>1. Step * k <= Step * (-1)
    BY <1>1, <1>3
  <2> QED
    BY <1>1, <2>1
<1> QED
  BY <1>2, <1>3

-----------------------------------------------------------------------------
(* A cycle of the counter. *)

LEMMA Subtraction ==
  ASSUME VrcTypeOK
  PROVE  /\ Subtracted \in (-PrescalerHalf)..(PrescalerHalf - 1)
         /\ prescalar_counter \in 1..Period => Subtracted = prescalar_counter - Step
<1>1. prescalar_counter \in Int /\ Step \in Nat \ {0} /\ Period \in Nat
      /\ PrescalerHalf \in Nat /\ PrescalerHalf > 2 * Period /\ Period >= 2 * Step
  BY VrcIrqAssumption DEF VrcTypeOK
<1>2. prescalar_counter - Step \in Int
  BY <1>1
<1>3. prescalar_counter \in 1..Period =>
        prescalar_counter - Step \in (-PrescalerHalf)..(PrescalerHalf - 1)
  BY <1>1
<1> QED
  BY <1>2, <1>3, Wrapping DEF Subtracted

(* Within a scanline the prescaler loses a step, gains a scanline when it  *)
(* would reach 0, and stays within.                                        *)
LEMMA PrescaleWithin ==
  ASSUME VrcTypeOK, Prescale, ~cycle_mode, prescalar_counter \in 1..Period
  PROVE  /\ prescalar_counter' = prescalar_counter - Step + (IF Counts THEN Period ELSE 0)
         /\ prescalar_counter' \in 1..Period
         /\ Counts => prescalar_counter' > Period - Step
<1>1. prescalar_counter \in Int /\ Step \in Nat \ {0} /\ Period \in Nat
      /\ PrescalerHalf \in Nat /\ PrescalerHalf > 2 * Period /\ Period >= 2 * Step
  BY VrcIrqAssumption DEF VrcTypeOK
<1>2. Subtracted = prescalar_counter - Step
  BY Subtraction
<1>3. Counts <=> prescalar_counter - Step <= 0
  BY <1>2 DEF Counts
<1>4. CASE Counts
  <2>1. prescalar_counter - Step + Period \in (-PrescalerHalf)..(PrescalerHalf - 1)
        /\ prescalar_counter - Step + Period \in Int
    BY <1>1, <1>3, <1>4
  <2>2. prescalar_counter' = Wrapped(prescalar_counter - Step + Period)
    BY <1>2, <1>4 DEF Prescale
  <2>3. prescalar_counter' = prescalar_counter - Step + Period
    BY <2>1, <2>2, Wrapping
  <2> QED
    BY <1>1, <1>3, <1>4, <2>3
<1>5. CASE ~Counts
  <2>1. prescalar_counter' = prescalar_counter - Step
    BY <1>2, <1>5 DEF Prescale
  <2> QED
    BY <1>1, <1>3, <1>5, <2>1
<1> QED
  BY <1>4, <1>5

LEMMA CountType == VrcTypeOK /\ CountedUp /\ Count => VrcTypeOK' /\ CountedUp'
<1> SUFFICES ASSUME VrcTypeOK, CountedUp, Count PROVE VrcTypeOK' /\ CountedUp'
  OBVIOUS
<1>1. CounterMax \in Nat /\ Step \in Nat \ {0} /\ Period \in Nat
  BY VrcIrqAssumption
<1>2. UNCHANGED <<reload, enabled, enabled_after_ack, cycle_mode, quiet>>
  BY DEF Count, control
<1>3. prescalar_counter' \in (-PrescalerHalf)..(PrescalerHalf - 1)
  <2>1. Subtracted \in (-PrescalerHalf)..(PrescalerHalf - 1)
    BY Subtraction
  <2>2. Subtracted \in Int /\ Subtracted + Period \in Int
    BY <1>1, <2>1, VrcIrqAssumption
  <2> QED
    BY <2>1, <2>2, Wrapping DEF Count, Prescale
<1>4. /\ counter' \in 0..CounterMax /\ start' \in 0..CounterMax /\ counts' \in 0..CounterMax
      /\ pending' \in BOOLEAN /\ CountedUp'
  <2>1. CASE Counts /\ counter = CounterMax
    BY <1>1, <2>1 DEF Count, CountUp, VrcTypeOK, CountedUp
  <2>2. CASE Counts /\ counter # CounterMax
    <3>1. counter' = counter + 1 /\ counts' = counts + 1 /\ start' = start /\ pending' = pending
      BY <2>2 DEF Count, CountUp, VrcTypeOK
    <3> QED
      BY <1>1, <2>2, <3>1 DEF VrcTypeOK, CountedUp
  <2>3. CASE ~Counts
    BY <2>3 DEF Count, VrcTypeOK, CountedUp
  <2> QED
    BY <2>1, <2>2, <2>3
<1>5. elapsed' \in Nat /\ divisions' \in Nat /\ lap' \in Nat /\ scanlines' \in BOOLEAN
  <2>1. elapsed + 1 \in Nat /\ divisions + 1 \in Nat /\ 0 \in Nat
    BY DEF VrcTypeOK
  <2> QED
    BY <2>1, Zenon DEF Count, Lap, VrcTypeOK
<1> QED
  BY <1>2, <1>3, <1>4, <1>5 DEF VrcTypeOK

(* The prescaler comes back to a whole scanline after as many divisions as *)
(* a cycle has dots; it then has taken as many cycles as a scanline dots.  *)
LEMMA CountPace ==
  VrcIInv /\ Count => WithinScanline' /\ EvenPace' /\ Balance'
<1> SUFFICES ASSUME VrcIInv, Count PROVE WithinScanline' /\ EvenPace' /\ Balance'
  OBVIOUS
<1>1. Step \in Nat \ {0} /\ Period \in Nat /\ Period >= 2 * Step
  BY VrcIrqAssumption
<1>2. VrcTypeOK /\ scanlines \in BOOLEAN /\ cycle_mode \in BOOLEAN
      /\ elapsed \in Nat /\ divisions \in Nat /\ lap \in {0, Period} /\ prescalar_counter \in Int
  BY DEF VrcIInv, VrcTypeOK, EvenPace
<1>3. CASE cycle_mode \/ ~scanlines
  BY <1>3 DEF Count, Lap, WithinScanline, EvenPace, Balance
<1>4. CASE ~cycle_mode /\ scanlines
  <2>1. prescalar_counter \in 1..Period /\ divisions < Step
        /\ prescalar_counter = Period - Step * elapsed + Period * divisions
    BY <1>4 DEF VrcIInv, WithinScanline, Balance
  <2>2. /\ prescalar_counter' = prescalar_counter - Step + (IF Counts THEN Period ELSE 0)
        /\ prescalar_counter' \in 1..Period
        /\ Counts => prescalar_counter' > Period - Step
    BY <1>2, <1>4, <2>1, PrescaleWithin DEF Count
  <2>3. scanlines' = scanlines
    BY <1>4 DEF Count, Lap
  <2>4. Step * (elapsed + 1) = Step * elapsed + Step
        /\ Period * (divisions + 1) = Period * divisions + Period
    BY <1>1, <1>2
  <2>5. CASE Counts /\ divisions = Step - 1
    <3>1. elapsed' = 0 /\ divisions' = 0 /\ lap' = elapsed + 1
      BY <1>4, <2>5 DEF Count, Lap
    <3>2. prescalar_counter' = Period - Step * (elapsed + 1) + Period * Step
      <4>1. Period * (divisions + 1) = Period * Step
        BY <1>1, <1>2, <2>5
      <4> QED
        BY <1>1, <1>2, <2>1, <2>2, <2>4, <2>5, <4>1
    <3>3. Period * Step - Step * (elapsed + 1) = Step * (Period - (elapsed + 1))
      BY <1>1, <1>2
    <3>4. Period - (elapsed + 1) = 0
      <4> DEFINE k == Period - (elapsed + 1)
      <4>1. k \in Int /\ Step * k = Period * Step - Step * (elapsed + 1)
        BY <1>1, <1>2, <3>3
      <4>2. Step * k = prescalar_counter' - Period
        <5>1. Step * (elapsed + 1) \in Int /\ Period * Step \in Int
          BY <1>1, <1>2
        <5> QED
          BY <1>1, <3>2, <4>1, <5>1
      <4> HIDE DEF k
      <4>3. Step * k > -Step /\ Step * k <= 0
        BY <1>1, <2>2, <2>5, <4>2
      <4>4. k = 0
        BY <4>1, <4>3, Multiple
      <4> QED
        BY <4>4 DEF k
    <3>5. prescalar_counter' = Period
      BY <1>1, <1>2, <3>2, <3>3, <3>4
    <3>6. Period - Step * 0 + Period * 0 = Period
      BY <1>1
    <3>7. lap' = Period
      BY <1>1, <1>2, <3>1, <3>4
    <3> QED
      BY <1>1, <2>2, <2>3, <3>1, <3>5, <3>6, <3>7 DEF WithinScanline, EvenPace, Balance
  <2>6. CASE Counts /\ divisions # Step - 1
    <3>1. elapsed' = elapsed + 1 /\ divisions' = divisions + 1 /\ lap' = lap
      BY <1>4, <2>6 DEF Count, Lap
    <3>2. prescalar_counter' = Period - Step * (elapsed + 1) + Period * (divisions + 1)
      BY <1>1, <1>2, <2>1, <2>2, <2>4, <2>6
    <3>3. divisions + 1 < Step
      BY <1>1, <1>2, <2>1, <2>6
    <3> QED
      BY <1>2, <2>2, <3>1, <3>2, <3>3 DEF WithinScanline, EvenPace, Balance
  <2>7. CASE ~Counts
    <3>1. elapsed' = elapsed + 1 /\ divisions' = divisions /\ lap' = lap
      BY <1>4, <2>7 DEF Count, Lap
    <3>2. prescalar_counter' = Period - Step * (elapsed + 1) + Period * divisions
      BY <1>1, <1>2, <2>1, <2>2, <2>4, <2>7
    <3> QED
      BY <1>2, <2>1, <2>2, <3>1, <3>2 DEF WithinScanline, EvenPace, Balance
  <2> QED
    BY <2>5, <2>6, <2>7
<1> QED
  BY <1>2, <1>3, <1>4

-----------------------------------------------------------------------------
(* The invariant. *)

(* A prescaler that has just been set to a whole scanline is in balance.   *)
LEMMA Balanced == Period - Step * 0 + Period * 0 = Period /\ Period >= 1 /\ Period \in Nat
BY VrcIrqAssumption

LEMMA VrcInitInv == VrcInit => VrcIInv
<1> SUFFICES ASSUME VrcInit PROVE VrcIInv
  OBVIOUS
<1>1. VrcTypeOK
  BY Ranges, Zenon DEF VrcInit, VrcTypeOK
<1> QED
  BY <1>1 DEF VrcInit, VrcIInv, WithinScanline, EvenPace, Balance, CountedUp

LEMMA VrcNextInv == VrcIInv /\ [VrcNext]_vrc_vars => VrcIInv'
<1> SUFFICES ASSUME VrcIInv, [VrcNext]_vrc_vars PROVE VrcIInv'
  OBVIOUS
<1> USE DEF control, tally
<1>1. ASSUME UNCHANGED <<counter, prescalar_counter, tally>>, VrcTypeOK' PROVE VrcIInv'
  BY <1>1 DEF VrcIInv, WithinScanline, EvenPace, Balance, CountedUp
<1>2. CASE Count
  <2>1. VrcTypeOK' /\ CountedUp'
    BY <1>2, CountType DEF VrcIInv
  <2>2. WithinScanline' /\ EvenPace' /\ Balance'
    BY <1>2, CountPace
  <2> QED
    BY <2>1, <2>2 DEF VrcIInv
<1>3. ASSUME NEW val \in Reloads, WriteReload(val) PROVE VrcIInv'
  <2>1. VrcTypeOK'
    BY <1>3, VrcIrqAssumption DEF WriteReload, VrcIInv, VrcTypeOK
  <2> QED
    BY <1>1, <1>3, <2>1 DEF WriteReload
<1>4. ASSUME NEW enable \in BOOLEAN, NEW after_ack \in BOOLEAN, NEW cycles \in BOOLEAN,
             WriteControl(enable, after_ack, cycles)
      PROVE  VrcIInv'
  <2>1. CASE enable
    <3>1. Start /\ reload' = reload /\ quiet' = quiet /\ pending' = FALSE
          /\ enabled' \in BOOLEAN /\ enabled_after_ack' \in BOOLEAN /\ cycle_mode' \in BOOLEAN
      BY <1>4, <2>1 DEF WriteControl
    <3>2. VrcTypeOK'
      BY <3>1, Ranges, Zenon DEF Start, VrcIInv, VrcTypeOK
    <3>3. WithinScanline' /\ EvenPace' /\ Balance' /\ CountedUp'
      BY <3>1, Balanced, VrcIrqAssumption DEF Start, WithinScanline, EvenPace, Balance, CountedUp, VrcIInv, VrcTypeOK
    <3> QED
      BY <3>2, <3>3 DEF VrcIInv
  <2>2. CASE ~enable
    <3>1. VrcTypeOK'
      BY <1>4, <2>2 DEF WriteControl, VrcIInv, VrcTypeOK
    <3> QED
      BY <1>1, <1>4, <2>2, <3>1 DEF WriteControl
  <2> QED
    BY <2>1, <2>2
<1>5. CASE Acknowledge
  <2>1. VrcTypeOK'
    BY <1>5 DEF Acknowledge, VrcIInv, VrcTypeOK
  <2> QED
    BY <1>1, <1>5, <2>1 DEF Acknowledge
<1>6. CASE VrcReset
  <2>1. VrcTypeOK'
    BY <1>6, Ranges, Zenon DEF VrcReset, VrcIInv, VrcTypeOK
  <2> QED
    BY <1>6, <2>1 DEF VrcReset, VrcIInv, WithinScanline, EvenPace, Balance, CountedUp
<1>7. CASE FallQuiet
  <2>1. VrcTypeOK'
    BY <1>7 DEF FallQuiet, VrcIInv, VrcTypeOK
  <2> QED
    BY <1>1, <1>7, <2>1 DEF FallQuiet
<1>8. CASE UNCHANGED vrc_vars
  <2>1. VrcTypeOK'
    BY <1>8 DEF vrc_vars, VrcIInv, VrcTypeOK
  <2> QED
    BY <1>1, <1>8, <2>1 DEF vrc_vars
<1> QED
  BY <1>2, <1>3, <1>4, <1>5, <1>6, <1>7, <1>8 DEF VrcNext, Clock, Idle

(* The invariant from which the other theorems follow.                     *)
THEOREM VrcInvariance == VrcSpec => []VrcIInv
BY VrcInitInv, VrcNextInv, PTL DEF VrcSpec

(* The prescaler is always an i16 and the counter a u8.                    *)
THEOREM VrcTypeCorrect == VrcSpec => []VrcTypeOK
<1>1. VrcIInv => VrcTypeOK
  BY DEF VrcIInv
<1> QED
  BY <1>1, VrcInvariance, PTL

(* In scanline mode the prescaler cannot wrap around (vrc_irq.rs:55).      *)
THEOREM PrescalerWithinScanline == VrcSpec => []WithinScanline
<1>1. VrcIInv => WithinScanline
  BY DEF VrcIInv
<1> QED
  BY <1>1, VrcInvariance, PTL

(* As many counts as a cycle has dots take exactly as many cycles as a     *)
(* scanline has, whatever is written in between (vrc_irq.rs:55-64).        *)
THEOREM PaceIsEven == VrcSpec => []EvenPace
<1>1. VrcIInv => EvenPace
  BY DEF VrcIInv
<1> QED
  BY <1>1, VrcInvariance, PTL

(* The IRQ comes at the very count the program asked for (vrc_irq.rs:57).  *)
THEOREM IrqPunctual == VrcSpec => Punctual
<1>1. VrcIInv /\ [VrcNext]_vrc_vars => [~pending /\ pending' => counts = CounterMax - start]_vrc_vars
  <2> SUFFICES ASSUME VrcIInv, VrcNext, ~pending, pending' PROVE counts = CounterMax - start
    BY DEF vrc_vars
  <2>1. CASE Count
    <3>1. counter = CounterMax
      BY <2>1 DEF Count, CountUp
    <3> QED
      BY <3>1, VrcIrqAssumption DEF VrcIInv, VrcTypeOK, CountedUp
  <2>2. CASE ~Count
    <3>1. pending' = pending \/ pending' = FALSE
      BY <2>2 DEF VrcNext, Clock, Idle, vrc_vars, WriteReload, WriteControl, Acknowledge, VrcReset, FallQuiet
    <3> QED
      BY <3>1
  <2> QED
    BY <2>1, <2>2
<1> QED
  BY <1>1, VrcInvariance, PTL DEF VrcSpec, Punctual
=============================================================================
