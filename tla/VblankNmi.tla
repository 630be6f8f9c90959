------------------------------ MODULE VblankNmi ------------------------------
(***************************************************************************)
(* Vertical blanking and the interrupts it raises: the PPU's walk over the *)
(* dots of a frame with its VBL flag, NMI line and the registers that      *)
(* touch them (src/src/ppu.rs), run in step with the CPU's cycles, its     *)
(* edge detector, its interrupt polling and its interrupt sequences        *)
(* (src/src/cpu.rs).  The cycle-accurate mode is modelled.                 *)
(*                                                                         *)
(* A CPU cycle is start_cycle, which lets the PPU catch up with half of    *)
(* it, the bus access, and end_cycle, which lets it catch up with the      *)
(* other half and polls the interrupt lines; every dot is an action, so    *)
(* that an access can fall between any two dots.  Sprites and scrolling    *)
(* are left out: nothing here depends on them.                             *)
(***************************************************************************)
EXTENDS Integers

CONSTANTS
  LastDot,         (* CYCLE_END, the last dot of a line: 340.              *)
  VblankLine,      (* vblank_scanline: 241, or 291 on a Dendy.             *)
  PrerenderLine,   (* prerender_scanline: 261, or 311.                     *)
  Divider,         (* Master clocks of a dot: 4, or 5.                     *)
  StartClocks,     (* Master clocks of the first and the second half of a  *)
  EndClocks,       (*   CPU cycle: 6 and 6, 8 and 8, or 7 and 8.           *)
  SkipsDot,        (* Whether odd frames are a dot shorter: on NTSC.       *)
  MaxInstr,        (* Bound: cycles of an instruction.                     *)
  Resets           (* Whether the user may reset the console.              *)

ASSUME VblankNmiAssumption ==
  /\ LastDot \in Nat /\ LastDot >= 3
  /\ VblankLine \in Nat /\ VblankLine > 1
  /\ PrerenderLine \in Nat /\ PrerenderLine > VblankLine
  /\ Divider \in Nat \ {0}
  /\ StartClocks \in Nat /\ StartClocks > 1 /\ EndClocks \in Nat /\ EndClocks > 1
  /\ SkipsDot \in BOOLEAN
  /\ MaxInstr \in Nat /\ MaxInstr >= 2
  /\ Resets \in BOOLEAN

VARIABLES
  at,                (* "idle", or in the "first" or "second" half of a cycle. *)
  op,                (* What the cycle's bus access is.                        *)
  clock,             (* The CPU's master clock, less the PPU's.                *)
  dot, line, odd,    (* Ppu::cycle, Ppu::scanline, and the frame's parity.     *)
  in_vblank, nmi_pending, prevent_vbl,
  nmi_enabled, rendering, reset_signal,
  prev_nmi_pending, nmi, prev_nmi, run_irq, prev_run_irq,
  i_flag,            (* Status::I *)
  seq,               (* What the CPU executes: "reset", "instr", "brk" or "irq". *)
  count,             (* The cycles of it that are over.                        *)
  vector             (* Where the last interrupt sequence went.                *)

VARIABLES            (* History, for the properties only. *)
  by_irq,            (* Whether an IRQ had been polled when irq() was called.  *)
  missed,            (* $2002 was read on the dot before this VBL.             *)
  edges, causes      (* In this VBL: NMIs detected, and reasons to raise one.  *)

ppu_pos   == <<dot, line, odd>>
ppu_flags == <<in_vblank, nmi_pending, prevent_vbl, reset_signal>>
ppu_regs  == <<nmi_enabled, rendering>>
detector  == <<prev_nmi_pending, nmi, prev_nmi, run_irq, prev_run_irq>>
program   == <<i_flag, seq, count, vector, by_irq>>
history   == <<missed, edges, causes>>
vars == <<at, op, clock, ppu_pos, ppu_flags, ppu_regs, detector, program, history>>

Writes == {"write", "$2000", "$2001"}
Ops    == Writes \union {"read", "$2002"}

-----------------------------------------------------------------------------
(* The PPU. *)

VblankDot == 1

(* Mutants: a VBL that was read away comes all the same; a VBL ends with   *)
(* the NMI line up.                                                        *)
StartVblankAlways ==
  /\ in_vblank' = TRUE
  /\ nmi_pending' = nmi_enabled
  /\ prevent_vbl' = FALSE
  /\ edges' = 0
  /\ causes' = 1
  /\ UNCHANGED <<reset_signal, missed>>

StopVblankLineUp ==
  /\ in_vblank' = FALSE
  /\ reset_signal' = FALSE
  /\ missed' = FALSE
  /\ UNCHANGED <<nmi_pending, prevent_vbl, edges, causes>>

(* start_vblank and stop_vblank. *)
StartVblank ==
  /\ in_vblank' = (in_vblank \/ ~prevent_vbl)
  /\ nmi_pending' = IF prevent_vbl THEN nmi_pending ELSE nmi_enabled
  /\ prevent_vbl' = FALSE
  /\ edges' = 0
  /\ causes' = IF ~prevent_vbl /\ nmi_enabled THEN 1 ELSE 0
  /\ UNCHANGED <<reset_signal, missed>>

StopVblank ==
  /\ in_vblank' = FALSE
  /\ nmi_pending' = FALSE
  /\ reset_signal' = FALSE
  /\ missed' = FALSE
  /\ UNCHANGED <<prevent_vbl, edges, causes>>

(* Ppu::clock.  A rendering PPU leaves the last dot out of an odd frame.   *)
SkipsNext == rendering /\ SkipsDot /\ odd /\ line = PrerenderLine /\ dot + 1 = LastDot - 1

NextLine ==
  /\ dot = LastDot
  /\ dot' = 0
  /\ line' = IF line = PrerenderLine THEN 0 ELSE line + 1
  /\ odd' = IF line + 1 = VblankLine - 1 THEN ~odd ELSE odd
  /\ UNCHANGED <<ppu_flags, history>>

NextDot ==
  /\ dot < LastDot
  /\ dot' = IF SkipsNext THEN LastDot ELSE dot + 1
  /\ UNCHANGED <<line, odd>>
  /\ IF dot' = VblankDot /\ line = VblankLine         THEN StartVblank
     ELSE IF dot' = VblankDot /\ line = PrerenderLine THEN StopVblank
     ELSE UNCHANGED <<ppu_flags, history>>

(* A turn of clock_to's loop: the PPU stays one master clock behind.       *)
Behind == Divider <= clock - 1

PpuDot ==
  /\ at # "idle"
  /\ Behind
  /\ clock' = clock - Divider
  /\ NextLine \/ NextDot
  /\ UNCHANGED <<at, op, ppu_regs, detector, program>>

-----------------------------------------------------------------------------
(* The bus accesses. *)

(* write_ctrl and write_mask, which a PPU that was reset ignores until the *)
(* end of its first VBL.                                                   *)
WriteCtrl ==
  /\ op = "$2000"
  /\ IF reset_signal THEN UNCHANGED <<nmi_enabled, nmi_pending, causes>>
     ELSE \E enable \in BOOLEAN :
            /\ nmi_enabled' = enable
            /\ nmi_pending' = (enable /\ (in_vblank \/ nmi_pending))
            /\ causes' = IF enable /\ ~nmi_enabled /\ in_vblank THEN causes + 1 ELSE causes
  /\ UNCHANGED <<rendering, in_vblank, prevent_vbl, missed>>

WriteMask ==
  /\ op = "$2001"
  /\ IF reset_signal THEN UNCHANGED rendering ELSE \E show \in BOOLEAN : rendering' = show
  /\ UNCHANGED <<nmi_enabled, in_vblank, nmi_pending, prevent_vbl, missed, causes>>

(* read_status.  A read on the dot before the flag would be set keeps it   *)
(* from being set.                                                         *)
ReadStatus ==
  /\ op = "$2002"
  /\ nmi_pending' = FALSE
  /\ in_vblank' = FALSE
  /\ LET early == line = VblankLine /\ dot = VblankDot - 1
     IN  /\ prevent_vbl' = (prevent_vbl \/ early)
         /\ missed' = (missed \/ early)
  /\ UNCHANGED <<ppu_regs, causes>>

OtherAccess ==
  /\ op \in {"read", "write"}
  /\ UNCHANGED <<ppu_regs, in_vblank, nmi_pending, prevent_vbl, missed, causes>>

-----------------------------------------------------------------------------
(* The CPU's cycles. *)

(* What the next cycle may access: an instruction begins with a read of    *)
(* its code, and an interrupt reads twice, pushes three bytes and reads    *)
(* its vector.                                                             *)
MayAccess(o) ==
  CASE seq = "reset"         -> o = "read"
    [] seq = "instr"         -> count = 0 => o = "read"
    [] seq \in {"brk", "irq"} -> o = IF count \in 2..4 THEN "write" ELSE "read"

(* The third push settles which vector is taken.                           *)
PushStatus ==
  IF seq \in {"brk", "irq"} /\ count = 4
  THEN /\ vector' = IF nmi THEN "nmi" ELSE "irq"
       /\ nmi' = FALSE
  ELSE UNCHANGED <<vector, nmi>>

(* start_cycle *)
StartCycle(o) ==
  /\ at = "idle"
  /\ MayAccess(o)
  /\ at' = "first"
  /\ op' = o
  /\ clock' = clock + (IF o \in Writes THEN StartClocks + 1 ELSE StartClocks - 1)
  /\ PushStatus
  /\ UNCHANGED <<ppu_pos, ppu_flags, ppu_regs, history, prev_nmi_pending, prev_nmi,
                 run_irq, prev_run_irq, i_flag, seq, count, by_irq>>

(* The access, between the halves of the cycle, and the start of end_cycle. *)
Access ==
  /\ at = "first" /\ ~Behind
  /\ at' = "second"
  /\ clock' = clock + (IF op \in Writes THEN EndClocks - 1 ELSE EndClocks + 1)
  /\ WriteCtrl \/ WriteMask \/ ReadStatus \/ OtherAccess
  /\ UNCHANGED <<op, ppu_pos, reset_signal, detector, program, edges>>

(* Mutant: the line is taken for a level. *)
PollLinesLevel ==
  /\ nmi' = (nmi \/ nmi_pending)
  /\ prev_nmi_pending' = FALSE
  /\ edges' = IF nmi_pending THEN edges + 1 ELSE edges
  /\ prev_run_irq' = run_irq
  /\ \E irq \in BOOLEAN : run_irq' = (irq /\ ~i_flag)

(* handle_interrupts, where the IRQ lines may be at either level: also the *)
(* low one of an IRQ that a taken branch drops.                            *)
PollLines ==
  /\ nmi' = (nmi \/ (nmi_pending /\ ~prev_nmi_pending))
  /\ prev_nmi_pending' = nmi_pending
  /\ edges' = IF nmi_pending /\ ~prev_nmi_pending THEN edges + 1 ELSE edges
  /\ prev_run_irq' = run_irq
  /\ \E irq \in BOOLEAN : run_irq' = (irq /\ ~i_flag)

Poll == PollLines /\ prev_nmi' = nmi

EndCycle ==
  /\ at = "second" /\ ~Behind
  /\ at' = "idle"
  /\ UNCHANGED <<op, clock, ppu_pos, ppu_flags, ppu_regs, missed, causes>>

(* A cycle that does not end an instruction.  BRK is one whose third cycle *)
(* begins to push.  Instructions may change I.                             *)
InstrCycle ==
  /\ EndCycle /\ Poll
  /\ seq = "instr" /\ count + 1 < MaxInstr
  /\ count' = count + 1
  /\ i_flag' \in BOOLEAN
  /\ UNCHANGED <<seq, vector, by_irq>>

TurnToBrk ==
  /\ EndCycle /\ Poll
  /\ seq = "instr" /\ count = 1
  /\ seq' = "brk" /\ count' = 2
  /\ UNCHANGED <<i_flag, vector, by_irq>>

(* A cycle that does not end a reset, a BRK or an interrupt.  The last two *)
(* set I once the status is pushed.                                        *)
SequenceLength == 7

SequenceCycle ==
  /\ EndCycle /\ Poll
  /\ seq # "instr" /\ count + 1 < SequenceLength
  /\ count' = count + 1
  /\ i_flag' = (i_flag \/ (seq # "reset" /\ count = 4))
  /\ UNCHANGED <<seq, vector, by_irq>>

(* Mutant: only an IRQ is looked for. *)
BoundaryIrqOnly(nmi_polled) ==
  /\ count' = 0
  /\ seq' = IF run_irq THEN "irq" ELSE "instr"
  /\ by_irq' = run_irq
  /\ vector' = "none"

(* What clock_inspect does after an instruction: the next one, or irq() if *)
(* the poll of its last but one cycle asks for it.                         *)
Boundary(nmi_polled) ==
  /\ count' = 0
  /\ seq' = IF run_irq \/ nmi_polled THEN "irq" ELSE "instr"
  /\ by_irq' = run_irq
  /\ vector' = "none"

EndInstr ==
  /\ EndCycle /\ Poll
  /\ seq = "instr" /\ count >= 1
  /\ Boundary(nmi)
  /\ i_flag' \in BOOLEAN

(* A BRK hides an NMI that was detected too late for it.                   *)
EndBrk ==
  /\ EndCycle /\ PollLines
  /\ seq = "brk" /\ count + 1 = SequenceLength
  /\ prev_nmi' = FALSE
  /\ Boundary(FALSE)
  /\ UNCHANGED i_flag

(* After a reset or an interrupt, an instruction is executed in any case.  *)
EndSequence ==
  /\ EndCycle /\ Poll
  /\ seq \in {"reset", "irq"} /\ count + 1 = SequenceLength
  /\ seq' = "instr" /\ count' = 0
  /\ by_irq' = FALSE /\ vector' = "none"
  /\ UNCHANGED i_flag

(* Cpu::reset and Ppu::reset, between two instructions.                    *)
Reset(hard) ==
  /\ Resets
  /\ at = "idle" /\ count = 0
  /\ clock' = 0
  /\ dot' = 0 /\ line' = 0 /\ odd' = FALSE
  /\ in_vblank' = (in_vblank /\ ~hard)
  /\ nmi_pending' = FALSE /\ prevent_vbl' = FALSE /\ reset_signal' = TRUE
  /\ nmi_enabled' = FALSE /\ rendering' = FALSE
  /\ prev_nmi_pending' = FALSE /\ nmi' = FALSE /\ prev_nmi' = FALSE
  /\ run_irq' = FALSE /\ prev_run_irq' = FALSE
  /\ i_flag' = TRUE
  /\ seq' = "reset" /\ count' = 0 /\ vector' = "none" /\ by_irq' = FALSE
  /\ missed' = FALSE /\ edges' = 0 /\ causes' = 0
  /\ UNCHANGED <<at, op>>

-----------------------------------------------------------------------------
Init ==
  /\ at = "idle" /\ op = "read" /\ clock = 0
  /\ dot = 0 /\ line = 0 /\ odd = FALSE
  /\ in_vblank = FALSE /\ nmi_pending = FALSE /\ prevent_vbl = FALSE
  /\ nmi_enabled = FALSE /\ rendering = FALSE /\ reset_signal = TRUE
  /\ prev_nmi_pending = FALSE /\ nmi = FALSE /\ prev_nmi = FALSE
  /\ run_irq = FALSE /\ prev_run_irq = FALSE
  /\ i_flag = TRUE
  /\ seq = "reset" /\ count = 0 /\ vector = "none" /\ by_irq = FALSE
  /\ missed = FALSE /\ edges = 0 /\ causes = 0

Execute ==
  \/ PpuDot
  \/ \E o \in Ops : StartCycle(o)
  \/ Access
  \/ InstrCycle \/ TurnToBrk \/ SequenceCycle
  \/ EndInstr \/ EndBrk \/ EndSequence

Next == Execute \/ \E hard \in BOOLEAN : Reset(hard)

(* While the emulator runs, its thread executes instruction after          *)
(* instruction, and each of them ends.                                     *)
Fairness == WF_vars(Execute)

Spec     == Init /\ [][Next]_vars
FairSpec == Spec /\ Fairness

-----------------------------------------------------------------------------
TypeOK ==
  /\ at \in {"idle", "first", "second"} /\ op \in Ops /\ clock \in Nat
  /\ dot \in 0..LastDot /\ line \in 0..PrerenderLine /\ odd \in BOOLEAN
  /\ in_vblank \in BOOLEAN /\ nmi_pending \in BOOLEAN /\ prevent_vbl \in BOOLEAN
  /\ nmi_enabled \in BOOLEAN /\ rendering \in BOOLEAN /\ reset_signal \in BOOLEAN
  /\ prev_nmi_pending \in BOOLEAN /\ nmi \in BOOLEAN /\ prev_nmi \in BOOLEAN
  /\ run_irq \in BOOLEAN /\ prev_run_irq \in BOOLEAN /\ i_flag \in BOOLEAN
  /\ seq \in {"reset", "instr", "brk", "irq"} /\ count \in Nat
  /\ vector \in {"none", "nmi", "irq"} /\ by_irq \in BOOLEAN
  /\ missed \in BOOLEAN /\ edges \in Nat /\ causes \in Nat

(* The NMI line is up exactly while the VBL flag is set and the program    *)
(* enabled the NMI, whatever reads, writes, dots and resets come in what   *)
(* order (docs/ppu/ppu_2c02_ref.txt: the NAND of 2002.7 and 2000.7).       *)
NmiLine == nmi_pending = (in_vblank /\ nmi_enabled)

(* A read of $2002 on the dot before the flag is due leaves the frame      *)
(* without flag and without NMI (docs/ppu/vbl_nmi_readme.txt, test 06).    *)
MissedVblank == missed => ~in_vblank /\ ~nmi_pending

(* A VBL interrupts at most once, and once more for every time the program *)
(* enables the NMI anew while the flag is set (test 04).                   *)
NmiOncePerCause == edges <= causes

(* An interrupt sequence entered only for an NMI takes the NMI's vector,   *)
(* so that a program is never sent to its IRQ handler without an IRQ.      *)
NoSpuriousIrq == seq = "irq" /\ vector = "irq" => by_irq

(* The PPU is where the CPU's clock says whenever the bus is accessed and  *)
(* whenever a cycle is over: never ahead, and by less than a dot behind.   *)
InStep == at = "idle" \/ (at = "first" /\ ~Behind) => clock \in 0..Divider

(* Every NMI detected is taken, also one that arrives inside an IRQ        *)
(* sequence or a BRK, and however long the program masks IRQs; only a      *)
(* reset takes it back.                                                    *)
NmiTaken == nmi ~> vector = "nmi" \/ seq = "reset"
=============================================================================
