---------------------------- MODULE Instructions ----------------------------
(***************************************************************************)
(* The instructions of the CPU, bus cycle by bus cycle, and the points in  *)
(* them at which interrupts are polled, delayed and taken                  *)
(* (src/src/cpu/instr.rs; src/src/cpu.rs: clock_inspect, irq,              *)
(* handle_interrupts, fetch_data, write_fetched, push, pop, reset).        *)
(*                                                                         *)
(* An instruction is a call of its addressing mode's function and then of  *)
(* its operation's; each makes a sequence of bus cycles, and every cycle   *)
(* polls the interrupt lines when it ends.  What the code does between two *)
(* cycles belongs to the cycle before.                                     *)
(*                                                                         *)
(* The registers A, X and Y, the flags other than I and the contents of    *)
(* memory outside the stack are left out: which opcode is fetched, whether *)
(* an index carries into the page, whether a branch is taken and where it  *)
(* leads can be anything.  So can the levels of the interrupt lines.  What *)
(* an invalid opcode reports to the control deck is left out as well: the  *)
(* CPU goes on after it as after a NOP.                                    *)
(*                                                                         *)
(* What would be called as in CpuDma has a name of its own (InstrNext,     *)
(* ResetCpu), so that the proofs about both can share a module.            *)
(***************************************************************************)
EXTENDS BusCycles, Sequences, FiniteSets

CONSTANTS
  Size,         (* Values of a byte: 256.                                   *)
  Programs      (* The programs: the operations that one executes, where    *)
                (* its stores go, whether the PPU may raise NMIs and the    *)
                (* user reset the console; the bytes of its stack (256),    *)
                (* and the return addresses remembered for Returns.         *)

ASSUME InstructionsAssumption ==
  /\ Size \in Nat /\ Size >= 2
  /\ \A p \in Programs :
       /\ p.written \subseteq Targets \ {"none"} /\ "ram" \in p.written
       /\ p.nmis \in BOOLEAN /\ p.resets \in BOOLEAN
       /\ p.stack \in Nat /\ p.stack >= 1
       /\ p.frames \in Nat /\ (p.frames > 0 => p.stack >= 3)

VARIABLES
  program,      (* The program.                                             *)
  seq,          (* What the CPU is in: "instr", "irq" or "reset".           *)
  instr,        (* The instruction, of Table.                               *)
  step,         (* Bus cycles done of it, or of the other sequences.        *)
  crossed,      (* Whether its address lies in the next page.               *)
  taken,        (* Whether it is a branch that is taken.                    *)
  pc, sp,       (* The program counter and the stack pointer.               *)
  stack,        (* The page of memory at SP_BASE.                           *)
  latch,        (* The low byte of an address being popped.                 *)
  i_flag,       (* Status::I: IRQs are disabled.                            *)
  run_irq, prev_run_irq,              (* Cpu's latches of the same names.   *)
  nmi, prev_nmi, prev_nmi_pending

VARIABLES       (* History, for the properties only. *)
  i_before,     (* i_flag when the instruction began.                       *)
  waited,       (* Instructions ended since an IRQ asked without a pause.   *)
  frames        (* Return addresses on the stack, not overwritten yet.      *)

fetched   == <<seq, instr, step, crossed, taken, i_before>>
stack_vars == <<sp, stack, frames>>
latches   == <<run_irq, prev_run_irq, nmi, prev_nmi, prev_nmi_pending, waited>>
instr_vars == <<program, fetched, pc, stack_vars, latch, i_flag, latches, program_vars>>

Bytes     == 0..(Size - 1)
Words     == 0..(Size * Size - 1)
StackLen  == program.stack
StackTop  == 0..(StackLen - 1)

Word(a)   == a % (Size * Size)
Up(s)     == (s + 1) % StackLen
Down(s)   == (s + StackLen - 1) % StackLen

(* The I bit of a pushed status byte. *)
Masks(status) == status % 2 = 1

-----------------------------------------------------------------------------
(* The operations, by the bus cycles that they make. *)

Loads     == {"LDA", "LDX", "LDY"}
Sums      == {"ADC", "SBC"}
Logic     == {"AND", "BIT", "EOR", "ORA"}
Compares  == {"CMP", "CPX", "CPY"}
Nops      == {"NOP", "SKB", "IGN"}
Combined  == {"AXS", "LAS", "LAX", "XAA", "ARR", "ALR", "ANC"}
Reading   == Loads \union Sums \union Logic \union Compares \union Nops \union Combined

Shifts    == {"ASL", "LSR", "ROL", "ROR"}
Counts    == {"DEC", "INC"}
Twofold   == {"ISB", "DCP", "RRA", "SRE", "RLA", "SLO"}
Modifying == Shifts \union Counts \union Twofold

Stores    == {"STA", "STX", "STY", "TAS"}
Masked    == {"AHX", "SXA", "SYA"}

Branches  == {"BCC", "BCS", "BEQ", "BMI", "BNE", "BPL", "BVC", "BVS"}
Transfers == {"TAX", "TAY", "TSX", "TXA", "TXS", "TYA"}
Steps     == {"DEX", "DEY", "INX", "INY"}
Flags     == {"CLC", "SEC", "CLD", "SED", "CLI", "SEI", "CLV"}
Silent    == Transfers \union Steps \union Flags \union {"XXX"}

Rows(mode, ops, cycles) == {[mode |-> mode, op |-> op, cycles |-> cycles] : op \in ops}

(* The operations that have all the modes which compute an address from a  *)
(* word or from X or Y, and those of both forms of direct addressing.      *)
General == {"LDA", "AND", "EOR", "ORA", "CMP"} \union Sums
Direct  == General \union Compares \union Loads
             \union {"LAX", "BIT", "NOP", "STA", "STX", "STY", "SAX"}

(* Cpu::INSTRUCTIONS, without the opcodes. *)
Table == UNION {
  Rows("IMM", General \union Compares \union Loads \union {"LAX", "SKB"}, 2),
  Rows("IMM", {"AXS", "XAA", "ARR", "ALR", "ANC"}, 2),
  Rows("IMM", {"BRK"}, 7),
  Rows("ZP0", Direct, 3),
  Rows("ZP0", Modifying, 5),
  Rows("ZPX", General \union {"LDY", "NOP", "STA", "STY"}, 4),
  Rows("ZPX", Modifying, 6),
  Rows("ZPY", {"LAX", "LDX", "SAX", "STX"}, 4),
  Rows("ABS", {"JMP"}, 3),
  Rows("ABS", Direct, 4),
  Rows("ABS", Modifying \union {"JSR"}, 6),
  Rows("ABX", General \union {"LDY", "IGN"}, 4),
  Rows("ABX", {"STA", "SYA"}, 5),
  Rows("ABX", Modifying, 7),
  Rows("ABY", General \union {"LDX", "LAS", "LAX"}, 4),
  Rows("ABY", {"AHX", "STA", "SXA", "TAS"}, 5),
  Rows("ABY", Twofold, 7),
  Rows("IND", {"JMP"}, 5),
  Rows("IDX", General \union {"LAX", "SAX", "STA"}, 6),
  Rows("IDX", Twofold, 8),
  Rows("IDY", General \union {"LAX"}, 5),
  Rows("IDY", {"AHX", "STA"}, 6),
  Rows("IDY", Twofold, 8),
  Rows("REL", Branches, 2),
  Rows("ACC", Shifts, 2),
  Rows("IMP", Silent \union {"NOP"}, 2),
  Rows("IMP", {"PHA", "PHP"}, 3),
  Rows("IMP", {"PLA", "PLP"}, 4),
  Rows("IMP", {"RTI", "RTS"}, 6) }

NoInstr == [mode |-> "none", op |-> "none", cycles |-> 0]
Program == {i \in Table : i.op \in program.ops}

-----------------------------------------------------------------------------
(* The bus cycles of an instruction.  "operand" reads at pc and moves it,  *)
(* "read" is any other read outside the stack, "write" is a store, and the *)
(* others push and pop.                                                    *)

Implied         == <<"read">>
Immediate       == <<>>
ZeroPage        == <<"operand">>
ZeroPageIndexed == <<"operand", "read">>
Absolute        == <<"operand", "operand">>
AbsoluteIndexed == <<"operand", "operand", "read">>
Indirect        == <<"operand", "operand", "read", "read">>
IndexedIndirect == <<"operand", "read", "read", "read">>
IndirectIndexed == <<"operand", "read", "read", "read">>

AddressCycles(mode) ==
  CASE mode \in {"ACC", "IMP"}        -> Implied
    [] mode = "IMM"                   -> Immediate
    [] mode \in {"ZP0", "REL"}        -> ZeroPage
    [] mode \in {"ZPX", "ZPY"}        -> ZeroPageIndexed
    [] mode = "ABS"                   -> Absolute
    [] mode \in {"ABX", "ABY"}        -> AbsoluteIndexed
    [] mode = "IND"                   -> Indirect
    [] mode = "IDX"                   -> IndexedIndirect
    [] mode = "IDY"                   -> IndirectIndexed

(* The modes whose first read may be of the wrong page, and the operations *)
(* that read again only if it was.                                         *)
Indexed == {"ABX", "ABY", "IDY"}

(* Mutant: only the documented operations. *)
RereadsOfficial == {"LDA", "LDX", "LDY", "EOR", "AND", "ORA", "ADC", "SBC", "CMP", "BIT"}

Rereads == {"LDA", "LDX", "LDY", "EOR", "AND", "ORA", "ADC", "SBC", "CMP", "BIT",
            "LAX", "NOP", "IGN", "LAS"}

FetchData ==
  IF \/ instr.mode \in {"IMP", "ACC"}
     \/ instr.mode \in Indexed /\ instr.op \in Rereads /\ ~crossed
  THEN <<>>
  ELSE <<"read">>

WriteFetched == IF instr.mode \in {"IMP", "ACC", "IMM"} THEN <<>> ELSE <<"write">>

(* Mutant: the operand is not read before it is written back. *)
ModifyUnread == WriteFetched \o WriteFetched

(* The value is written back before the new one is. *)
Modify == FetchData \o WriteFetched \o WriteFetched

Branch ==
  IF ~taken THEN <<>> ELSE IF crossed THEN <<"read", "read">> ELSE <<"read">>

Break == FetchData \o <<"push_high", "push_low", "push_status", "read", "read">>

OperationCycles ==
  LET op == instr.op
  IN CASE op \in Reading   -> FetchData
       [] op \in Modifying -> Modify
       [] op \in Stores    -> <<"write">>
       [] op \in Masked    -> WriteFetched
       [] op = "SAX"       -> IF instr.mode = "IDY" THEN FetchData \o WriteFetched ELSE WriteFetched
       [] op \in Branches  -> Branch
       [] op = "JSR"       -> <<"read", "push_high", "push_low">>
       [] op = "RTI"       -> <<"read", "pop_status", "pop_low", "pop_high">>
       [] op = "RTS"       -> <<"read", "pop_low", "pop_high", "read">>
       [] op = "PHP"       -> <<"push_status">>
       [] op = "PHA"       -> <<"push">>
       [] op = "PLP"       -> <<"read", "pop_status">>
       [] op = "PLA"       -> <<"read", "pop">>
       [] op = "BRK"       -> Break
       [] OTHER            -> <<>>

IrqCycles   == <<"read", "read", "push_high", "push_low", "push_status", "read", "read">>
ResetSequence == [i \in 1..7 |-> "idle"]

Sequence ==
  CASE seq = "instr" -> <<"opcode">> \o AddressCycles(instr.mode) \o OperationCycles
    [] seq = "irq"   -> IrqCycles
    [] seq = "reset" -> ResetSequence

Between == seq = "instr" /\ step = 0

Does(kinds) == ~Between /\ Sequence[step + 1] \in kinds

Last == ~Between /\ step + 1 = Len(Sequence)

(* Whether the CPU is in a sequence that interrupts the program. *)
Breaks == seq = "irq" \/ instr.op = "BRK"

-----------------------------------------------------------------------------
(* The end of a cycle. *)

(* Mutant: the I flag is not looked at. *)
PolledUnmasked(irq) == irq

Polled(irq) == irq /\ ~i_flag

(* Mutant: a branch forgets an IRQ that was polled earlier, too. *)
ForgetsAll == Does({"operand"}) /\ taken

(* A branch that is about to be taken forgets an IRQ that was first polled *)
(* in the cycle that just ended.                                           *)
ForgetsIrq == Does({"operand"}) /\ taken /\ ~run_irq

(* Once the return address is pushed, a pending NMI takes the sequence     *)
(* over.                                                                   *)
TakesNmi == Breaks /\ Does({"push_low"})

(* BRK keeps the CPU from taking an NMI right after it. *)
SuppressesNmi == Last /\ seq = "instr" /\ instr.op = "BRK"

(* After an instruction, the latches as its last cycle left them. *)
Interrupted == seq = "instr" /\ (run_irq \/ (nmi /\ ~SuppressesNmi))

(* handle_interrupts at the end of a cycle, and what the code does to the  *)
(* latches before the next one: if `done', the cycle is one of Sequence,   *)
(* and otherwise one of a transfer that delays it.                         *)
Poll(done) ==
  \E irq \in BOOLEAN, line \in {l \in BOOLEAN : l => program.nmis} :
    /\ prev_nmi' = (nmi /\ ~(done /\ SuppressesNmi))
    /\ nmi' = ((nmi \/ (line /\ ~prev_nmi_pending)) /\ ~(done /\ TakesNmi))
    /\ prev_nmi_pending' = line
    /\ prev_run_irq' = run_irq
    /\ run_irq' = (Polled(irq) /\ ~(done /\ ForgetsIrq))
    /\ waited' = IF i_flag \/ ~irq \/ (done /\ Last /\ Interrupted) THEN 0
                 ELSE IF done /\ Last THEN waited + 1 ELSE waited

(* Where pc is after the cycle, if the cycle itself leaves it at p.        *)
Arrives(p) ==
  IF ~Last THEN {p}
  ELSE IF Breaks \/ instr.op \in {"JMP", "JSR"} THEN Words
  ELSE IF taken THEN {q \in Words : (q \div Size # p \div Size) = crossed}
  ELSE {p}

(* And sp: TXS and TAS load it. *)
Points(s) == IF Last /\ instr.op \in {"TXS", "TAS"} THEN StackTop ELSE {s}

Disables == IF Last /\ instr.op = "SEI" THEN TRUE
            ELSE IF Last /\ instr.op = "CLI" THEN FALSE ELSE i_flag

(* The sequence goes on, or the next one begins. *)
GoOn ==
  /\ step'  = IF Last THEN 0 ELSE step + 1
  /\ seq'   = IF Last THEN (IF Interrupted THEN "irq" ELSE "instr") ELSE seq
  /\ instr' = IF Last THEN NoInstr ELSE instr
  /\ crossed'  = (crossed /\ ~Last)
  /\ taken'    = (taken /\ ~Last)
  /\ i_before' = (i_before /\ ~Last)

FinishCycle == Poll(TRUE) /\ GoOn

-----------------------------------------------------------------------------
(* The cycles. *)

(* Reads are delayed by transfers (CpuDma), whose cycles poll as well.     *)
Stall ==
  /\ Between \/ Does({"read", "operand", "pop", "pop_status", "pop_low", "pop_high"})
  /\ Poll(FALSE)
  /\ UNCHANGED <<fetched, pc, stack_vars, latch, i_flag, program_vars>>

(* The mode IMM skips its operand without reading it. *)
Fetch ==
  /\ Between
  /\ Poll(FALSE)
  /\ \E i \in Program :
       /\ instr' = i
       /\ crossed' \in {c \in BOOLEAN : c => i.mode \in Indexed \union {"REL"}}
       /\ taken' \in {t \in BOOLEAN : t => i.op \in Branches}
       /\ pc' = Word(pc + (IF i.mode = "IMM" THEN 2 ELSE 1))
  /\ step' = 1
  /\ i_before' = i_flag
  /\ CountRead
  /\ UNCHANGED <<seq, stack_vars, latch, i_flag>>

ReadOperand ==
  /\ Does({"operand"})
  /\ FinishCycle
  /\ pc' \in Arrives(Word(pc + 1))
  /\ CountRead
  /\ UNCHANGED <<stack_vars, latch, i_flag>>

Read ==
  /\ Does({"read"})
  /\ FinishCycle
  /\ pc' \in Arrives(pc)
  /\ sp' \in Points(sp)
  /\ i_flag' = Disables
  /\ CountRead
  /\ UNCHANGED <<stack, frames, latch>>

(* The second write of Modify goes where the first one went. *)
Places ==
  IF writes > 0 THEN {target}
  ELSE IF instr.mode \in {"ZP0", "ZPX", "ZPY"} THEN {"ram"} ELSE program.written

Intact(s) == {f \in frames : s \notin f.at}

(* A store to memory may hit the stack. *)
Write ==
  /\ Does({"write"})
  /\ FinishCycle
  /\ \E t \in Places :
       /\ target' = t
       /\ \/ UNCHANGED <<stack, frames>>
          \/ /\ t = "ram" /\ instr.mode \notin {"ZP0", "ZPX", "ZPY"}
             /\ \E s \in StackTop, b \in Bytes :
                  /\ stack' = [stack EXCEPT ![s] = b]
                  /\ frames' = Intact(s)
  /\ writes' = writes + 1
  /\ sp' \in Points(sp)
  /\ UNCHANGED <<pc, latch, i_flag, reads>>

(* Pushing and popping. *)
Push(b) ==
  /\ FinishCycle
  /\ stack' = [stack EXCEPT ![sp] = b]
  /\ sp' = Down(sp)
  /\ target' = "ram" /\ writes' = writes + 1
  /\ UNCHANGED <<latch, reads>>

PushByte ==
  /\ Does({"push"})
  /\ \E b \in Bytes : Push(b)
  /\ frames' = Intact(sp)
  /\ UNCHANGED <<pc, i_flag>>

(* Mutant: JSR pushes the address of the next instruction. *)
PushedNext == pc

(* JSR pushes the address of its last byte. *)
Pushed == IF instr.op = "JSR" THEN Word(pc + Size * Size - 1) ELSE pc

PushHigh ==
  /\ Does({"push_high"})
  /\ Push(Pushed \div Size)
  /\ frames' = Intact(sp)
  /\ UNCHANGED <<pc, i_flag>>

Remember(frame) ==
  frames' = IF Cardinality(Intact(sp)) < program.frames THEN Intact(sp) \union {frame} ELSE Intact(sp)

PushLow ==
  /\ Does({"push_low"})
  /\ Push(Pushed % Size)
  /\ pc' \in Arrives(pc)
  /\ IF instr.op = "JSR"
     THEN Remember([until |-> "RTS", at |-> {sp, Up(sp)}, sp |-> Up(sp), pc |-> pc, i |-> FALSE])
     ELSE frames' = Intact(sp)
  /\ UNCHANGED i_flag

(* BRK and interrupts set the I flag once it is pushed. *)
PushStatus ==
  /\ Does({"push_status"})
  /\ \E b \in {c \in Bytes : Masks(c) = i_flag} : Push(b)
  /\ IF Breaks
     THEN Remember([until |-> "RTI", at |-> {sp, Up(sp), Up(Up(sp))}, sp |-> Up(Up(sp)), pc |-> pc, i |-> i_flag])
     ELSE frames' = Intact(sp)
  /\ i_flag' = (Breaks \/ i_flag)
  /\ UNCHANGED pc

Pop ==
  /\ FinishCycle
  /\ sp' = Up(sp)
  /\ CountRead
  /\ UNCHANGED <<stack, frames>>

PopByte ==
  /\ Does({"pop"})
  /\ Pop
  /\ UNCHANGED <<pc, latch, i_flag>>

PopStatus ==
  /\ Does({"pop_status"})
  /\ Pop
  /\ i_flag' = Masks(stack[Up(sp)])
  /\ UNCHANGED <<pc, latch>>

PopLow ==
  /\ Does({"pop_low"})
  /\ Pop
  /\ latch' = stack[Up(sp)]
  /\ UNCHANGED <<pc, i_flag>>

(* RTS returns to the byte after the address it popped. *)
PopHigh ==
  /\ Does({"pop_high"})
  /\ Pop
  /\ pc' = Word(latch + Size * stack[Up(sp)] + (IF instr.op = "RTS" THEN 1 ELSE 0))
  /\ latch' = 0
  /\ UNCHANGED i_flag

-----------------------------------------------------------------------------
(* Cpu::reset, between two instructions, and the seven cycles after it,    *)
(* which read nothing.  The power cycle refills memory.                    *)
ResetCpu(hard) ==
  /\ program.resets
  /\ Between
  /\ seq' = "reset"
  /\ pc' \in Words
  /\ sp' = IF hard THEN (2 * StackLen - 3) % StackLen ELSE Down(Down(Down(sp)))
  /\ i_flag' = TRUE
  /\ run_irq' = FALSE /\ prev_run_irq' = FALSE
  /\ nmi' = FALSE /\ prev_nmi' = FALSE /\ prev_nmi_pending' = FALSE
  /\ waited' = 0
  /\ IF hard
     THEN stack' \in [StackTop -> Bytes] /\ frames' = {}
     ELSE UNCHANGED <<stack, frames>>
  /\ Forget
  /\ UNCHANGED <<instr, step, crossed, taken, i_before, latch>>

ResetStep ==
  /\ Does({"idle"})
  /\ FinishCycle
  /\ UNCHANGED <<pc, stack_vars, latch, i_flag, program_vars>>

(* After power-on, with the reset sequence ahead. *)
InstrInit ==
  /\ program \in Programs
  /\ seq = "reset" /\ instr = NoInstr /\ step = 0
  /\ crossed = FALSE /\ taken = FALSE
  /\ pc \in Words
  /\ sp = (2 * StackLen - 3) % StackLen
  /\ stack = [s \in StackTop |-> 0]
  /\ latch = 0
  /\ i_flag = TRUE
  /\ run_irq = FALSE /\ prev_run_irq = FALSE
  /\ nmi = FALSE /\ prev_nmi = FALSE /\ prev_nmi_pending = FALSE
  /\ i_before = FALSE /\ waited = 0 /\ frames = {}
  /\ BusInit

Step ==
  \/ Stall \/ Fetch \/ ReadOperand \/ Read \/ Write
  \/ PushByte \/ PushHigh \/ PushLow \/ PushStatus
  \/ PopByte \/ PopStatus \/ PopLow \/ PopHigh
  \/ \E hard \in BOOLEAN : ResetCpu(hard)
  \/ ResetStep

InstrNext == Step /\ UNCHANGED program

InstrSpec == InstrInit /\ [][InstrNext]_instr_vars

-----------------------------------------------------------------------------
(* An instruction takes the cycles that the table says, and one more if it *)
(* reads across a page; a branch one more if taken, and another if it      *)
(* leads to another page.                                                  *)
Extra ==
  CASE instr.mode \in Indexed -> IF crossed /\ instr.op \in Reading THEN 1 ELSE 0
    [] instr.mode = "REL"     -> IF taken THEN (IF crossed THEN 2 ELSE 1) ELSE 0
    [] OTHER                  -> 0

TakesItsTime == seq = "instr" /\ Last => step + 1 = instr.cycles + Extra

(* An IRQ that asks without a pause, while IRQs are enabled, waits for the *)
(* end of the instruction in which it came and of the next one, no more,   *)
(* whatever branches are taken and transfers made.                         *)
IrqServedSoon == waited <= 1

(* A change of the I flag takes effect after the next instruction: an IRQ  *)
(* is taken after an instruction only if they were enabled before it.  RTI *)
(* restores the flag in time, and BRK sets it.                             *)
MaskDelayed ==
  [][Last /\ Interrupted /\ run_irq =>
       /\ instr.op # "BRK"
       /\ IF instr.op = "RTI" THEN ~i_flag ELSE ~i_before]_instr_vars

(* The bus sees reads and writes in the order that transfers rely on.      *)
IsBusProgram == BusSpec

(* An interrupt, a BRK or a call whose return address is still on the      *)
(* stack, and that the program returns from at that place, resumes at the  *)
(* next instruction, with the I flag as it was.                            *)
Returns ==
  [][sp' # sp => \A f \in frames :
       /\ Does({"pop_high"}) /\ instr.op = f.until /\ sp' = f.sp => pc' = f.pc
       /\ Does({"pop_status"}) /\ instr.op = f.until /\ sp = Down(Down(Down(f.sp)))
            => i_flag' = f.i]_instr_vars
=============================================================================
