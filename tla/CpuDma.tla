------------------------------- MODULE CpuDma -------------------------------
(***************************************************************************)
(* How the CPU is stopped for direct memory access (src/src/cpu.rs: read,  *)
(* write, start_cycle, end_cycle, the DMC part of handle_interrupts,       *)
(* process_dma_cycle, handle_dma and reset), with the DMC channel that     *)
(* asks for sample bytes and the PPU's OAM port that receives the sprite   *)
(* page.                                                                   *)
(*                                                                         *)
(* Two transfers compete for the bus.  A write to $4014 asks for a page of *)
(* OamLen bytes to be copied through $2004: a read on an even CPU cycle, a *)
(* write on the odd cycle after it.  The DMC asks for one byte at a time,  *)
(* whenever its output unit empties the sample buffer, and that can be at  *)
(* any cycle, also in the middle of an OAM copy or of the halt of another  *)
(* DMC fetch.  The CPU can only be stopped at a read.                      *)
(*                                                                         *)
(* Every action but Reset is one CPU cycle: start_cycle, which clocks the  *)
(* APU, then the bus access, then end_cycle, which polls the DMC.          *)
(* handle_dma is a loop inside read(); `phase' is its program counter.     *)
(***************************************************************************)
EXTENDS Dmc, BusCycles

CONSTANTS
  OamLen,       (* Bytes of OAM, and of the page copied to it: 256.         *)
  Pages,        (* The pages the program copies from ($4014 values).        *)
  OamStarts,    (* The values the program writes to $2003.                  *)
  Levels,       (* The values the program writes to $4011.                  *)
  Samples,      (* The bytes the DMC can fetch.                             *)
  Resets,       (* Whether the user may reset or power-cycle the console.   *)
  MaxGlitches   (* Bound: OAM writes that hit a rendering PPU, per run.     *)

ASSUME CpuDmaAssumption ==
  /\ OamLen \in Nat /\ OamLen >= 4
  /\ OamStarts \subseteq 0..(OamLen - 1)
  /\ Levels \subseteq 0..OutputTop
  /\ Samples \subseteq Nat
  /\ Resets \in BOOLEAN
  /\ MaxGlitches \in Nat

VARIABLES
  phase,        (* "run", "dma" (inside handle_dma) or "reset".             *)
  reset_left,   (* Cycles left of the reset sequence.                       *)
  cycle,        (* Parity of Cpu::cycle, which is also that of Apu::cycle.  *)
  halt,         (* The CPU must be stopped at its next read.                *)
  dummy_read,   (* A DMC fetch still owes its dummy cycle.                  *)
  dmc_dma,      (* A DMC fetch was asked for and not made yet.              *)
  oam_dma,      (* CpuBus::oam_dma: a page copy was asked for.              *)
  oam_page,     (* CpuBus::oam_dma_addr.                                    *)
  oam_base,     (* handle_dma's oam_base_addr, oam_offset, oam_dma_count    *)
  oam_offset,   (*   and read_val.                                          *)
  oam_dma_count,
  read_val,
  oamaddr,      (* The PPU's OAM address and memory.                        *)
  oamdata,
  dmc           (* The DMC channel.                                         *)

VARIABLES       (* History, for the properties only. *)
  port,         (* Whether the read being delayed is of $4016 or $4017.     *)
  port_reads,   (* Bus accesses made on behalf of that read so far.         *)
  oam_first,    (* oamaddr when handle_dma was entered.                     *)
  glitches,     (* OAM writes that hit a rendering PPU so far.              *)
  glitched,     (* Whether one did in this copy.                            *)
  dma_cycles,   (* Cycles since handle_dma was entered.                     *)
  fetches       (* DMC fetches since handle_dma was entered.                *)

cpu_vars   == <<phase, reset_left, cycle, halt, dummy_read, dmc_dma, program_vars>>
local_vars == <<oam_base, oam_offset, oam_dma_count, read_val>>
oam_vars   == <<oam_dma, oam_page, oamaddr, oamdata>>
port_vars  == <<port, port_reads>>
copy_vars  == <<oam_first, glitches, glitched>>
time_vars  == <<dma_cycles, fetches>>
vars == <<cpu_vars, local_vars, oam_vars, port_vars, copy_vars, time_vars, dmc>>

NoPage   == "no page"
NoByte   == <<"no byte", 0>>
OamIndex == 0..(OamLen - 1)
BusBytes == (Pages \union {NoPage, "sample", "no byte"}) \X Nat

(* The byte at an offset of a page: distinct bytes are all that matters.   *)
ByteAt(page, offset) == <<page, offset>>
DmcByte(val)         == <<"sample", val>>

(* OAM addresses wrap at the end of OAM; a is less than twice its size.    *)
Wrap(a) == IF a >= OamLen THEN a - OamLen ELSE a

-----------------------------------------------------------------------------
(* One CPU cycle. *)

Even == cycle = 0

(* The channel after start_cycle: Apu::clock polls the start-up countdown  *)
(* on every cycle and clocks the channel on even ones.                     *)
Clocked == LET d == CheckPendingDma(dmc) IN IF Even THEN ClockDmc(d) ELSE d

(* The DMC's request at the end of the cycle, if any.  No bus access       *)
(* raises or withdraws one, so it is settled by start_cycle.               *)
Asked == Clocked.dma_pending

(* end_cycle, in a cycle whose bus access left the channel at d: the cycle *)
(* count advances and the request moves from the channel to the latches,   *)
(* which the caller says how to leave.                                     *)
EndCycle(d, halted, dummy, dma) ==
  /\ cycle'      = 1 - cycle
  /\ dmc'        = TakeDma(d)
  /\ halt'       = halted
  /\ dummy_read' = dummy
  /\ dmc_dma'    = dma

PlainCycle(d) == EndCycle(d, halt \/ Asked, dummy_read \/ Asked, dmc_dma \/ Asked)

(* Mutant: a cycle of the loop never counts as the dummy read. *)
DmaCycleKeepsDummy == EndCycle(Clocked, Asked, dummy_read \/ Asked, dmc_dma \/ Asked)

(* A cycle begun by process_dma_cycle counts as the halt or, once halted,  *)
(* as the dummy read of a waiting DMC fetch.                               *)
DmaCycle == EndCycle(Clocked, Asked, (halt /\ dummy_read) \/ Asked, dmc_dma \/ Asked)

-----------------------------------------------------------------------------
(* The program. *)

(* The program's cycles come in the order that BusCycles describes.        *)
CpuWrite(t) ==
  /\ phase = "run"
  /\ CountWrite(t)
  /\ UNCHANGED <<phase, reset_left, local_vars, port_vars, copy_vars, time_vars>>

(* A write to memory or to a register that takes no part in DMA. *)
WriteRam ==
  /\ CpuWrite("ram")
  /\ PlainCycle(Clocked)
  /\ UNCHANGED oam_vars

WriteOamAddr(addr) ==
  /\ CpuWrite("$2003")
  /\ PlainCycle(Clocked)
  /\ oamaddr' = addr
  /\ UNCHANGED <<oam_dma, oam_page, oamdata>>

WriteOamDma(page) ==
  /\ CpuWrite("$4014")
  /\ PlainCycle(Clocked)
  /\ oam_dma' = TRUE
  /\ oam_page' = page
  /\ UNCHANGED <<oamaddr, oamdata>>

(* The DMC's registers.  Apu::cycle was advanced by start_cycle, so it is  *)
(* odd if this cycle began even.                                           *)
WriteDmc ==
  /\ \/ /\ CpuWrite("$4010")
        /\ \E irq, loop \in BOOLEAN, timer \in FreqTimers :
              PlainCycle(WriteTimer(Clocked, irq, loop, timer))
     \/ /\ CpuWrite("$4011")
        /\ \E level \in Levels : PlainCycle(WriteOutput(Clocked, level))
     \/ /\ CpuWrite("$4012")
        /\ \E addr \in AddrLoads : PlainCycle(WriteAddrLoad(Clocked, addr))
     \/ /\ CpuWrite("$4013")
        /\ \E length \in LengthLoads : PlainCycle(WriteLength(Clocked, length))
     \/ /\ CpuWrite("$4015")
        /\ \E enabled \in BOOLEAN : PlainCycle(SetEnabled(Clocked, enabled, Even))
  /\ UNCHANGED oam_vars

(* Mutant: a read looks only for a page copy. *)
CpuReadUnhalted ==
  /\ phase = "run"
  /\ ~oam_dma
  /\ PlainCycle(Clocked)
  /\ CountRead
  /\ UNCHANGED <<phase, reset_left, local_vars, oam_vars, port_vars, copy_vars, time_vars>>

(* A read that nothing delays. *)
CpuRead ==
  /\ phase = "run"
  /\ ~halt /\ ~oam_dma
  /\ PlainCycle(Clocked)
  /\ CountRead
  /\ UNCHANGED <<phase, reset_left, local_vars, oam_vars, port_vars, copy_vars, time_vars>>

-----------------------------------------------------------------------------
(* handle_dma. *)

(* The halt cycle, which repeats the delayed read.  A request that arrives *)
(* at its end finds the CPU halted already.                                *)
EnterDma(is_port) ==
  /\ phase = "run"
  /\ halt \/ oam_dma
  /\ EndCycle(Clocked, FALSE, dummy_read \/ Asked, dmc_dma \/ Asked)
  /\ phase' = "dma"
  /\ oam_base' = oam_page
  /\ oam_offset' = 0
  /\ oam_dma_count' = 0
  /\ read_val' = NoByte
  /\ port' = is_port
  /\ port_reads' = 1
  /\ oam_first' = oamaddr
  /\ glitched' = FALSE
  /\ dma_cycles' = 1
  /\ fetches' = 0
  /\ UNCHANGED <<reset_left, program_vars, oam_vars, glitches>>

(* Bound on dma_cycles, which stays there: more than CopyTime speaks of. *)
DmaCyclesKept == 8 * OamLen

(* Any turn of the loop. *)
DmaTurn ==
  /\ phase = "dma"
  /\ oam_dma \/ dmc_dma
  /\ dma_cycles' = IF dma_cycles < DmaCyclesKept THEN dma_cycles + 1 ELSE dma_cycles
  /\ UNCHANGED <<phase, reset_left, program_vars, port, oam_first, oam_page, oam_base>>

DmcReady    == dmc_dma /\ ~halt /\ ~dummy_read
OddCount    == oam_dma_count % 2 = 1

(* Mutants: a write with nothing read; a write that waits for the DMC. *)
UseOamWriteAlways == oam_dma
UseOamWriteLate   == oam_dma /\ OddCount /\ ~dmc_dma

UseOamWrite == oam_dma /\ OddCount

(* Mutant: controllers are not spared. *)
RepeatReadAlways == port_reads' = port_reads + 1

(* The bus repeats the delayed read while the loop waits, unless that      *)
(* would clock a controller.  port_reads stays at PortReadsKept.           *)
PortReadsKept == 2

RepeatRead ==
  port_reads' = IF port \/ port_reads = PortReadsKept THEN port_reads ELSE port_reads + 1

DmcFetch ==
  /\ DmaTurn
  /\ Even /\ DmcReady
  /\ \E val \in Samples :
       /\ EndCycle(LoadBuffer(TakeDma(Clocked), val), Asked, Asked, FALSE)
       /\ read_val' = DmcByte(val)
  /\ fetches' = fetches + 1
  /\ UNCHANGED <<oam_vars, oam_offset, oam_dma_count, port_reads, glitches, glitched>>

OamRead ==
  /\ DmaTurn
  /\ Even /\ ~DmcReady /\ oam_dma
  /\ DmaCycle
  /\ read_val' = ByteAt(oam_base, oam_offset)
  /\ oam_offset' = oam_offset + 1
  /\ oam_dma_count' = oam_dma_count + 1
  /\ UNCHANGED <<oam_vars, port_reads, glitches, glitched, fetches>>

(* Ppu::write_oamdata.  A rendering PPU stores nothing and bumps the       *)
(* address by four.  Which bytes OAM keeps of an attribute is left out.    *)
StoreOamData(val) ==
  /\ oamdata' = [oamdata EXCEPT ![oamaddr] = val]
  /\ oamaddr' = Wrap(oamaddr + 1)
  /\ UNCHANGED <<glitches, glitched>>

GlitchOamAddr ==
  /\ glitches < MaxGlitches
  /\ oamaddr' = Wrap(oamaddr + 4)
  /\ glitches' = glitches + 1
  /\ glitched' = TRUE
  /\ UNCHANGED oamdata

OamWrite ==
  /\ DmaTurn
  /\ ~Even /\ UseOamWrite
  /\ DmaCycle
  /\ StoreOamData(read_val) \/ GlitchOamAddr
  /\ oam_dma_count' = oam_dma_count + 1
  /\ oam_dma' = (oam_dma_count + 1 # 2 * OamLen)
  /\ UNCHANGED <<oam_offset, read_val, port_reads, fetches>>

(* A fetch that still owes its halt or dummy cycle, with no copy to run,   *)
(* or a cycle that brings the loop to an even one.                         *)
DmaWait ==
  /\ DmaTurn
  /\ IF Even THEN ~DmcReady /\ ~oam_dma ELSE ~UseOamWrite
  /\ DmaCycle
  /\ RepeatRead
  /\ UNCHANGED <<oam_vars, oam_offset, oam_dma_count, read_val, glitches, glitched, fetches>>

(* The loop ends and the delayed read is made, without asking again        *)
(* whether the CPU is to be halted.                                        *)
LeaveDma ==
  /\ phase = "dma"
  /\ ~oam_dma /\ ~dmc_dma
  /\ PlainCycle(Clocked)
  /\ phase' = "run"
  /\ oam_base' = NoPage
  /\ oam_offset' = 0
  /\ oam_dma_count' = 0
  /\ read_val' = NoByte
  /\ port' = FALSE
  /\ port_reads' = 0
  /\ oam_first' = 0
  /\ glitched' = FALSE
  /\ dma_cycles' = 0
  /\ fetches' = 0
  /\ CountRead
  /\ UNCHANGED <<reset_left, oam_vars, glitches>>

-----------------------------------------------------------------------------
(* Cpu::reset.  The APU is reset and the CPU's halt is withdrawn, but      *)
(* neither dmc_dma nor oam_dma is.  Seven cycles pass in which reads are   *)
(* not delayed.                                                            *)
ResetCycles == 7

Reset(hard) ==
  /\ Resets
  /\ phase = "run"
  /\ phase' = "reset"
  /\ Forget
  /\ reset_left' = ResetCycles
  /\ cycle' = 0
  /\ halt' = FALSE
  /\ dummy_read' = FALSE
  /\ dmc' = IF hard THEN HardResetDmc ELSE SoftResetDmc
  /\ oamaddr' = IF hard THEN 0 ELSE oamaddr
  /\ UNCHANGED <<dmc_dma, oam_dma, oam_page, oamdata, local_vars, port_vars, copy_vars, time_vars>>

ResetCycle ==
  /\ phase = "reset"
  /\ PlainCycle(Clocked)
  /\ reset_left' = reset_left - 1
  /\ phase' = IF reset_left = 1 THEN "run" ELSE "reset"
  /\ UNCHANGED <<program_vars, local_vars, oam_vars, port_vars, copy_vars, time_vars>>

-----------------------------------------------------------------------------
(* The CPU as it is after power-on, with the reset sequence ahead. *)
Init ==
  /\ phase = "reset" /\ reset_left = ResetCycles
  /\ cycle = 0
  /\ halt = FALSE /\ dummy_read = FALSE /\ dmc_dma = FALSE
  /\ oam_dma = FALSE /\ oam_page = NoPage
  /\ oam_base = NoPage /\ oam_offset = 0 /\ oam_dma_count = 0 /\ read_val = NoByte
  /\ oamaddr = 0 /\ oamdata = [i \in OamIndex |-> NoByte]
  /\ dmc = HardResetDmc
  /\ BusInit
  /\ port = FALSE /\ port_reads = 0
  /\ oam_first = 0 /\ glitches = 0 /\ glitched = FALSE
  /\ dma_cycles = 0 /\ fetches = 0

ProgramStep ==
  \/ CpuRead
  \/ WriteRam
  \/ \E addr \in OamStarts : WriteOamAddr(addr)
  \/ \E page \in Pages : WriteOamDma(page)
  \/ WriteDmc

DmaStep ==
  \/ \E is_port \in BOOLEAN : EnterDma(is_port)
  \/ DmcFetch \/ OamRead \/ OamWrite \/ DmaWait \/ LeaveDma

Cycle == ProgramStep \/ DmaStep \/ ResetCycle

Next == Cycle \/ \E hard \in BOOLEAN : Reset(hard)

(* While the emulator runs, its thread executes cycle after cycle. *)
Fairness == WF_vars(Cycle)

Spec     == Init /\ [][Next]_vars
FairSpec == Spec /\ Fairness

-----------------------------------------------------------------------------
TypeOK ==
  /\ phase \in {"run", "dma", "reset"}
  /\ reset_left \in 0..ResetCycles
  /\ cycle \in {0, 1}
  /\ halt \in BOOLEAN /\ dummy_read \in BOOLEAN /\ dmc_dma \in BOOLEAN
  /\ oam_dma \in BOOLEAN
  /\ oam_page \in Pages \union {NoPage} /\ oam_base \in Pages \union {NoPage}
  /\ oam_offset \in Nat /\ oam_dma_count \in Nat
  /\ oamaddr \in OamIndex
  /\ read_val \in BusBytes
  /\ oamdata \in [OamIndex -> BusBytes]
  /\ dmc \in DmcState
  /\ target \in Targets /\ writes \in 0..3 /\ reads \in 0..ReadsKept
  /\ port \in BOOLEAN /\ port_reads \in Nat
  /\ oam_first \in OamIndex
  /\ glitches \in 0..MaxGlitches /\ glitched \in BOOLEAN
  /\ dma_cycles \in Nat /\ fetches \in Nat

(* Once the copy of a page is over, or for as much of it as is done, OAM   *)
(* holds the page's bytes in order, from the address that $2003 pointed to *)
(* and wrapping at the end of OAM, whatever DMC fetches cut in; and the    *)
(* complete copy leaves that address as it was.  The page is the one       *)
(* written to $4014 last.                                                  *)
Copied == oam_dma_count \div 2

OamCopyInOrder ==
  phase = "dma" /\ ~glitched =>
    /\ \A i \in 0..(Copied - 1) : oamdata[Wrap(oam_first + i)] = ByteAt(oam_page, i)
    /\ ~oam_dma => oam_dma_count = 0 \/ (oam_dma_count = 2 * OamLen /\ oamaddr = oam_first)

(* A sample in progress is never forgotten: while bytes remain and the     *)
(* buffer is empty, the request for the next byte is on its way, in the    *)
(* start-up countdown, in the channel or in the CPU's latch.               *)
SampleGoesOn ==
  dmc.length > 0 /\ dmc.sample_buffer_empty => dmc.init > 0 \/ dmc.dma_pending \/ dmc_dma

(* A byte that was fetched is never overwritten by the next one before the *)
(* output unit has taken it, however requests, stops, restarts and resets  *)
(* interleave with the halt.                                               *)
NoOverrun ==
  [][fetches' > fetches => Clocked.sample_buffer_empty]_vars

(* Whenever the program runs, a waiting fetch is about to halt it. *)
RequestHalts == phase = "run" /\ dmc_dma => halt

(* The delayed read reaches a controller port at most once more than the   *)
(* program asked for, however long the delay.                              *)
PortReadOnceMore == port => port_reads <= 1

(* The raised interrupt of the channel means that its sample has ended and *)
(* that the program wants to know. *)
IrqMeansFinished == dmc.irq_pending => dmc.irq_enabled /\ dmc.length = 0

(* CpuDma is an OamTransfer, with a byte delivered by the odd half of each *)
(* read and write pair. *)
Transfer == INSTANCE OamTransfer WITH
  asked     <- oam_dma,
  page      <- oam_page,
  delivered <- IF oam_dma THEN Copied ELSE 0

IsTransfer == Transfer!Spec

(* Every stop of the CPU ends. *)
DmaEnds == phase = "dma" ~> phase = "run"

(* Every byte asked for is fetched. *)
RequestServed == dmc_dma ~> ~dmc_dma

(* Copying a page that no fetch cuts into stops the CPU for twice OamLen   *)
(* cycles, and one or two more; every fetch adds at most three.            *)
CopyTime ==
  phase = "dma" /\ ~oam_dma /\ ~dmc_dma /\ oam_dma_count > 0 /\ dma_cycles < DmaCyclesKept =>
    dma_cycles - 2 * OamLen \in 1..(2 + 3 * fetches)
=============================================================================
