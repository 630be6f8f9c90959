----------------------------- MODULE CpuProofs -----------------------------
(***************************************************************************)
(* Proofs about the cycles of the CPU, for every value of the constants:   *)
(* CpuDma, in which the channel and the copy of a page take cycles from a  *)
(* program, and Instructions, which shows what program the CPU runs.       *)
(*                                                                         *)
(* The inductive invariant of CpuDma has three parts: the types; that the  *)
(* channel is sound with respect to the CPU's latch (Sound); and where the *)
(* copy of a page stands between a read and the write that follows it.     *)
(* How long a copy takes needs more (Timing, below).                       *)
(*                                                                         *)
(* The instructions are those of the 6502 when a byte has Size = 256       *)
(* values, and the stack 256 bytes.  The rows of their table fall into     *)
(* four kinds, and what each cycle of a row does follows from its kind     *)
(* (TableRows to Forms).  Four inductive invariants rest on that: Shape,   *)
(* where in a sequence the CPU can be; Masking and Waiting, when an IRQ    *)
(* can still be pending; BusAt, what the bus has seen so far; StackInv,    *)
(* what lies on the stack.                                                 *)
(***************************************************************************)
EXTENDS CpuDma, Instructions, FiniteSetTheorems, TLAPS

-----------------------------------------------------------------------------
(* The channel (Dmc): each of its operators keeps the record well-typed, and *)
(* keeps the channel sound with respect to the fetch that its owner owes it. *)

(* The types of the fields, for proofs that need no other fact of the record. *)
LEMMA DmcFields ==
  ASSUME NEW d \in DmcState
  PROVE  /\ d.irq_enabled \in BOOLEAN /\ d.irq_pending \in BOOLEAN /\ d.loops \in BOOLEAN
         /\ d.freq_timer \in FreqTimers /\ d.freq_counter \in Nat
         /\ d.addr \in 0..AddrTop /\ d.addr_load \in 0..AddrTop
         /\ d.length \in Nat /\ d.length_load \in Nat
         /\ d.sample_buffer \in Nat /\ d.sample_buffer_empty \in BOOLEAN
         /\ d.dma_pending \in BOOLEAN /\ d.init \in 0..3
         /\ d.output \in 0..OutputTop /\ d.output_bits \in 0..OutputBits
         /\ d.output_shift \in Nat /\ d.output_silent \in BOOLEAN
BY DEF DmcState

(* Counting down keeps the channel well-typed (Dmc::check_pending_dma). *)
LEMMA CheckPendingType ==
  ASSUME NEW d \in DmcState
  PROVE  CheckPendingDma(d) \in DmcState
<1> DEFINE i == IF d.init > 0 THEN d.init - 1 ELSE 0
           p == d.dma_pending \/ (d.init = 1 /\ d.sample_buffer_empty /\ d.length > 0)
<1>1. i \in 0..3 /\ p \in BOOLEAN
  BY DmcFields
<1>2. CheckPendingDma(d) = [d EXCEPT !.init = i, !.dma_pending = p]
  BY DEF CheckPendingDma
<1> HIDE DEF i, p
<1> QED BY <1>1, <1>2 DEF DmcState


(* Moving to the next byte of a sample keeps the channel well-typed. *)
LEMMA AdvanceType ==
  ASSUME NEW d \in DmcState, d.length > 0
  PROVE  AdvanceReader(d) \in DmcState
<1> DEFINE next == IF d.addr = AddrTop THEN AddrWrap ELSE d.addr + 1
           q    == d.irq_pending \/ d.irq_enabled
<1>1. /\ next \in 0..AddrTop
      /\ d.addr_load \in 0..AddrTop
      /\ d.length - 1 \in Nat /\ d.length_load \in Nat
      /\ q \in BOOLEAN
  BY DmcFields, DmcAssumption
<1> HIDE DEF next, q
<1>2. [d EXCEPT !.addr = next, !.length = d.length - 1] \in DmcState
  BY <1>1 DEF DmcState
<1>3. [d EXCEPT !.addr = d.addr_load, !.length = d.length_load] \in DmcState
  BY <1>1 DEF DmcState
<1>4. [d EXCEPT !.addr = next, !.length = 0, !.irq_pending = q] \in DmcState
  BY <1>1 DEF DmcState
<1> QED BY <1>2, <1>3, <1>4 DEF AdvanceReader, next, q

(* Handing over a byte keeps the channel well-typed (Dmc::load_buffer). *)
LEMMA LoadBufferType ==
  ASSUME NEW d \in DmcState, NEW val \in Nat
  PROVE  LoadBuffer(d, val) \in DmcState
<1> DEFINE served == TakeDma(d)
           filled == [served EXCEPT !.sample_buffer = val, !.sample_buffer_empty = FALSE]
<1>1. served \in DmcState /\ served.length = d.length
  BY DEF TakeDma, DmcState
<1> HIDE DEF served
<1>2. filled \in DmcState /\ filled.length = d.length
  BY <1>1 DEF DmcState
<1> HIDE DEF filled
<1>3. d.length # 0 => AdvanceReader(filled) \in DmcState
  BY <1>2, AdvanceType, DmcFields
<1> QED BY <1>1, <1>3 DEF LoadBuffer, served, filled

(* Playing a bit keeps the output level and the shift register in range. *)
LEMMA PlayBitType ==
  ASSUME NEW d \in DmcState
  PROVE  PlayBit(d) \in DmcState
<1> DEFINE o == NextLevel(d.output, d.output_shift % 2)
           s == d.output_shift \div 2
<1>1. o \in 0..OutputTop /\ s \in Nat
  BY DmcFields, DmcAssumption DEF NextLevel
<1> HIDE DEF o, s
<1>2. [d EXCEPT !.output = o, !.output_shift = s] \in DmcState
  BY <1>1 DEF DmcState
<1> QED BY <1>2 DEF PlayBit, o, s

(* Starting an output cycle keeps the channel well-typed. *)
LEMMA StartOutputCycleType ==
  ASSUME NEW d \in DmcState
  PROVE  StartOutputCycle(d) \in DmcState
<1> DEFINE begun == [d EXCEPT !.output_bits = OutputBits, !.output_silent = d.sample_buffer_empty]
           p == begun.dma_pending \/ d.length > 0
<1>1. begun \in DmcState
  <2>1. OutputBits \in 0..OutputBits /\ d.sample_buffer_empty \in BOOLEAN
    BY DmcFields, DmcAssumption
  <2> QED BY <2>1 DEF DmcState
<1>2. p \in BOOLEAN /\ d.sample_buffer \in Nat
  BY <1>1, DmcFields
<1> HIDE DEF begun, p
<1>3. [begun EXCEPT !.output_shift = d.sample_buffer, !.sample_buffer_empty = TRUE,
                    !.dma_pending = p] \in DmcState
  BY <1>1, <1>2 DEF DmcState
<1> QED BY <1>1, <1>3 DEF StartOutputCycle, begun, p

(* Clocking the channel keeps it well-typed (Dmc::clock). *)
LEMMA ClockType ==
  ASSUME NEW d \in DmcState
  PROVE  ClockDmc(d) \in DmcState
<1> DEFINE rearmed == [d EXCEPT !.freq_counter = d.freq_timer]
           played  == PlayBit(rearmed)
<1>1. rearmed \in DmcState
  BY DmcFields, DmcAssumption DEF DmcState
<1> HIDE DEF rearmed
<1>2. played \in DmcState
  BY <1>1, PlayBitType
<1>3. played.output_bits = d.output_bits
  BY DmcFields, DmcAssumption DEF PlayBit, rearmed, DmcState
<1> HIDE DEF played
<1>4. StartOutputCycle(played) \in DmcState
  BY <1>2, StartOutputCycleType
<1>5. d.output_bits > 1 => [played EXCEPT !.output_bits = played.output_bits - 1] \in DmcState
  BY <1>2, <1>3, DmcFields, DmcAssumption DEF DmcState
<1>6. d.freq_counter >= 2 => [d EXCEPT !.freq_counter = d.freq_counter - 2] \in DmcState
  BY DmcFields DEF DmcState
<1> QED BY <1>4, <1>5, <1>6, DmcFields, DmcAssumption DEF ClockDmc, played, rearmed

(* Register writes and the poll of the CPU keep the channel well-typed. *)
LEMMA RegisterTypes ==
  ASSUME NEW d \in DmcState
  PROVE  /\ \A irq, loop \in BOOLEAN, timer \in FreqTimers :
              WriteTimer(d, irq, loop, timer) \in DmcState
         /\ \A level \in 0..OutputTop : WriteOutput(d, level) \in DmcState
         /\ \A addr \in AddrLoads : WriteAddrLoad(d, addr) \in DmcState
         /\ \A length \in LengthLoads : WriteLength(d, length) \in DmcState
         /\ \A enabled, odd \in BOOLEAN : SetEnabled(d, enabled, odd) \in DmcState
         /\ TakeDma(d) \in DmcState
<1>1. ASSUME NEW irq \in BOOLEAN, NEW loop \in BOOLEAN, NEW timer \in FreqTimers
      PROVE  WriteTimer(d, irq, loop, timer) \in DmcState
  <2> DEFINE q == d.irq_pending /\ irq
  <2>1. q \in BOOLEAN
    OBVIOUS
  <2> HIDE DEF q
  <2>2. [d EXCEPT !.irq_enabled = irq, !.loops = loop] \in DmcState
    BY DEF DmcState
  <2> QED BY <2>1 DEF WriteTimer, DmcState, q
<1>2. ASSUME NEW level \in 0..OutputTop
      PROVE  WriteOutput(d, level) \in DmcState
  BY DEF WriteOutput, DmcState
<1>3. ASSUME NEW addr \in AddrLoads
      PROVE  WriteAddrLoad(d, addr) \in DmcState
  BY DmcAssumption DEF WriteAddrLoad, DmcState
<1>4. ASSUME NEW length \in LengthLoads
      PROVE  WriteLength(d, length) \in DmcState
  BY DmcAssumption DEF WriteLength, DmcState
<1>5. ASSUME NEW enabled \in BOOLEAN, NEW odd \in BOOLEAN
      PROVE  SetEnabled(d, enabled, odd) \in DmcState
  <2> DEFINE quiet == [d EXCEPT !.irq_pending = FALSE]
             delay == IF odd THEN 3 ELSE 2
  <2>1. quiet \in DmcState
    BY DEF DmcState
  <2>2. delay \in 0..3 /\ d.addr_load \in 0..AddrTop /\ d.length_load \in Nat
    BY DmcFields
  <2> HIDE DEF quiet, delay
  <2>3. [quiet EXCEPT !.length = 0] \in DmcState
    BY <2>1 DEF DmcState
  <2>4. [quiet EXCEPT !.addr = d.addr_load, !.length = d.length_load, !.init = delay] \in DmcState
    BY <2>1, <2>2 DEF DmcState
  <2> QED BY <2>1, <2>3, <2>4 DEF SetEnabled, quiet, delay
<1>6. TakeDma(d) \in DmcState
  BY DEF TakeDma, DmcState
<1> QED BY <1>1, <1>2, <1>3, <1>4, <1>5, <1>6

(* A reset channel is well-typed. *)
LEMMA ResetType == HardResetDmc \in DmcState /\ SoftResetDmc \in DmcState
<1>1. ASSUME NEW a \in 0..AddrTop, NEW l \in Nat
      PROVE  ResetDmc(a, l) \in DmcState
  BY DmcAssumption DEF ResetDmc, DmcState
<1> QED BY <1>1, DmcAssumption DEF HardResetDmc, SoftResetDmc

-----------------------------------------------------------------------------
(* The channel, while its owner does (owed) or does not owe it a fetch: a  *)
(* sample in progress with an empty buffer has its next byte on the way;   *)
(* a byte is asked for or owed only while the buffer is empty; a raised    *)
(* interrupt was enabled and its sample is over.                           *)
GoesOn(d, owed) ==
  d.length > 0 /\ d.sample_buffer_empty => d.init > 0 \/ d.dma_pending \/ owed

AsksWhenEmpty(d, owed) == d.dma_pending \/ owed => d.sample_buffer_empty

IrqAtEnd(d) == d.irq_pending => d.irq_enabled /\ d.length = 0

Sound(d, owed) == GoesOn(d, owed) /\ AsksWhenEmpty(d, owed) /\ IrqAtEnd(d)

(* The end of the start-up countdown asks for the byte it was waiting for. *)
LEMMA CheckPendingSound ==
  ASSUME NEW d \in DmcState, NEW owed \in BOOLEAN, Sound(d, owed)
  PROVE  Sound(CheckPendingDma(d), owed)
<1> DEFINE c == CheckPendingDma(d)
<1>1. /\ c.length = d.length /\ c.sample_buffer_empty = d.sample_buffer_empty
      /\ c.irq_pending = d.irq_pending /\ c.irq_enabled = d.irq_enabled
  BY DEF CheckPendingDma, DmcState
<1>2. /\ c.init = IF d.init > 0 THEN d.init - 1 ELSE 0
      /\ c.dma_pending = (d.dma_pending \/ (d.init = 1 /\ d.sample_buffer_empty /\ d.length > 0))
  BY DEF CheckPendingDma, DmcState
<1> HIDE DEF c
<1>3. Sound(c, owed)
  BY <1>1, <1>2, DmcFields DEF Sound, GoesOn, AsksWhenEmpty, IrqAtEnd
<1> QED BY <1>3 DEF c

(* The output unit asks for the next byte when it empties the buffer, and  *)
(* only then. *)
LEMMA ClockSound ==
  ASSUME NEW d \in DmcState, NEW owed \in BOOLEAN, Sound(d, owed)
  PROVE  Sound(ClockDmc(d), owed)
<1> DEFINE rearmed == [d EXCEPT !.freq_counter = d.freq_timer]
           played  == PlayBit(rearmed)
           begun   == StartOutputCycle(played)
           counted == [played EXCEPT !.output_bits = played.output_bits - 1]
           ticked  == [d EXCEPT !.freq_counter = d.freq_counter - 2]
<1> DEFINE Same(c) == /\ c.length = d.length /\ c.init = d.init
                      /\ c.sample_buffer_empty = d.sample_buffer_empty
                      /\ c.dma_pending = d.dma_pending
                      /\ c.irq_pending = d.irq_pending /\ c.irq_enabled = d.irq_enabled
<1>1. played \in DmcState
  BY PlayBitType, DmcFields, DmcAssumption DEF DmcState
<1>2. Same(played)
  BY DEF PlayBit, DmcState
<1>3. Same(counted) /\ Same(ticked)
  BY <1>1, <1>2 DEF DmcState
<1>4. \A c : Same(c) => Sound(c, owed)
  BY DEF Sound, GoesOn, AsksWhenEmpty, IrqAtEnd
<1> HIDE DEF rearmed, played
<1>5. Sound(begun, owed)
  <2>1. CASE played.sample_buffer_empty
    <3>1. Same(begun)
      BY <1>1, <1>2, <2>1 DEF StartOutputCycle, DmcState
    <3> QED BY <3>1, <1>4
  <2>2. CASE ~played.sample_buffer_empty
    <3>1. /\ begun.length = d.length
          /\ begun.sample_buffer_empty
          /\ begun.dma_pending = (d.dma_pending \/ d.length > 0)
      BY <1>1, <1>2, <2>2 DEF StartOutputCycle, DmcState
    <3>2. begun.irq_pending = d.irq_pending /\ begun.irq_enabled = d.irq_enabled
      BY <1>1, <1>2, <2>2 DEF StartOutputCycle, DmcState
    <3> HIDE DEF begun
    <3> QED BY <3>1, <3>2 DEF Sound, GoesOn, AsksWhenEmpty, IrqAtEnd
  <2> QED BY <2>1, <2>2
<1>6. ClockDmc(d) \in {ticked, begun, counted}
  BY DEF ClockDmc, played, rearmed
<1> QED BY <1>3, <1>4, <1>5, <1>6

(* A request taken from the channel is owed to it. *)
LEMMA TakeSound ==
  ASSUME NEW d \in DmcState, NEW owed \in BOOLEAN, Sound(d, owed)
  PROVE  Sound(TakeDma(d), owed \/ d.dma_pending)
<1>1. /\ TakeDma(d).length = d.length /\ TakeDma(d).init = d.init
      /\ TakeDma(d).sample_buffer_empty = d.sample_buffer_empty
      /\ TakeDma(d).dma_pending = FALSE
      /\ TakeDma(d).irq_pending = d.irq_pending /\ TakeDma(d).irq_enabled = d.irq_enabled
  BY DEF TakeDma, DmcState
<1> QED BY <1>1, DmcFields DEF Sound, GoesOn, AsksWhenEmpty, IrqAtEnd

(* A byte handed over settles what was owed. *)
LEMMA LoadSound ==
  ASSUME NEW d \in DmcState, NEW val \in Nat, NEW owed \in BOOLEAN, Sound(d, owed)
  PROVE  Sound(LoadBuffer(d, val), FALSE)
<1> DEFINE served == TakeDma(d)
           filled == [served EXCEPT !.sample_buffer = val, !.sample_buffer_empty = FALSE]
           loaded == AdvanceReader(filled)
<1>1. /\ served \in DmcState
      /\ served.length = d.length /\ ~served.dma_pending
      /\ served.irq_pending = d.irq_pending /\ served.irq_enabled = d.irq_enabled
  BY DEF TakeDma, DmcState
<1> HIDE DEF served
<1>2. /\ filled \in DmcState
      /\ filled.length = d.length /\ ~filled.sample_buffer_empty /\ ~filled.dma_pending
      /\ filled.irq_pending = d.irq_pending /\ filled.irq_enabled = d.irq_enabled
  BY <1>1 DEF DmcState
<1> HIDE DEF filled
<1>3. CASE d.length = 0
  <2>1. served.length = 0 /\ ~served.dma_pending /\ LoadBuffer(d, val) = served
    BY <1>1, <1>3 DEF LoadBuffer, served
  <2> QED BY <2>1, <1>1, <1>3 DEF Sound, GoesOn, AsksWhenEmpty, IrqAtEnd
<1>4. CASE d.length # 0
  <2>1. ~loaded.sample_buffer_empty /\ ~loaded.dma_pending
    BY <1>2 DEF AdvanceReader, DmcState
  <2>2. loaded.irq_enabled = filled.irq_enabled
    BY <1>2 DEF AdvanceReader, DmcState
  <2>3. ~filled.irq_pending
    BY <1>2, <1>4 DEF Sound, IrqAtEnd
  <2>4. loaded.irq_pending => loaded.length = 0 /\ filled.irq_enabled
    BY <1>2, <2>3 DEF AdvanceReader, DmcState
  <2>5. LoadBuffer(d, val) = loaded
    BY <1>4 DEF LoadBuffer, filled, served
  <2> QED BY <2>1, <2>2, <2>4, <2>5 DEF Sound, GoesOn, AsksWhenEmpty, IrqAtEnd
<1> QED BY <1>3, <1>4

(* Handing over a byte raises no request. *)
LEMMA LoadBufferAsksNothing ==
  ASSUME NEW d \in DmcState, NEW val \in Nat
  PROVE  ~LoadBuffer(d, val).dma_pending
BY DEF LoadBuffer, AdvanceReader, TakeDma, DmcState

(* No register write forgets a sample or withdraws a request: a stop empties *)
(* the byte count, a restart begins a countdown. *)
LEMMA RegistersSound ==
  ASSUME NEW d \in DmcState, NEW owed \in BOOLEAN, Sound(d, owed)
  PROVE  /\ \A irq, loop \in BOOLEAN, timer \in FreqTimers :
              Sound(WriteTimer(d, irq, loop, timer), owed)
         /\ \A level \in 0..OutputTop : Sound(WriteOutput(d, level), owed)
         /\ \A addr \in AddrLoads : Sound(WriteAddrLoad(d, addr), owed)
         /\ \A length \in LengthLoads : Sound(WriteLength(d, length), owed)
         /\ \A enabled, odd \in BOOLEAN : Sound(SetEnabled(d, enabled, odd), owed)
<1> USE DEF Sound, GoesOn, AsksWhenEmpty, IrqAtEnd
<1>1. ASSUME NEW irq \in BOOLEAN, NEW loop \in BOOLEAN, NEW timer \in FreqTimers
      PROVE  Sound(WriteTimer(d, irq, loop, timer), owed)
  <2> DEFINE w == WriteTimer(d, irq, loop, timer)
  <2>1. /\ w.length = d.length /\ w.init = d.init /\ w.dma_pending = d.dma_pending
        /\ w.sample_buffer_empty = d.sample_buffer_empty
    BY DEF WriteTimer, DmcState
  <2>2. w.irq_enabled = irq /\ w.irq_pending = (d.irq_pending /\ irq)
    BY DEF WriteTimer, DmcState
  <2> HIDE DEF w
  <2>3. Sound(w, owed)
    BY <2>1, <2>2
  <2> QED BY <2>3 DEF w
<1>2. ASSUME NEW level \in 0..OutputTop PROVE Sound(WriteOutput(d, level), owed)
  BY DEF WriteOutput, DmcState
<1>3. ASSUME NEW addr \in AddrLoads PROVE Sound(WriteAddrLoad(d, addr), owed)
  BY DEF WriteAddrLoad, DmcState
<1>4. ASSUME NEW length \in LengthLoads PROVE Sound(WriteLength(d, length), owed)
  BY DEF WriteLength, DmcState
<1>5. ASSUME NEW enabled \in BOOLEAN, NEW odd \in BOOLEAN
      PROVE  Sound(SetEnabled(d, enabled, odd), owed)
  <2> DEFINE w == SetEnabled(d, enabled, odd)
  <2>1. /\ ~w.irq_pending
        /\ w.dma_pending = d.dma_pending
        /\ w.sample_buffer_empty = d.sample_buffer_empty
    BY DEF SetEnabled, DmcState
  <2>2. w.length = 0 \/ (w.length = d.length /\ w.init = d.init) \/ w.init \in {2, 3}
    BY DEF SetEnabled, DmcState
  <2> HIDE DEF w
  <2>3. Sound(w, owed)
    BY <2>1, <2>2
  <2> QED BY <2>3 DEF w
<1> QED BY <1>1, <1>2, <1>3, <1>4, <1>5

(* No register write raises or withdraws a request. *)
LEMMA RegistersKeepRequest ==
  ASSUME NEW d \in DmcState
  PROVE  /\ \A irq, loop \in BOOLEAN, timer \in FreqTimers :
              WriteTimer(d, irq, loop, timer).dma_pending = d.dma_pending
         /\ \A level \in 0..OutputTop : WriteOutput(d, level).dma_pending = d.dma_pending
         /\ \A addr \in AddrLoads : WriteAddrLoad(d, addr).dma_pending = d.dma_pending
         /\ \A length \in LengthLoads : WriteLength(d, length).dma_pending = d.dma_pending
         /\ \A enabled, odd \in BOOLEAN : SetEnabled(d, enabled, odd).dma_pending = d.dma_pending
BY DEF WriteTimer, WriteOutput, WriteAddrLoad, WriteLength, SetEnabled, DmcState

(* Only a countdown changes the countdown, and only one that runs out or   *)
(* an output unit that empties the buffer raises a request.                *)
LEMMA CountdownKept ==
  ASSUME NEW d \in DmcState
  PROVE  /\ TakeDma(d).init = d.init /\ ~TakeDma(d).dma_pending
         /\ \A val : LoadBuffer(d, val).init = d.init
         /\ ClockDmc(d).init = d.init
         /\ d.sample_buffer_empty => ClockDmc(d).dma_pending = d.dma_pending
<1> DEFINE played == PlayBit([d EXCEPT !.freq_counter = d.freq_timer])
<1>1. played \in DmcState
  BY PlayBitType, DmcFields, DmcAssumption DEF DmcState
<1>2. /\ played.init = d.init /\ played.dma_pending = d.dma_pending
      /\ played.sample_buffer_empty = d.sample_buffer_empty
  BY DEF PlayBit, DmcState
<1> HIDE DEF played
<1>3. /\ StartOutputCycle(played).init = d.init
      /\ d.sample_buffer_empty => StartOutputCycle(played).dma_pending = d.dma_pending
  BY <1>1, <1>2 DEF StartOutputCycle, DmcState
<1>4. ClockDmc(d) \in {[d EXCEPT !.freq_counter = d.freq_counter - 2], StartOutputCycle(played),
                       [played EXCEPT !.output_bits = played.output_bits - 1]}
  BY DEF ClockDmc, played
<1>5. /\ ClockDmc(d).init = d.init
      /\ d.sample_buffer_empty => ClockDmc(d).dma_pending = d.dma_pending
  BY <1>1, <1>2, <1>3, <1>4 DEF DmcState
<1>6. TakeDma(d).init = d.init /\ ~TakeDma(d).dma_pending
  BY DEF TakeDma, DmcState
<1>7. ASSUME NEW val PROVE LoadBuffer(d, val).init = d.init
  BY DEF LoadBuffer, AdvanceReader, TakeDma, DmcState
<1> QED BY <1>5, <1>6, <1>7

(* A reset channel owes and is owed nothing, and stays sound if the CPU    *)
(* still remembers a request. *)
LEMMA ResetSound ==
  ASSUME NEW owed \in BOOLEAN
  PROVE  Sound(HardResetDmc, owed) /\ Sound(SoftResetDmc, owed)
BY DEF Sound, GoesOn, AsksWhenEmpty, IrqAtEnd, HardResetDmc, SoftResetDmc, ResetDmc

-----------------------------------------------------------------------------
(* The CPU and the channel (CpuDma). *)

(* The part of the state that every cycle changes, typed and sound. *)
ChannelOK ==
  /\ cycle \in {0, 1}
  /\ halt \in BOOLEAN /\ dummy_read \in BOOLEAN /\ dmc_dma \in BOOLEAN
  /\ dmc \in DmcState
  /\ Sound(dmc, dmc_dma)

(* The rest of the types. *)
RestOK ==
  /\ phase \in {"run", "dma", "reset"}
  /\ reset_left \in 0..ResetCycles
  /\ oam_dma \in BOOLEAN
  /\ oam_page \in Pages \union {NoPage} /\ oam_base \in Pages \union {NoPage}
  /\ oam_offset \in Nat /\ oam_dma_count \in Nat
  /\ read_val \in BusBytes
  /\ oamaddr \in OamIndex
  /\ oamdata \in [OamIndex -> BusBytes]
  /\ target \in Targets /\ writes \in 0..3 /\ reads \in 0..ReadsKept
  /\ port \in BOOLEAN /\ port_reads \in Nat
  /\ oam_first \in OamIndex
  /\ glitches \in 0..MaxGlitches /\ glitched \in BOOLEAN
  /\ dma_cycles \in Nat /\ fetches \in Nat
  /\ phase = "reset" => reset_left > 0

(* Where a copy stands.  After a read the count is odd, the cycle is odd   *)
(* and the byte read is the next one of the page; otherwise every byte     *)
(* read was written.                                                       *)
Progress ==
  /\ oam_base = oam_page
  /\ oam_dma_count <= 2 * OamLen
  /\ IF OddCount
     THEN /\ oam_dma /\ ~Even
          /\ oam_offset = Copied + 1
          /\ read_val = ByteAt(oam_page, Copied)
     ELSE oam_offset = Copied
  /\ IF oam_dma THEN oam_dma_count < 2 * OamLen ELSE oam_dma_count \in {0, 2 * OamLen}

Delivered ==
  ~glitched => /\ oamaddr = Wrap(oam_first + Copied)
               /\ \A i \in 0..(Copied - 1) : oamdata[Wrap(oam_first + i)] = ByteAt(oam_page, i)

CopyInv == IF phase = "dma" THEN Progress /\ Delivered ELSE oam_dma_count = 0

IInv == ChannelOK /\ RestOK /\ CopyInv

-----------------------------------------------------------------------------
(* The channel after start_cycle is as sound as before it. *)
LEMMA ClockedOK ==
  ASSUME ChannelOK
  PROVE  /\ Clocked \in DmcState
         /\ Sound(Clocked, dmc_dma)
         /\ Asked \in BOOLEAN /\ Asked = Clocked.dma_pending
<1> DEFINE c == CheckPendingDma(dmc)
<1>1. c \in DmcState /\ Sound(c, dmc_dma)
  BY CheckPendingType, CheckPendingSound DEF ChannelOK
<1> HIDE DEF c
<1>2. ClockDmc(c) \in DmcState /\ Sound(ClockDmc(c), dmc_dma)
  BY <1>1, ClockType, ClockSound DEF ChannelOK
<1>3. Clocked = IF Even THEN ClockDmc(c) ELSE c
  BY DEF Clocked, c
<1>4. Clocked \in DmcState /\ Sound(Clocked, dmc_dma)
  BY <1>1, <1>2, <1>3
<1> QED BY <1>4, DmcFields DEF Asked

(* end_cycle moves the request, if any, to the latch. *)
LEMMA EndCycleOK ==
  ASSUME ChannelOK, NEW d \in DmcState, NEW h \in BOOLEAN, NEW y \in BOOLEAN,
         Sound(d, dmc_dma), d.dma_pending = Asked,
         EndCycle(d, h, y, dmc_dma \/ Asked)
  PROVE  ChannelOK'
<1>1. TakeDma(d) \in DmcState
  BY RegisterTypes
<1>2. Sound(TakeDma(d), dmc_dma \/ d.dma_pending)
  BY TakeSound DEF ChannelOK
<1>3. /\ dmc' = TakeDma(d) /\ dmc_dma' = (dmc_dma \/ Asked)
      /\ halt' = h /\ dummy_read' = y /\ cycle' = 1 - cycle
  BY DEF EndCycle
<1>4. Sound(dmc', dmc_dma')
  BY <1>2, <1>3
<1>5. Asked \in BOOLEAN
  BY ClockedOK
<1> QED BY <1>1, <1>3, <1>4, <1>5 DEF ChannelOK, Sound, GoesOn, AsksWhenEmpty, IrqAtEnd

(* So does a cycle of the running CPU. *)
LEMMA PlainCycleOK ==
  ASSUME ChannelOK, PlainCycle(Clocked)
  PROVE  ChannelOK'
BY ClockedOK, EndCycleOK DEF PlainCycle, ChannelOK

(* So does a cycle of the copy, or one that waits. *)
LEMMA DmaCycleOK ==
  ASSUME ChannelOK, DmaCycle
  PROVE  ChannelOK'
BY ClockedOK, EndCycleOK DEF DmaCycle, ChannelOK

(* A fetch settles what the channel is owed, whatever was asked meanwhile. *)
LEMMA DmcFetchOK ==
  ASSUME ChannelOK, DmcFetch
  PROVE  ChannelOK' /\ read_val' \in BusBytes
<1>1. PICK val \in Samples :
        /\ EndCycle(LoadBuffer(TakeDma(Clocked), val), Asked, Asked, FALSE)
        /\ read_val' = DmcByte(val)
  BY DEF DmcFetch
<1>2. val \in Nat
  BY CpuDmaAssumption
<1> DEFINE served == TakeDma(Clocked)
           loaded == LoadBuffer(served, val)
<1>3. served \in DmcState /\ Sound(served, dmc_dma \/ Asked)
  BY ClockedOK, RegisterTypes, TakeSound DEF ChannelOK
<1> HIDE DEF served
<1>4. loaded \in DmcState /\ Sound(loaded, FALSE)
  BY <1>2, <1>3, LoadBufferType, LoadSound, ClockedOK DEF ChannelOK
<1> HIDE DEF loaded
<1>5. TakeDma(loaded) \in DmcState /\ Sound(TakeDma(loaded), loaded.dma_pending)
  BY <1>4, RegisterTypes, TakeSound, DmcFields
<1>6. ~loaded.dma_pending
  BY <1>2, <1>3, LoadBufferAsksNothing DEF loaded
<1>7. /\ dmc' = TakeDma(loaded) /\ dmc_dma' = FALSE
      /\ halt' = Asked /\ dummy_read' = Asked /\ cycle' = 1 - cycle
  BY <1>1 DEF EndCycle, loaded, served
<1>8. Sound(dmc', dmc_dma')
  BY <1>5, <1>6, <1>7 DEF Sound, GoesOn, AsksWhenEmpty, IrqAtEnd
<1>9. ChannelOK'
  <2>1. Sound(dmc, dmc_dma)'
    BY <1>8 DEF Sound, GoesOn, AsksWhenEmpty, IrqAtEnd
  <2>2. Asked \in BOOLEAN
    BY ClockedOK
  <2>3. cycle' \in {0, 1}
    BY <1>7 DEF ChannelOK
  <2>4. halt' \in BOOLEAN /\ dummy_read' \in BOOLEAN /\ dmc_dma' \in BOOLEAN
    BY <1>7, <2>2
  <2> QED BY <1>5, <1>7, <2>1, <2>3, <2>4 DEF ChannelOK
<1> QED BY <1>1, <1>2, <1>9 DEF DmcByte, BusBytes

(* A register write leaves the request as start_cycle settled it. *)
LEMMA RegisterCycleOK ==
  ASSUME ChannelOK, NEW d, PlainCycle(d),
         d \in DmcState /\ Sound(d, dmc_dma) /\ d.dma_pending = Clocked.dma_pending
  PROVE  ChannelOK'
BY ClockedOK, EndCycleOK DEF PlainCycle, ChannelOK

(* A write to one of the channel's registers keeps it sound. *)
LEMMA WriteDmcOK ==
  ASSUME ChannelOK, WriteDmc
  PROVE  ChannelOK'
<1>1. Clocked \in DmcState /\ Sound(Clocked, dmc_dma) /\ dmc_dma \in BOOLEAN
  BY ClockedOK DEF ChannelOK
<1>2. ASSUME NEW irq \in BOOLEAN, NEW loop \in BOOLEAN, NEW timer \in FreqTimers,
             PlainCycle(WriteTimer(Clocked, irq, loop, timer))
      PROVE  ChannelOK'
  <2> DEFINE w == WriteTimer(Clocked, irq, loop, timer)
  <2>1. w \in DmcState
    BY <1>1, RegisterTypes
  <2>2. Sound(w, dmc_dma)
    BY <1>1, RegistersSound
  <2>3. w.dma_pending = Clocked.dma_pending
    BY <1>1, RegistersKeepRequest
  <2> QED BY <1>2, <2>1, <2>2, <2>3, RegisterCycleOK
<1>3. ASSUME NEW level \in Levels, PlainCycle(WriteOutput(Clocked, level))
      PROVE  ChannelOK'
  BY <1>1, <1>3, CpuDmaAssumption, RegisterCycleOK, RegisterTypes, RegistersSound, RegistersKeepRequest
<1>4. ASSUME NEW addr \in AddrLoads, PlainCycle(WriteAddrLoad(Clocked, addr))
      PROVE  ChannelOK'
  BY <1>1, <1>4, RegisterCycleOK, RegisterTypes, RegistersSound, RegistersKeepRequest
<1>5. ASSUME NEW length \in LengthLoads, PlainCycle(WriteLength(Clocked, length))
      PROVE  ChannelOK'
  BY <1>1, <1>5, RegisterCycleOK, RegisterTypes, RegistersSound, RegistersKeepRequest
<1>6. ASSUME NEW enabled \in BOOLEAN, PlainCycle(SetEnabled(Clocked, enabled, Even))
      PROVE  ChannelOK'
  <2>1. Even \in BOOLEAN
    BY DEF Even
  <2> QED
    BY <1>1, <1>6, <2>1, RegisterCycleOK, RegisterTypes, RegistersSound, RegistersKeepRequest
<1>7. \/ \E irq, loop \in BOOLEAN, timer \in FreqTimers :
            PlainCycle(WriteTimer(Clocked, irq, loop, timer))
      \/ \E level \in Levels : PlainCycle(WriteOutput(Clocked, level))
      \/ \E addr \in AddrLoads : PlainCycle(WriteAddrLoad(Clocked, addr))
      \/ \E length \in LengthLoads : PlainCycle(WriteLength(Clocked, length))
      \/ \E enabled \in BOOLEAN : PlainCycle(SetEnabled(Clocked, enabled, Even))
  BY DEF WriteDmc
<1> QED BY <1>2, <1>3, <1>4, <1>5, <1>6, <1>7

-----------------------------------------------------------------------------
(* The CPU is powered on in a state the invariant allows. *)
LEMMA InitOK == Init => IInv
<1> SUFFICES ASSUME Init PROVE IInv
  OBVIOUS
<1>1. ChannelOK
  BY ResetType, ResetSound DEF Init, BusInit, ChannelOK
<1>2. RestOK
  <2>1. 0 \in OamIndex /\ 0 \in 0..MaxGlitches
    BY CpuDmaAssumption DEF OamIndex
  <2>2. NoByte \in BusBytes
    BY DEF NoByte, BusBytes
  <2>3. oamdata \in [OamIndex -> BusBytes]
    BY <2>2 DEF Init, BusInit
  <2>4. target \in Targets
    BY DEF Init, BusInit, Targets, Registers
  <2>5. reset_left \in 0..ResetCycles /\ writes \in 0..3 /\ reads \in 0..ReadsKept /\ reset_left > 0
    BY DEF Init, BusInit, ResetCycles, ReadsKept
  <2>6. oam_dma \in BOOLEAN /\ port \in BOOLEAN /\ glitched \in BOOLEAN
    BY DEF Init, BusInit
  <2>7. /\ oamaddr \in OamIndex /\ oam_first \in OamIndex /\ glitches \in 0..MaxGlitches
        /\ oam_offset \in Nat /\ oam_dma_count \in Nat /\ port_reads \in Nat
        /\ dma_cycles \in Nat /\ fetches \in Nat
    BY <2>1 DEF Init, BusInit
  <2>8. /\ phase \in {"run", "dma", "reset"} /\ read_val \in BusBytes
        /\ oam_page \in Pages \union {NoPage} /\ oam_base \in Pages \union {NoPage}
    BY <2>2 DEF Init, BusInit
  <2> QED BY <2>3, <2>4, <2>5, <2>6, <2>7, <2>8 DEF RestOK
<1>3. CopyInv
  BY DEF Init, BusInit, CopyInv
<1> QED BY <1>1, <1>2, <1>3 DEF IInv

(* The cycle of every action leaves the channel sound. *)
LEMMA ChannelStep ==
  ASSUME IInv, [Next]_vars
  PROVE  ChannelOK'
<1> USE DEF IInv
<1>1. CASE CpuRead
  BY <1>1, PlainCycleOK DEF CpuRead
<1>2. CASE WriteRam
  BY <1>2, PlainCycleOK DEF WriteRam
<1>3. ASSUME NEW addr \in OamStarts, WriteOamAddr(addr) PROVE ChannelOK'
  BY <1>3, PlainCycleOK DEF WriteOamAddr
<1>4. ASSUME NEW page \in Pages, WriteOamDma(page) PROVE ChannelOK'
  BY <1>4, PlainCycleOK DEF WriteOamDma
<1>5. CASE WriteDmc
  BY <1>5, WriteDmcOK
<1>6. ASSUME NEW is_port \in BOOLEAN, EnterDma(is_port) PROVE ChannelOK'
  BY <1>6, ClockedOK, EndCycleOK DEF EnterDma, ChannelOK
<1>7. CASE DmcFetch
  BY <1>7, DmcFetchOK
<1>8. CASE OamRead
  BY <1>8, DmaCycleOK DEF OamRead
<1>9. CASE OamWrite
  BY <1>9, DmaCycleOK DEF OamWrite
<1>10. CASE DmaWait
  BY <1>10, DmaCycleOK DEF DmaWait
<1>11. CASE LeaveDma
  BY <1>11, PlainCycleOK DEF LeaveDma
<1>12. CASE ResetCycle
  BY <1>12, PlainCycleOK DEF ResetCycle
<1>13. ASSUME NEW hard \in BOOLEAN, Reset(hard) PROVE ChannelOK'
  <2>1. /\ cycle' = 0 /\ halt' = FALSE /\ dummy_read' = FALSE /\ dmc_dma' = dmc_dma
        /\ dmc' \in {HardResetDmc, SoftResetDmc}
    BY <1>13 DEF Reset, Forget
  <2>2. Sound(dmc', dmc_dma')
    BY <2>1, ResetSound DEF ChannelOK
  <2> QED BY <2>1, <2>2, ResetType DEF ChannelOK, Sound, GoesOn, AsksWhenEmpty, IrqAtEnd
<1>14. CASE UNCHANGED vars
  BY <1>14 DEF vars, cpu_vars, ChannelOK, Sound, GoesOn, AsksWhenEmpty, IrqAtEnd
<1> QED BY <1>1, <1>2, <1>3, <1>4, <1>5, <1>6, <1>7, <1>8, <1>9, <1>10, <1>11, <1>12, <1>13, <1>14
           DEF Next, Cycle, ProgramStep, DmaStep

-----------------------------------------------------------------------------
(* No cycle leaves the types of the rest of the state. *)
LEMMA RestStep ==
  ASSUME IInv, [Next]_vars
  PROVE  RestOK'
<1> USE DEF RestOK, cpu_vars, local_vars, oam_vars, port_vars, copy_vars, time_vars, program_vars
<1>r. RestOK
  BY DEF IInv
<1>a. \A a \in 0..(2 * OamLen - 1) : Wrap(a) \in OamIndex
  BY CpuDmaAssumption DEF Wrap, OamIndex
<1>w. ASSUME NEW t \in Targets, CpuWrite(t)
      PROVE  /\ target' \in Targets /\ writes' \in 0..3 /\ reads' \in 0..ReadsKept
             /\ UNCHANGED <<reads, phase, reset_left, local_vars, port_vars, copy_vars, time_vars>>
  BY <1>r, <1>w DEF CpuWrite, CountWrite, MayStart, MayContinue
<1>c. ASSUME CountRead
      PROVE  target' \in Targets /\ writes' \in 0..3 /\ reads' \in 0..ReadsKept
  BY <1>r, <1>c DEF CountRead, ReadsKept, Targets, Registers
<1>1. CASE CpuRead
  BY <1>1, <1>r, <1>c DEF CpuRead
<1>2. CASE WriteRam
  BY <1>2, <1>r, <1>w DEF WriteRam, Targets, Registers
<1>3. ASSUME NEW addr \in OamStarts, WriteOamAddr(addr) PROVE RestOK'
  BY <1>3, <1>r, <1>w, CpuDmaAssumption DEF WriteOamAddr, Targets, Registers, OamIndex
<1>4. ASSUME NEW page \in Pages, WriteOamDma(page) PROVE RestOK'
  BY <1>4, <1>r, <1>w DEF WriteOamDma, Targets, Registers
<1>5. CASE WriteDmc
  <2>1. PICK t \in {"$4010", "$4011", "$4012", "$4013", "$4015"} : CpuWrite(t)
    BY <1>5 DEF WriteDmc
  <2> QED BY <1>5, <2>1, <1>r, <1>w DEF WriteDmc, Targets, Registers
<1>6. ASSUME NEW is_port \in BOOLEAN, EnterDma(is_port) PROVE RestOK'
  <2>1. NoByte \in BusBytes
    BY DEF NoByte, BusBytes
  <2> QED BY <1>6, <1>r, <2>1 DEF EnterDma
<1>7. CASE DmcFetch
  <2>1. read_val' \in BusBytes
    BY <1>7, DmcFetchOK DEF IInv
  <2> QED BY <1>7, <1>r, <2>1 DEF DmcFetch, DmaTurn
<1>8. CASE OamRead
  <2>1. read_val' \in BusBytes
    BY <1>8, <1>r DEF OamRead, ByteAt, BusBytes
  <2> QED BY <1>8, <1>r, <2>1 DEF OamRead, DmaTurn
<1>9. CASE OamWrite
  <2>1. oamaddr' \in OamIndex /\ oamdata' \in [OamIndex -> BusBytes]
    BY <1>9, <1>r, <1>a, CpuDmaAssumption DEF OamWrite, StoreOamData, GlitchOamAddr, OamIndex
  <2>2. glitches' \in 0..MaxGlitches
    BY <1>9, <1>r, CpuDmaAssumption DEF OamWrite, StoreOamData, GlitchOamAddr
  <2>3. glitched' \in BOOLEAN
    BY <1>9, <1>r DEF OamWrite, StoreOamData, GlitchOamAddr
  <2>4. oam_dma' \in BOOLEAN
    BY <1>9 DEF OamWrite
  <2> QED BY <1>9, <1>r, <2>1, <2>2, <2>3, <2>4 DEF OamWrite, DmaTurn
<1>10. CASE DmaWait
  BY <1>10, <1>r DEF DmaWait, DmaTurn, RepeatRead
<1>11. CASE LeaveDma
  <2>1. NoByte \in BusBytes
    BY DEF NoByte, BusBytes
  <2>2. 0 \in OamIndex
    BY CpuDmaAssumption DEF OamIndex
  <2> QED BY <1>11, <1>r, <1>c, <2>1, <2>2 DEF LeaveDma
<1>12. CASE ResetCycle
  BY <1>12, <1>r DEF ResetCycle, ResetCycles
<1>13. ASSUME NEW hard \in BOOLEAN, Reset(hard) PROVE RestOK'
  <2>1. oamaddr' \in OamIndex
    BY <1>13, <1>r, CpuDmaAssumption DEF Reset, Forget, OamIndex
  <2> QED BY <1>13, <1>r, <2>1 DEF Reset, Forget, ResetCycles, ReadsKept, Targets, Registers
<1>14. CASE UNCHANGED vars
  BY <1>14, <1>r DEF vars
<1> QED BY <1>1, <1>2, <1>3, <1>4, <1>5, <1>6, <1>7, <1>8, <1>9, <1>10, <1>11, <1>12, <1>13, <1>14
           DEF Next, Cycle, ProgramStep, DmaStep

-----------------------------------------------------------------------------
(* Twice a count is even, and a pair of cycles delivers a byte. *)
LEMMA Halves ==
  ASSUME NEW n \in Nat
  PROVE  /\ n \div 2 \in Nat
         /\ n % 2 = 1 => (n + 1) % 2 # 1 /\ (n + 1) \div 2 = n \div 2 + 1 /\ n = 2 * (n \div 2) + 1
         /\ n % 2 # 1 => (n + 1) % 2 = 1 /\ (n + 1) \div 2 = n \div 2 /\ n = 2 * (n \div 2)
  OBVIOUS

(* A written byte lands after the ones delivered, and on none of them. *)
LEMMA DeliverOne ==
  ASSUME IInv, OamWrite, phase = "dma", Progress, Delivered
  PROVE  Delivered'
<1>1. CASE GlitchOamAddr
  BY <1>1 DEF GlitchOamAddr, Delivered
<1>2. CASE StoreOamData(read_val) /\ ~glitched
  <2>1. /\ oam_first \in 0..(OamLen - 1) /\ OamLen \in Nat
        /\ oam_dma_count \in Nat /\ oamdata \in [OamIndex -> BusBytes]
    BY CpuDmaAssumption DEF IInv, RestOK, OamIndex
  <2>2. oam_dma_count' = oam_dma_count + 1 /\ oam_first' = oam_first /\ oam_page' = oam_page
    BY DEF OamWrite, DmaTurn
  <2>3. OddCount /\ oam_dma_count <= 2 * OamLen /\ read_val = ByteAt(oam_page, Copied)
    BY DEF OamWrite, UseOamWrite, Progress
  <2>4. Copied \in Nat /\ Copied' = Copied + 1 /\ Copied < OamLen
    BY <2>1, <2>2, <2>3, Halves DEF Copied, OddCount
  <2> DEFINE here == Wrap(oam_first + Copied)
  <2>5. here \in OamIndex /\ oamaddr = here
    BY <1>2, <2>1, <2>4 DEF Wrap, OamIndex, Delivered
  <2>6. oamaddr' = Wrap(oam_first + (Copied + 1))
    BY <1>2, <2>1, <2>4, <2>5 DEF StoreOamData, Wrap
  <2>7. ASSUME NEW i \in 0..Copied
        PROVE  oamdata'[Wrap(oam_first + i)] = ByteAt(oam_page, i)
    <3>1. oamdata' = [oamdata EXCEPT ![here] = ByteAt(oam_page, Copied)]
      BY <1>2, <2>3, <2>5 DEF StoreOamData
    <3>2. CASE i = Copied
      BY <2>1, <2>5, <3>1, <3>2
    <3>3. CASE i \in 0..(Copied - 1)
      <4>1. Wrap(oam_first + i) \in OamIndex /\ Wrap(oam_first + i) # here
        BY <2>1, <2>4, <3>3 DEF Wrap, OamIndex
      <4>2. oamdata[Wrap(oam_first + i)] = ByteAt(oam_page, i)
        BY <1>2, <3>3 DEF Delivered
      <4> QED BY <2>1, <3>1, <4>1, <4>2
    <3> QED BY <2>4, <3>2, <3>3
  <2> QED BY <2>2, <2>4, <2>6, <2>7 DEF Delivered, Wrap
<1>3. CASE StoreOamData(read_val) /\ glitched
  BY <1>3 DEF StoreOamData, Delivered
<1> QED BY <1>1, <1>2, <1>3 DEF OamWrite

(* No cycle disturbs the order of the copy. *)
LEMMA CopyStep ==
  ASSUME IInv, [Next]_vars
  PROVE  CopyInv'
<1> USE DEF cpu_vars, local_vars, oam_vars, port_vars, copy_vars, time_vars, program_vars
<1>r. CopyInv /\ RestOK
  BY DEF IInv
<1>h. /\ OamLen \in Nat /\ OamLen >= 4 /\ oam_dma_count \in Nat /\ Copied \in Nat
      /\ cycle \in {0, 1}
  BY <1>r, CpuDmaAssumption, Halves DEF RestOK, IInv, ChannelOK, Copied
(* Outside a halt there is no copy to count. *)
<1>p. ASSUME phase # "dma", phase' # "dma", oam_dma_count' = oam_dma_count
      PROVE  CopyInv'
  BY <1>p, <1>r DEF CopyInv
(* In one, a cycle that neither reads nor writes a byte changes nothing. *)
<1>d. ASSUME DmaTurn, ~OddCount,
             UNCHANGED <<oam_dma, oamaddr, oamdata, oam_offset, oam_dma_count, glitched>>
      PROVE  CopyInv'
  BY <1>d, <1>r DEF CopyInv, Progress, Delivered, OddCount, Copied, DmaTurn
<1>e. DmaTurn /\ Even => ~OddCount
  BY <1>r DEF DmaTurn, CopyInv, Progress
<1>1. CASE CpuRead
  BY <1>1, <1>p DEF CpuRead
<1>2. CASE WriteRam
  BY <1>2, <1>p DEF WriteRam, CpuWrite
<1>3. ASSUME NEW addr \in OamStarts, WriteOamAddr(addr) PROVE CopyInv'
  BY <1>3, <1>p DEF WriteOamAddr, CpuWrite
<1>4. ASSUME NEW page \in Pages, WriteOamDma(page) PROVE CopyInv'
  BY <1>4, <1>p DEF WriteOamDma, CpuWrite
<1>5. CASE WriteDmc
  BY <1>5, <1>p DEF WriteDmc, CpuWrite
<1>6. ASSUME NEW is_port \in BOOLEAN, EnterDma(is_port) PROVE CopyInv'
  <2>1. /\ phase' = "dma" /\ oam_base' = oam_page /\ oam_page' = oam_page
        /\ oam_offset' = 0 /\ oam_dma_count' = 0
        /\ oamaddr' = oamaddr /\ oam_first' = oamaddr
    BY <1>6 DEF EnterDma
  <2>2. ~OddCount' /\ Copied' = 0
    BY <2>1 DEF OddCount, Copied
  <2>3. Progress'
    BY <2>1, <2>2, <1>h DEF Progress
  <2>4. oamaddr \in 0..(OamLen - 1)
    BY <1>r DEF RestOK, OamIndex
  <2>5. Delivered'
    BY <2>1, <2>2, <2>4, <1>h DEF Delivered, Wrap
  <2> QED BY <2>1, <2>3, <2>5 DEF CopyInv
<1>7. CASE DmcFetch
  BY <1>7, <1>d, <1>e DEF DmcFetch
<1>8. CASE OamRead
  <2>1. /\ phase = "dma" /\ phase' = "dma" /\ oam_dma /\ Even /\ ~OddCount
        /\ oam_base' = oam_base /\ oam_page' = oam_page /\ oam_first' = oam_first
    BY <1>8, <1>e DEF OamRead, DmaTurn
  <2>2. Progress /\ Delivered
    BY <2>1, <1>r DEF CopyInv
  <2>3. oam_dma_count' = oam_dma_count + 1 /\ oam_offset' = oam_offset + 1 /\ oam_dma' = oam_dma
        /\ read_val' = ByteAt(oam_base, oam_offset)
        /\ UNCHANGED <<oamaddr, oamdata, glitched>>
    BY <1>8 DEF OamRead
  <2>4. OddCount' /\ Copied' = Copied
    BY <2>1, <2>3, <1>h, Halves DEF OddCount, Copied
  <2>5. ~Even'
    BY <1>8, <2>1 DEF OamRead, DmaCycle, EndCycle, Even
  <2>6. oam_dma_count' < 2 * OamLen
    BY <2>1, <2>2, <2>3, <1>h, Halves DEF Progress, OddCount
  <2>7. oam_offset' = Copied' + 1 /\ read_val' = ByteAt(oam_page', Copied') /\ oam_base' = oam_page'
    BY <2>1, <2>2, <2>3, <2>4 DEF Progress
  <2>8. Progress'
    BY <2>1, <2>3, <2>4, <2>5, <2>6, <2>7, <1>h DEF Progress
  <2>9. Delivered'
    BY <2>1, <2>2, <2>3, <2>4 DEF Delivered
  <2> QED BY <2>1, <2>8, <2>9 DEF CopyInv
<1>9. CASE OamWrite
  <2>1. /\ phase = "dma" /\ phase' = "dma" /\ oam_dma /\ OddCount
        /\ oam_base' = oam_base /\ oam_page' = oam_page
    BY <1>9 DEF OamWrite, UseOamWrite, DmaTurn
  <2>2. Progress /\ Delivered
    BY <2>1, <1>r DEF CopyInv
  <2>3. /\ oam_dma_count' = oam_dma_count + 1 /\ oam_offset' = oam_offset
        /\ oam_dma' = (oam_dma_count + 1 # 2 * OamLen)
    BY <1>9 DEF OamWrite
  <2>4. ~OddCount' /\ Copied' = Copied + 1
    BY <2>1, <2>3, <1>h, Halves DEF OddCount, Copied
  <2>5. oam_dma_count' <= 2 * OamLen
    BY <2>1, <2>2, <2>3, <1>h DEF Progress
  <2>6. IF oam_dma' THEN oam_dma_count' < 2 * OamLen ELSE oam_dma_count' \in {0, 2 * OamLen}
    <3>1. CASE oam_dma_count + 1 = 2 * OamLen
      BY <2>3, <3>1
    <3>2. CASE oam_dma_count + 1 # 2 * OamLen
      <4>1. oam_dma_count' < 2 * OamLen
        BY <2>3, <2>5, <3>2, <1>h
      <4>2. oam_dma'
        BY <2>3, <3>2
      <4> QED BY <4>1, <4>2
    <3> QED BY <3>1, <3>2
  <2>7. oam_offset' = Copied' /\ oam_base' = oam_page'
    BY <2>1, <2>2, <2>3, <2>4 DEF Progress
  <2>8. Progress'
    BY <2>4, <2>5, <2>6, <2>7 DEF Progress
  <2> QED BY <1>9, <2>1, <2>2, <2>8, DeliverOne DEF CopyInv
<1>10. CASE DmaWait
  <2>1. DmaTurn /\ ~OddCount
    BY <1>10, <1>e, <1>r DEF DmaWait, DmaTurn, UseOamWrite, CopyInv, Progress
  <2> QED BY <1>10, <2>1, <1>d DEF DmaWait
<1>11. CASE LeaveDma
  BY <1>11 DEF LeaveDma, CopyInv
<1>12. CASE ResetCycle
  BY <1>12, <1>p DEF ResetCycle
<1>13. ASSUME NEW hard \in BOOLEAN, Reset(hard) PROVE CopyInv'
  BY <1>13, <1>p DEF Reset, Forget
<1>14. CASE UNCHANGED vars
  BY <1>14, <1>r DEF vars, CopyInv, Progress, Delivered, OddCount, Copied, Even
<1> QED BY <1>1, <1>2, <1>3, <1>4, <1>5, <1>6, <1>7, <1>8, <1>9, <1>10, <1>11, <1>12, <1>13, <1>14
           DEF Next, Cycle, ProgramStep, DmaStep

(* The invariant is inductive. *)
LEMMA Invariance == Spec => []IInv
<1>1. IInv /\ [Next]_vars => IInv'
  BY ChannelStep, RestStep, CopyStep DEF IInv
<1> QED BY <1>1, InitOK, PTL DEF Spec

-----------------------------------------------------------------------------
(* Every variable keeps to the type of its Rust counterpart. *)
THEOREM TypeCorrect == Spec => []TypeOK
<1>1. IInv => TypeOK
  BY DEF IInv, ChannelOK, RestOK, TypeOK
<1> QED BY <1>1, Invariance, PTL

(* A page copy writes the page's bytes to OAM in order and, when complete, *)
(* leaves the OAM address where it was, for every page size, program,      *)
(* sample rate and interleaving of DMC fetches.                            *)
THEOREM CopyInOrder == Spec => []OamCopyInOrder
<1>1. ASSUME IInv PROVE OamCopyInOrder
  <2> SUFFICES ASSUME phase = "dma", ~glitched
               PROVE  /\ \A i \in 0..(Copied - 1) : oamdata[Wrap(oam_first + i)] = ByteAt(oam_page, i)
                      /\ ~oam_dma => oam_dma_count = 0 \/ (oam_dma_count = 2 * OamLen /\ oamaddr = oam_first)
    BY DEF OamCopyInOrder
  <2>1. Progress /\ Delivered
    BY <1>1 DEF IInv, CopyInv
  <2>2. OamLen \in Nat /\ oam_first \in 0..(OamLen - 1)
    BY <1>1, CpuDmaAssumption DEF IInv, RestOK, OamIndex
  <2>3. ASSUME oam_dma_count = 2 * OamLen PROVE oamaddr = oam_first
    <3>1. Copied = OamLen
      BY <2>2, <2>3 DEF Copied
    <3> QED BY <2>1, <2>2, <3>1 DEF Delivered, Wrap
  <2> QED BY <2>1, <2>3 DEF Progress, Delivered
<1> QED BY <1>1, Invariance, PTL

(* A sample in progress never loses the request for its next byte. *)
THEOREM SampleNeverForgotten == Spec => []SampleGoesOn
<1>1. IInv => SampleGoesOn
  BY DEF IInv, ChannelOK, Sound, GoesOn, SampleGoesOn
<1> QED BY <1>1, Invariance, PTL

(* The channel interrupts only a program that asked for it, and only when  *)
(* its sample has ended.                                                   *)
THEOREM IrqOnlyAtEnd == Spec => []IrqMeansFinished
<1>1. IInv => IrqMeansFinished
  BY DEF IInv, ChannelOK, Sound, IrqAtEnd, IrqMeansFinished
<1> QED BY <1>1, Invariance, PTL

(* A fetched byte never overwrites one that waits for the output unit. *)
THEOREM FetchNeverOverruns == Spec => NoOverrun
<1>1. ASSUME IInv, [Next]_vars, fetches' > fetches
      PROVE  Clocked.sample_buffer_empty
  <2>1. Sound(Clocked, dmc_dma) /\ fetches \in Nat
    BY <1>1, ClockedOK DEF IInv, RestOK
  <2>2. CASE DmcFetch
    BY <2>1, <2>2 DEF DmcFetch, DmcReady, Sound, AsksWhenEmpty
  <2>3. ASSUME fetches' = fetches \/ fetches' = 0 PROVE FALSE
    BY <1>1, <2>1, <2>3
  <2>4. \/ DmcFetch \/ OamRead \/ OamWrite \/ DmaWait \/ LeaveDma
        \/ \E is_port \in BOOLEAN : EnterDma(is_port)
        \/ ProgramStep \/ ResetCycle \/ (\E hard \in BOOLEAN : Reset(hard)) \/ UNCHANGED vars
    BY <1>1 DEF Next, Cycle, DmaStep
  <2>5. ProgramStep => fetches' = fetches
    BY DEF ProgramStep, CpuRead, WriteRam, WriteOamAddr, WriteOamDma, WriteDmc, CpuWrite, time_vars
  <2>6. OamRead \/ OamWrite \/ DmaWait => fetches' = fetches
    BY DEF OamRead, OamWrite, DmaWait
  <2>7. LeaveDma \/ (\E is_port \in BOOLEAN : EnterDma(is_port)) => fetches' = 0
    BY DEF LeaveDma, EnterDma
  <2>8. ResetCycle \/ (\E hard \in BOOLEAN : Reset(hard)) \/ UNCHANGED vars => fetches' = fetches
    BY DEF ResetCycle, Reset, vars, time_vars
  <2> QED BY <2>2, <2>3, <2>4, <2>5, <2>6, <2>7, <2>8
<1>2. IInv /\ [Next]_vars => [fetches' > fetches => Clocked.sample_buffer_empty]_vars
  BY <1>1
<1> QED BY <1>2, Invariance, PTL DEF Spec, NoOverrun

(* Without resets, a fetch that waits while the program runs is about to   *)
(* halt it: no request can be left behind when a halt ends.                *)
THEOREM RequestsHaltTheCpu ==
  ASSUME ~Resets
  PROVE  Spec => []RequestHalts
<1> DEFINE Pending == phase # "dma" /\ dmc_dma => halt
<1>1. Init => Pending
  BY DEF Init, BusInit
<1>2. ASSUME IInv, Pending, [Next]_vars PROVE Pending'
  <2>1. ChannelOK /\ Asked \in BOOLEAN
    BY <1>2, ClockedOK DEF IInv
  <2>2. ASSUME NEW d, PlainCycle(d), phase # "dma" \/ ~dmc_dma PROVE Pending'
    BY <1>2, <2>1, <2>2 DEF PlainCycle, EndCycle, ChannelOK
  <2>3. phase' = "dma" => Pending'
    OBVIOUS
  <2>4. DmaTurn => phase' = "dma"
    BY DEF DmaTurn
  <2> QED
    BY <1>2, <2>2, <2>3, <2>4
       DEF Next, Cycle, ProgramStep, DmaStep, CpuRead, WriteRam, WriteOamAddr, WriteOamDma, WriteDmc,
           CpuWrite, EnterDma, DmcFetch, OamRead, OamWrite, DmaWait, LeaveDma, ResetCycle, Reset,
           vars, cpu_vars
<1>3. Pending => RequestHalts
  BY DEF RequestHalts
<1> HIDE DEF Pending
<1> QED BY <1>1, <1>2, <1>3, Invariance, PTL DEF Spec

(* Whatever makes it wait, the delayed read of a controller port is        *)
(* repeated once and never again, so a controller is clocked at most once  *)
(* too often.                                                              *)
THEOREM PortsReadOnceMore == Spec => []PortReadOnceMore
<1> USE DEF PortReadOnceMore, cpu_vars, port_vars
<1>1. Init => PortReadOnceMore
  BY DEF Init, BusInit
<1>2. ASSUME PortReadOnceMore, [Next]_vars PROVE PortReadOnceMore'
  <2>1. CASE UNCHANGED port_vars
    BY <1>2, <2>1
  <2>2. ASSUME NEW is_port \in BOOLEAN, EnterDma(is_port) PROVE PortReadOnceMore'
    BY <2>2 DEF EnterDma
  <2>3. CASE DmcFetch \/ OamRead \/ OamWrite
    BY <2>1, <2>3 DEF DmcFetch, OamRead, OamWrite, DmaTurn
  <2>4. CASE DmaWait
    BY <1>2, <2>4 DEF DmaWait, DmaTurn, RepeatRead
  <2>5. CASE LeaveDma
    BY <2>5 DEF LeaveDma
  <2>6. CASE \/ ProgramStep \/ ResetCycle \/ UNCHANGED vars
             \/ \E hard \in BOOLEAN : Reset(hard)
    BY <2>1, <2>6 DEF ProgramStep, CpuRead, WriteRam, WriteOamAddr, WriteOamDma, WriteDmc, CpuWrite,
                      ResetCycle, Reset, vars
  <2> QED BY <1>2, <2>2, <2>3, <2>4, <2>5, <2>6 DEF Next, Cycle, DmaStep
<1> QED BY <1>1, <1>2, PTL DEF Spec

-----------------------------------------------------------------------------
(* Cycles that a fetch still takes, with a copy done. *)
Owed == IF ~Even THEN 2 ELSE IF halt \/ dummy_read THEN 3 ELSE 1

(* Where a stop stands against the clock.  A start-up countdown that was   *)
(* running when it began is over after three cycles.  While a page is      *)
(* copied every fetch costs a read and write pair at most; a fetch that    *)
(* outlasts the copy costs one cycle more, and no further one can be asked *)
(* for before it is made, since its buffer is empty.                       *)
Countdown == dmc.init = 0 \/ dmc.init + dma_cycles <= 3

CopyPace == dma_cycles + (IF Even \/ OddCount THEN 0 ELSE 1) <= 2 + oam_dma_count + 2 * fetches

FetchPace ==
  /\ ~Even => ~halt
  /\ dma_cycles + Owed <= 5 + oam_dma_count + 2 * fetches

Pace ==
  CASE oam_dma                                     -> CopyPace
    [] ~oam_dma /\ dmc_dma /\ oam_dma_count > 0    -> FetchPace
    [] OTHER -> oam_dma_count > 0 => dma_cycles <= 2 + oam_dma_count + 3 * fetches

Timing ==
  /\ ~dmc.dma_pending
  /\ phase = "dma" => /\ dma_cycles > oam_dma_count
                      /\ Countdown
                      /\ dma_cycles < DmaCyclesKept => Pace

(* The countdown loses one in every cycle, and a channel with an empty     *)
(* buffer and no countdown asks for nothing.                               *)
LEMMA ClockedCountdown ==
  ASSUME ChannelOK, ~dmc.dma_pending
  PROVE  /\ Clocked.init = IF dmc.init > 0 THEN dmc.init - 1 ELSE 0
         /\ dmc.sample_buffer_empty /\ dmc.init = 0 => ~Asked
<1> DEFINE c == CheckPendingDma(dmc)
<1>1. c \in DmcState
  BY CheckPendingType DEF ChannelOK
<1>2. /\ c.init = IF dmc.init > 0 THEN dmc.init - 1 ELSE 0
      /\ c.sample_buffer_empty = dmc.sample_buffer_empty
      /\ c.dma_pending => dmc.dma_pending \/ dmc.init = 1
  BY DEF CheckPendingDma, DmcState, ChannelOK
<1> HIDE DEF c
<1>3. Clocked = IF Even THEN ClockDmc(c) ELSE c
  BY DEF Clocked, c
<1>4. ClockDmc(c).init = c.init
  BY <1>1, CountdownKept
<1>5. dmc.init = 0 => ~c.dma_pending
  BY <1>2
<1>6. c.sample_buffer_empty => ClockDmc(c).dma_pending = c.dma_pending
  BY <1>1, CountdownKept
<1>7. CASE Even
  BY <1>2, <1>3, <1>4, <1>5, <1>6, <1>7 DEF Asked
<1>8. CASE ~Even
  BY <1>2, <1>3, <1>5, <1>8 DEF Asked
<1> QED BY <1>7, <1>8

(* The cycle of every action leaves no request in the channel. *)
LEMMA RequestTaken ==
  ASSUME IInv, [Next]_vars, ~dmc.dma_pending
  PROVE  ~dmc'.dma_pending
<1>1. ASSUME NEW d \in DmcState, NEW h, NEW y, NEW m, EndCycle(d, h, y, m)
      PROVE  ~dmc'.dma_pending
  BY <1>1, CountdownKept DEF EndCycle
<1>2. Clocked \in DmcState
  BY ClockedOK DEF IInv
<1>3. CASE CpuRead \/ WriteRam \/ LeaveDma \/ ResetCycle
  BY <1>1, <1>2, <1>3 DEF CpuRead, WriteRam, LeaveDma, ResetCycle, PlainCycle
<1>4. CASE OamRead \/ OamWrite \/ DmaWait
  BY <1>1, <1>2, <1>4 DEF OamRead, OamWrite, DmaWait, DmaCycle
<1>5. CASE \/ \E addr \in OamStarts : WriteOamAddr(addr)
           \/ \E page \in Pages : WriteOamDma(page)
           \/ \E is_port \in BOOLEAN : EnterDma(is_port)
  BY <1>1, <1>2, <1>5 DEF WriteOamAddr, WriteOamDma, EnterDma, PlainCycle
<1>6. CASE WriteDmc
  <2>1. PICK d \in DmcState : PlainCycle(d)
    BY <1>2, <1>6, RegisterTypes, CpuDmaAssumption DEF WriteDmc, Even
  <2> QED BY <1>1, <2>1 DEF PlainCycle
<1>7. CASE DmcFetch
  <2>1. PICK val \in Samples : EndCycle(LoadBuffer(TakeDma(Clocked), val), Asked, Asked, FALSE)
    BY <1>7 DEF DmcFetch
  <2>2. LoadBuffer(TakeDma(Clocked), val) \in DmcState
    BY <1>2, RegisterTypes, LoadBufferType, CpuDmaAssumption
  <2> QED BY <1>1, <2>1, <2>2
<1>8. CASE \E hard \in BOOLEAN : Reset(hard)
  BY <1>8 DEF Reset, HardResetDmc, SoftResetDmc, ResetDmc
<1>9. CASE UNCHANGED vars
  BY <1>9 DEF vars
<1> QED BY <1>3, <1>4, <1>5, <1>6, <1>7, <1>8, <1>9 DEF Next, Cycle, ProgramStep, DmaStep

(* A cycle inside a halt takes one from the countdown. *)
LEMMA CountdownStep ==
  ASSUME IInv, Timing, DmaTurn, dmc'.init = Clocked.init
  PROVE  Countdown'
<1>1. /\ Clocked.init = (IF dmc.init > 0 THEN dmc.init - 1 ELSE 0) /\ dmc.init \in 0..3
      /\ dma_cycles \in Nat /\ OamLen \in Nat /\ OamLen >= 4
  BY ClockedCountdown, DmcFields, CpuDmaAssumption DEF Timing, IInv, ChannelOK, RestOK
<1>2. dma_cycles' = IF dma_cycles < DmaCyclesKept THEN dma_cycles + 1 ELSE dma_cycles
  BY DEF DmaTurn
<1>3. Countdown
  BY DEF Timing, DmaTurn
<1> QED BY <1>1, <1>2, <1>3 DEF Countdown, DmaCyclesKept

(* The bounds survive every cycle. *)
LEMMA TimingStep ==
  ASSUME IInv, Timing, [Next]_vars
  PROVE  Timing'
<1> USE DEF cpu_vars, local_vars, oam_vars, port_vars, copy_vars, time_vars, program_vars
<1>q. ~dmc'.dma_pending
  BY RequestTaken DEF Timing
<1>o. ASSUME phase' # "dma" PROVE Timing'
  BY <1>q, <1>o DEF Timing
<1>r. /\ Clocked \in DmcState /\ dmc.init \in 0..3
      /\ Clocked.init = (IF dmc.init > 0 THEN dmc.init - 1 ELSE 0)
      /\ Asked \in BOOLEAN /\ halt \in BOOLEAN /\ dummy_read \in BOOLEAN
      /\ dmc_dma \in BOOLEAN /\ oam_dma \in BOOLEAN /\ cycle \in {0, 1}
      /\ oam_dma_count \in Nat /\ dma_cycles \in Nat /\ fetches \in Nat
      /\ OamLen \in Nat /\ OamLen >= 4
  BY ClockedOK, ClockedCountdown, DmcFields, CpuDmaAssumption DEF Timing, IInv, ChannelOK, RestOK
(* In a turn of the loop the byte count stays far below the bound. *)
<1>t. ASSUME DmaTurn
      PROVE  /\ phase = "dma" /\ phase' = "dma" /\ dma_cycles > oam_dma_count
             /\ Progress /\ Countdown
             /\ dma_cycles < DmaCyclesKept => Pace
             /\ dma_cycles' < DmaCyclesKept =>
                  dma_cycles < DmaCyclesKept /\ dma_cycles' = dma_cycles + 1
             /\ oam_dma_count' \in {oam_dma_count, oam_dma_count + 1} => dma_cycles' > oam_dma_count'
  BY <1>r, <1>t DEF DmaTurn, Timing, IInv, CopyInv, Progress, DmaCyclesKept
<1>c. ASSUME DmaCycle
      PROVE  /\ cycle' = 1 - cycle
             /\ halt' <=> Asked
             /\ dummy_read' <=> (halt /\ dummy_read) \/ Asked
             /\ dmc_dma' <=> dmc_dma \/ Asked
             /\ dmc'.init = Clocked.init
  BY <1>r, <1>c, CountdownKept DEF DmaCycle, EndCycle
<1>e. DmaTurn /\ Even => ~OddCount
  BY <1>t DEF Progress
(* Nothing more is asked for when a fetch outlasts the copy. *)
<1>n. ASSUME DmaTurn, dmc_dma, ~oam_dma, oam_dma_count > 0
      PROVE  ~Asked
  <2>1. oam_dma_count = 2 * OamLen
    BY <1>r, <1>t, <1>n DEF Progress
  <2>2. dmc.init = 0
    BY <1>r, <1>t, <1>n, <2>1 DEF Countdown
  <2>3. dmc.sample_buffer_empty
    BY <1>n DEF IInv, ChannelOK, Sound, AsksWhenEmpty
  <2> QED BY <2>2, <2>3, ClockedCountdown DEF Timing, IInv
<1>1. CASE ProgramStep \/ ResetCycle \/ \E hard \in BOOLEAN : Reset(hard)
  BY <1>1, <1>o DEF ProgramStep, CpuRead, WriteRam, WriteOamAddr, WriteOamDma, WriteDmc, CpuWrite,
                    ResetCycle, Reset
<1>2. ASSUME NEW is_port \in BOOLEAN, EnterDma(is_port) PROVE Timing'
  <2>1. dma_cycles' = 1 /\ oam_dma_count' = 0 /\ fetches' = 0
    BY <1>2 DEF EnterDma
  <2>2. dmc'.init = Clocked.init
    BY <1>2, <1>r, CountdownKept DEF EnterDma, EndCycle
  <2>3. Countdown'
    BY <1>r, <2>1, <2>2 DEF Countdown
  <2>4. Pace'
    BY <2>1 DEF Pace, CopyPace
  <2> QED BY <1>q, <2>1, <2>3, <2>4 DEF Timing
<1>3. CASE DmcFetch
  <2>1. /\ DmaTurn /\ Even /\ DmcReady /\ fetches' = fetches + 1
        /\ oam_dma_count' = oam_dma_count /\ oam_dma' = oam_dma
    BY <1>3 DEF DmcFetch
  <2>2. PICK val \in Samples : EndCycle(LoadBuffer(TakeDma(Clocked), val), Asked, Asked, FALSE)
    BY <1>3 DEF DmcFetch
  <2>3. ~dmc_dma' /\ ~Even'
    BY <2>1, <2>2 DEF EndCycle, Even
  <2>4. dmc'.init = Clocked.init
    <3>1. TakeDma(Clocked) \in DmcState /\ TakeDma(Clocked).init = Clocked.init
      BY <1>r, RegisterTypes, CountdownKept
    <3>2. /\ LoadBuffer(TakeDma(Clocked), val) \in DmcState
          /\ LoadBuffer(TakeDma(Clocked), val).init = Clocked.init
      BY <3>1, LoadBufferType, CountdownKept, CpuDmaAssumption
    <3> QED BY <2>2, <3>2, CountdownKept DEF EndCycle
  <2>5. ~OddCount' /\ ~OddCount
    BY <2>1, <1>e DEF OddCount
  <2>6. ASSUME dma_cycles' < DmaCyclesKept PROVE Pace'
    <3>1. Pace /\ dma_cycles' = dma_cycles + 1
      BY <1>t, <2>1, <2>6
    <3> QED BY <1>r, <2>1, <2>3, <2>5, <3>1 DEF Pace, CopyPace, FetchPace, Owed, DmcReady
  <2>7. Countdown'
    BY <2>1, <2>4, CountdownStep
  <2> QED BY <1>q, <1>r, <1>t, <2>1, <2>6, <2>7 DEF Timing, DmaCyclesKept
<1>4. CASE OamRead
  <2>1. /\ DmaTurn /\ Even /\ oam_dma /\ oam_dma' /\ DmaCycle /\ fetches' = fetches
        /\ oam_dma_count' = oam_dma_count + 1
    BY <1>4 DEF OamRead
  <2>2. OddCount'
    BY <1>e, <1>r, <2>1, Halves DEF OddCount
  <2>3. ASSUME dma_cycles' < DmaCyclesKept PROVE Pace'
    <3>1. Pace /\ dma_cycles' = dma_cycles + 1
      BY <1>t, <2>1, <2>3
    <3> QED BY <1>r, <2>1, <2>2, <3>1 DEF Pace, CopyPace
  <2>4. Countdown'
    BY <1>c, <2>1, CountdownStep
  <2> QED BY <1>q, <1>r, <1>t, <2>1, <2>3, <2>4 DEF Timing, DmaCyclesKept
<1>5. CASE OamWrite
  <2>1. /\ DmaTurn /\ ~Even /\ oam_dma /\ OddCount /\ DmaCycle /\ fetches' = fetches
        /\ oam_dma_count' = oam_dma_count + 1
    BY <1>5 DEF OamWrite, UseOamWrite
  <2>2. Even'
    BY <1>c, <1>r, <2>1 DEF Even
  <2>3. ASSUME dma_cycles' < DmaCyclesKept PROVE Pace'
    <3>1. Pace /\ dma_cycles' = dma_cycles + 1
      BY <1>t, <2>1, <2>3
    <3>2. dma_cycles' <= 2 + oam_dma_count' + 2 * fetches'
      BY <1>r, <2>1, <3>1 DEF Pace, CopyPace
    <3>3. dma_cycles' \in Nat /\ oam_dma_count' \in Nat /\ fetches' \in Nat
      BY <1>r, <2>1, <3>1
    <3> QED BY <2>2, <3>2, <3>3 DEF Pace, CopyPace, FetchPace, Owed
  <2>4. Countdown'
    BY <1>c, <2>1, CountdownStep
  <2> QED BY <1>q, <1>r, <1>t, <2>1, <2>3, <2>4 DEF Timing, DmaCyclesKept
<1>6. CASE DmaWait
  <2>1. /\ DmaTurn /\ DmaCycle /\ fetches' = fetches
        /\ oam_dma_count' = oam_dma_count /\ oam_dma' = oam_dma
        /\ IF Even THEN ~DmcReady /\ ~oam_dma ELSE ~UseOamWrite
        /\ oam_dma \/ dmc_dma
    BY <1>6 DEF DmaWait, DmaTurn
  <2>2. Even <=> ~Even'
    BY <1>c, <1>r, <2>1 DEF Even
  <2>3. ASSUME dma_cycles' < DmaCyclesKept PROVE Pace'
    <3>1. Pace /\ dma_cycles' = dma_cycles + 1
      BY <1>t, <2>1, <2>3
    <3>2. CASE oam_dma
      <4>1. ~Even /\ Even' /\ ~OddCount /\ oam_dma'
        BY <2>1, <2>2, <3>2 DEF UseOamWrite
      <4> QED BY <1>r, <2>1, <3>1, <3>2, <4>1 DEF Pace, CopyPace
    <3>3. CASE ~oam_dma /\ oam_dma_count > 0
      <4>0. dmc_dma /\ ~Asked
        BY <1>n, <2>1, <3>3
      <4>1. dmc_dma' /\ ~halt'
        BY <1>c, <2>1, <4>0
      <4>2. dummy_read' => halt /\ dummy_read
        BY <1>c, <2>1, <4>0
      <4>3. FetchPace
        BY <3>1, <3>3, <4>0 DEF Pace
      <4>4. CASE Even
        <5>1. Owed = 3 /\ Owed' = 2 /\ ~Even'
          BY <2>1, <2>2, <4>0, <4>4 DEF Owed, DmcReady
        <5> QED BY <1>r, <2>1, <3>1, <3>3, <4>1, <4>3, <5>1 DEF FetchPace, Pace
      <4>5. CASE ~Even
        <5>1. Owed = 2 /\ Owed' = 1 /\ Even'
          BY <2>2, <4>1, <4>2, <4>3, <4>5 DEF Owed, FetchPace
        <5> QED BY <1>r, <2>1, <3>1, <3>3, <4>1, <4>3, <5>1 DEF FetchPace, Pace
      <4> QED BY <4>4, <4>5
    <3>4. CASE ~oam_dma /\ ~(oam_dma_count > 0)
      BY <2>1, <3>4 DEF Pace
    <3> QED BY <3>2, <3>3, <3>4
  <2>4. Countdown'
    BY <1>c, <2>1, CountdownStep
  <2> QED BY <1>q, <1>r, <1>t, <2>1, <2>3, <2>4 DEF Timing, DmaCyclesKept
<1>7. CASE LeaveDma
  BY <1>7, <1>o DEF LeaveDma
<1>8. CASE UNCHANGED vars
  BY <1>8 DEF vars, Timing, Countdown, Pace, CopyPace, FetchPace, Owed, OddCount, Even, DmaCyclesKept
<1> QED BY <1>1, <1>2, <1>3, <1>4, <1>5, <1>6, <1>7, <1>8 DEF Next, Cycle, DmaStep

(* A page copy stops the CPU for its read and write pairs and at most two  *)
(* cycles more, and every DMC fetch that cuts in costs three at most,      *)
(* whatever the sample rate and wherever the requests fall.                *)
THEOREM CopyTakesItsTime == Spec => []CopyTime
<1>1. Init => Timing
  BY DEF Init, BusInit, Timing, HardResetDmc, ResetDmc
<1>2. IInv /\ Timing /\ [Next]_vars => Timing'
  BY TimingStep
<1>3. ASSUME IInv, Timing PROVE CopyTime
  <2> SUFFICES ASSUME phase = "dma", ~oam_dma, ~dmc_dma, oam_dma_count > 0, dma_cycles < DmaCyclesKept
               PROVE  dma_cycles - 2 * OamLen \in 1..(2 + 3 * fetches)
    BY DEF CopyTime
  <2>1. oam_dma_count = 2 * OamLen
    BY <1>3, CpuDmaAssumption DEF IInv, CopyInv, Progress
  <2>2. dma_cycles > oam_dma_count /\ Pace
    BY <1>3 DEF Timing
  <2>3. dma_cycles <= 2 + oam_dma_count + 3 * fetches
    BY <2>2 DEF Pace
  <2> QED BY <1>3, <2>1, <2>2, <2>3, CpuDmaAssumption DEF IInv, RestOK
<1> QED BY <1>1, <1>2, <1>3, Invariance, PTL DEF Spec

-----------------------------------------------------------------------------
(* The machine of cycles, halts and fetches copies a page as OamTransfer   *)
(* promises the program: each of its steps is one of the abstract          *)
(* specification's, or leaves the abstract state alone.                    *)
THEOREM CopiesAsPromised == Spec => IsTransfer
<1> DEFINE sent == IF oam_dma THEN Copied ELSE 0
<1>1. Init => Transfer!Init
  BY DEF Init, BusInit, Transfer!Init, OamIndex
<1>2. ASSUME IInv, [Next]_vars PROVE [Transfer!Next]_(Transfer!vars)
  <2> USE DEF cpu_vars, local_vars, oam_vars, port_vars, copy_vars, time_vars, program_vars
  <2>h. CopyInv /\ oam_dma_count \in Nat /\ OamLen \in Nat /\ OamLen >= 4 /\ Copied \in Nat
    BY <1>2, CpuDmaAssumption, Halves DEF IInv, RestOK, Copied
  (* Outside a halt nothing is delivered yet. *)
  <2>z. phase # "dma" => oam_dma_count = 0 /\ sent = 0
    BY <2>h DEF CopyInv, Copied
  <2>s. ASSUME UNCHANGED <<oam_vars, oam_dma_count>> PROVE UNCHANGED Transfer!vars
    BY <2>s DEF Transfer!vars, Copied
  <2>1. CASE CpuRead \/ WriteRam \/ WriteDmc \/ DmaWait \/ DmcFetch \/ ResetCycle \/ UNCHANGED vars
    BY <2>1, <2>s DEF CpuRead, WriteRam, WriteDmc, CpuWrite, DmaWait, DmcFetch, ResetCycle, vars
  <2>2. ASSUME NEW addr \in OamStarts, WriteOamAddr(addr) PROVE Transfer!Move(addr)
    BY <2>2, <2>z DEF WriteOamAddr, CpuWrite, Transfer!Move, Copied
  <2>3. ASSUME NEW p \in Pages, WriteOamDma(p) PROVE Transfer!Ask(p)
    BY <2>3, <2>z DEF WriteOamDma, CpuWrite, Transfer!Ask, Copied
  <2>4. ASSUME NEW is_port \in BOOLEAN, EnterDma(is_port) PROVE UNCHANGED Transfer!vars
    BY <2>4, <2>z DEF EnterDma, Transfer!vars, Copied
  <2>5. CASE OamRead
    <3>1. phase = "dma" /\ Even
      BY <2>5 DEF OamRead, DmaTurn
    <3>2. Copied' = Copied
      BY <2>5, <2>h, <3>1, Halves DEF OamRead, CopyInv, Progress, OddCount, Copied
    <3> QED BY <2>5, <3>2 DEF OamRead, DmaTurn, Transfer!vars
  <2>6. CASE OamWrite
    <3>1. /\ phase = "dma" /\ OddCount /\ oam_dma /\ oam_dma_count' = oam_dma_count + 1
          /\ oam_dma' = (oam_dma_count + 1 # 2 * OamLen) /\ oam_page' = oam_page
      BY <2>6 DEF OamWrite, DmaTurn, UseOamWrite
    <3>2. Progress /\ oam_dma_count < 2 * OamLen /\ read_val = ByteAt(oam_page, Copied)
      BY <2>h, <3>1 DEF CopyInv, Progress
    <3>3. Copied' = Copied + 1 /\ oam_dma_count = 2 * Copied + 1
      BY <2>h, <3>1, Halves DEF OddCount, Copied
    <3>4. (oam_dma_count + 1 # 2 * OamLen) <=> (Copied + 1 # OamLen)
      BY <2>h, <3>3
    <3>5. Transfer!Advance
      BY <3>1, <3>3, <3>4 DEF Transfer!Advance
    <3>6. ASSUME StoreOamData(read_val) PROVE Transfer!Deliver
      <4>1. sent = Copied
        BY <3>1
      <4> QED BY <3>2, <3>5, <3>6, <4>1 DEF StoreOamData, Transfer!Deliver, Wrap, Transfer!Wrap
    <3>7. ASSUME GlitchOamAddr PROVE Transfer!Lose
      BY <3>5, <3>7 DEF GlitchOamAddr, Transfer!Lose, Wrap, Transfer!Wrap
    <3>8. StoreOamData(read_val) \/ GlitchOamAddr
      BY <2>6 DEF OamWrite
    <3> QED BY <3>6, <3>7, <3>8 DEF Transfer!Next
  <2>7. CASE LeaveDma
    BY <2>7 DEF LeaveDma, Transfer!vars
  <2>8. ASSUME NEW hard \in BOOLEAN, Reset(hard) PROVE [Transfer!Move(0)]_(Transfer!vars)
    BY <2>8, <2>z DEF Reset, Forget, Transfer!Move, Transfer!vars, Copied
  <2>9. Transfer!Move(0) => Transfer!Next
    BY DEF Transfer!Next
  <2> QED BY <1>2, <2>1, <2>2, <2>3, <2>4, <2>5, <2>6, <2>7, <2>8, <2>9
             DEF Next, Cycle, ProgramStep, DmaStep, Transfer!Next
<1> QED BY <1>1, <1>2, Invariance, PTL DEF Spec, IsTransfer, Transfer!Spec

-----------------------------------------------------------------------------
(* Rows of one kind. *)

Reader(i) ==
  /\ i.op \in Reading
  /\ i.mode \in Indexed => i.op \in Rereads
  /\ \/ i.mode \in {"IMP", "IMM"} /\ i.cycles = 2
     \/ i.mode = "ZP0" /\ i.cycles = 3
     \/ i.mode \in {"ZPX", "ZPY", "ABS", "ABX", "ABY"} /\ i.cycles = 4
     \/ i.mode = "IDX" /\ i.cycles = 6
     \/ i.mode = "IDY" /\ i.cycles = 5

Modifier(i) ==
  /\ i.op \in Modifying
  /\ \/ i.mode = "ACC" /\ i.cycles = 2
     \/ i.mode = "ZP0" /\ i.cycles = 5
     \/ i.mode \in {"ZPX", "ABS"} /\ i.cycles = 6
     \/ i.mode \in {"ABX", "ABY"} /\ i.cycles = 7
     \/ i.mode \in {"IDX", "IDY"} /\ i.cycles = 8

Storer(i) ==
  /\ i.op \in Stores \union Masked \union {"SAX"}
  /\ \/ i.mode = "ZP0" /\ i.cycles = 3
     \/ i.mode \in {"ZPX", "ZPY", "ABS"} /\ i.cycles = 4
     \/ i.mode \in {"ABX", "ABY"} /\ i.cycles = 5
     \/ i.mode = "IDX" /\ i.cycles = 6
     \/ i.mode = "IDY" /\ i.cycles = 6 /\ i.op # "SAX"

Special(i) ==
  \/ i.op \in Branches /\ i.mode = "REL" /\ i.cycles = 2
  \/ i.op \in Silent /\ i.mode = "IMP" /\ i.cycles = 2
  \/ i.op \in {"PHA", "PHP"} /\ i.mode = "IMP" /\ i.cycles = 3
  \/ i.op \in {"PLA", "PLP"} /\ i.mode = "IMP" /\ i.cycles = 4
  \/ i.op \in {"RTI", "RTS"} /\ i.mode = "IMP" /\ i.cycles = 6
  \/ i.op = "JMP" /\ i.mode = "ABS" /\ i.cycles = 3
  \/ i.op = "JMP" /\ i.mode = "IND" /\ i.cycles = 5
  \/ i.op = "JSR" /\ i.mode = "ABS" /\ i.cycles = 6
  \/ i.op = "BRK" /\ i.mode = "IMM" /\ i.cycles = 7

(* What a row holds. *)
LEMMA InRows ==
  ASSUME NEW mode, NEW ops, NEW cycles, NEW i \in Rows(mode, ops, cycles)
  PROVE  i.mode = mode /\ i.op \in ops /\ i.cycles = cycles
BY DEF Rows

(* Which group each operation of the table belongs to. *)
LEMMA OpSets ==
  /\ General \union Compares \union Loads \union {"LAX", "SKB"} \subseteq Reading
  /\ {"AXS", "XAA", "ARR", "ALR", "ANC"} \subseteq Reading
  /\ Direct \subseteq Reading \union Stores \union {"SAX"}
  /\ General \union {"LDY", "NOP", "STA", "STY"} \subseteq Reading \union Stores
  /\ General \union {"LDY", "IGN", "LDX", "LAS", "LAX"} \subseteq Reading \intersect Rereads
  /\ {"LAX", "LDX", "SAX", "STX"} \subseteq Reading \union Stores \union {"SAX"}
  /\ {"STA", "SYA", "AHX", "SXA", "TAS"} \subseteq Stores \union Masked
  /\ "SAX" \notin Stores \union Masked
  /\ Twofold \subseteq Modifying /\ Shifts \subseteq Modifying
  /\ "NOP" \in Reading
BY DEF General, Direct, Reading, Modifying, Shifts, Counts, Twofold, Stores, Masked,
       Loads, Sums, Logic, Compares, Nops, Combined, Rereads

(* Every row of the table is of one of the four kinds. *)
LEMMA TableRows ==
  ASSUME NEW i \in Table
  PROVE  Reader(i) \/ Modifier(i) \/ Storer(i) \/ Special(i)
<1>1. ASSUME \/ i \in Rows("IMM", General \union Compares \union Loads \union {"LAX", "SKB"}, 2)
             \/ i \in Rows("IMM", {"AXS", "XAA", "ARR", "ALR", "ANC"}, 2)
      PROVE  Reader(i)
  BY <1>1, InRows, OpSets DEF Reader, Indexed
<1>2. ASSUME \/ i \in Rows("ZP0", Direct, 3)
             \/ i \in Rows("ZPX", General \union {"LDY", "NOP", "STA", "STY"}, 4)
             \/ i \in Rows("ZPY", {"LAX", "LDX", "SAX", "STX"}, 4)
             \/ i \in Rows("ABS", Direct, 4)
      PROVE  Reader(i) \/ Storer(i)
  BY <1>2, InRows, OpSets DEF Reader, Storer, Indexed
<1>3. ASSUME \/ i \in Rows("ABX", General \union {"LDY", "IGN"}, 4)
             \/ i \in Rows("ABY", General \union {"LDX", "LAS", "LAX"}, 4)
             \/ i \in Rows("IDY", General \union {"LAX"}, 5)
      PROVE  Reader(i)
  BY <1>3, InRows, OpSets DEF Reader, Indexed
<1>4. ASSUME i \in Rows("IDX", General \union {"LAX", "SAX", "STA"}, 6)
      PROVE  Reader(i) \/ Storer(i)
  <2>1. "STA" \in Stores
    BY DEF Stores
  <2> QED BY <1>4, <2>1, InRows, OpSets DEF Reader, Storer, Indexed
<1>5. ASSUME \/ i \in Rows("ABX", {"STA", "SYA"}, 5)
             \/ i \in Rows("ABY", {"AHX", "STA", "SXA", "TAS"}, 5)
             \/ i \in Rows("IDY", {"AHX", "STA"}, 6)
      PROVE  Storer(i)
  BY <1>5, InRows, OpSets DEF Storer
<1>6. ASSUME \/ i \in Rows("ZP0", Modifying, 5) \/ i \in Rows("ZPX", Modifying, 6)
             \/ i \in Rows("ABX", Modifying, 7) \/ i \in Rows("ABY", Twofold, 7)
             \/ i \in Rows("IDX", Twofold, 8) \/ i \in Rows("IDY", Twofold, 8)
             \/ i \in Rows("ACC", Shifts, 2)
      PROVE  Modifier(i)
  BY <1>6, InRows, OpSets DEF Modifier
<1>7. ASSUME i \in Rows("ABS", Modifying \union {"JSR"}, 6)
      PROVE  Modifier(i) \/ Special(i)
  BY <1>7, InRows DEF Modifier, Special
<1>8. ASSUME i \in Rows("IMP", Silent \union {"NOP"}, 2)
      PROVE  Reader(i) \/ Special(i)
  BY <1>8, InRows, OpSets DEF Reader, Special, Indexed
<1>9. ASSUME \/ i \in Rows("IMM", {"BRK"}, 7)
             \/ i \in Rows("ABS", {"JMP"}, 3) \/ i \in Rows("IND", {"JMP"}, 5)
             \/ i \in Rows("REL", Branches, 2)
             \/ i \in Rows("IMP", {"PHA", "PHP"}, 3) \/ i \in Rows("IMP", {"PLA", "PLP"}, 4)
             \/ i \in Rows("IMP", {"RTI", "RTS"}, 6)
      PROVE  Special(i)
  BY <1>9, InRows DEF Special
<1> QED BY <1>1, <1>2, <1>3, <1>4, <1>5, <1>6, <1>7, <1>8, <1>9 DEF Table

-----------------------------------------------------------------------------
(* The kinds of bus cycles. *)
ReadKinds  == {"opcode", "operand", "read", "pop", "pop_status", "pop_low", "pop_high"}
WriteKinds == {"write", "push", "push_high", "push_low", "push_status"}
Kinds      == ReadKinds \union WriteKinds \union {"idle"}

(* The length of AddressCycles. *)
AddressLen(mode) ==
  CASE mode = "IMM"                       -> 0
    [] mode \in {"ACC", "IMP", "ZP0", "REL"} -> 1
    [] mode \in {"ZPX", "ZPY", "ABS"}     -> 2
    [] mode \in {"ABX", "ABY"}            -> 3
    [] mode \in {"IND", "IDX", "IDY"}     -> 4

Modes == {"IMM", "ACC", "IMP", "ZP0", "REL", "ZPX", "ZPY", "ABS", "ABX", "ABY", "IND", "IDX", "IDY"}

(* The cycles that find an address only read. *)
LEMMA AddressForm ==
  ASSUME NEW mode \in Modes
  PROVE  /\ AddressCycles(mode) \in Seq(Kinds)
         /\ Len(AddressCycles(mode)) = AddressLen(mode)
         /\ AddressLen(mode) \in 0..4
         /\ \A k \in 1..AddressLen(mode) : AddressCycles(mode)[k] \in {"operand", "read"}
<1>1. /\ Implied \in Seq(Kinds) /\ Immediate \in Seq(Kinds) /\ ZeroPage \in Seq(Kinds)
      /\ ZeroPageIndexed \in Seq(Kinds) /\ Absolute \in Seq(Kinds)
      /\ AbsoluteIndexed \in Seq(Kinds) /\ Indirect \in Seq(Kinds)
      /\ IndexedIndirect \in Seq(Kinds) /\ IndirectIndexed \in Seq(Kinds)
  BY DEF Implied, Immediate, ZeroPage, ZeroPageIndexed, Absolute, AbsoluteIndexed, Indirect,
         IndexedIndirect, IndirectIndexed, Kinds, ReadKinds
<1>2. AddressCycles(mode) \in Seq(Kinds)
  BY <1>1 DEF AddressCycles, Modes
<1>3. /\ Len(AddressCycles(mode)) = AddressLen(mode)
      /\ AddressLen(mode) \in 0..4
  BY DEF AddressCycles, AddressLen, Modes, Implied, Immediate, ZeroPage, ZeroPageIndexed, Absolute,
         AbsoluteIndexed, Indirect, IndexedIndirect, IndirectIndexed
<1>4. ASSUME NEW k \in 1..AddressLen(mode)
      PROVE  AddressCycles(mode)[k] \in {"operand", "read"}
  BY DEF AddressCycles, AddressLen, Modes, Implied, Immediate, ZeroPage, ZeroPageIndexed, Absolute,
         AbsoluteIndexed, Indirect, IndexedIndirect, IndirectIndexed
<1> QED BY <1>2, <1>3, <1>4

(* Two sequences, one after the other. *)
LEMMA Concat ==
  \A s, t \in Seq(Kinds) :
    /\ s \o t \in Seq(Kinds)
    /\ Len(s \o t) = Len(s) + Len(t)
    /\ \A k \in 1..Len(s) : (s \o t)[k] = s[k]
    /\ \A k \in 1..Len(t) : (s \o t)[Len(s) + k] = t[k]
OBVIOUS

(* An instruction in execution: its opcode, its address, its operation. *)
InstrState ==
  /\ seq = "instr" /\ instr \in Table
  /\ crossed \in BOOLEAN /\ taken \in BOOLEAN
  /\ taken => instr.op \in Branches

Lead == 1 + AddressLen(instr.mode)

(* The sequence of an instruction: the opcode, its address, its operation. *)
LEMMA SequenceParts ==
  ASSUME seq = "instr", instr.mode \in Modes, OperationCycles \in Seq(Kinds)
  PROVE  /\ Len(Sequence) = Lead + Len(OperationCycles)
         /\ Lead \in 1..5
         /\ Sequence[1] = "opcode"
         /\ \A k \in 2..Lead : Sequence[k] \in {"operand", "read"}
         /\ \A k \in 1..Len(OperationCycles) : Sequence[Lead + k] = OperationCycles[k]
<1> DEFINE n == AddressLen(instr.mode)
           h == <<"opcode">>
           a == AddressCycles(instr.mode)
           o == OperationCycles
           s == h \o a
<1>1. /\ a \in Seq(Kinds) /\ Len(a) = n /\ n \in 0..4
      /\ \A k \in 1..n : a[k] \in {"operand", "read"}
  BY AddressForm
<1>2. "opcode" \in Kinds
  BY DEF Kinds, ReadKinds
<1>3. h \in Seq(Kinds) /\ Len(h) = 1 /\ h[1] = "opcode"
  <2>1. h \in Seq(Kinds)
    BY <1>2
  <2>2. Len(h) = 1
    OBVIOUS
  <2>3. h[1] = "opcode"
    OBVIOUS
  <2> QED BY <2>1, <2>2, <2>3
<1>4. Sequence = s \o o
  BY DEF Sequence
<1>5. Lead = 1 + n
  BY DEF Lead
<1>6. o \in Seq(Kinds)
  OBVIOUS
<1> HIDE DEF a, h, o, n
<1>7. /\ s \in Seq(Kinds) /\ Len(s) = Lead /\ s[1] = "opcode"
      /\ \A k \in 1..n : s[1 + k] = a[k]
  <2>1. /\ s \in Seq(Kinds) /\ Len(s) = Len(h) + Len(a)
        /\ \A k \in 1..Len(h) : s[k] = h[k]
        /\ \A k \in 1..Len(a) : s[Len(h) + k] = a[k]
    BY <1>1, <1>3, Concat
  <2> HIDE DEF s
  <2>2. 1 \in 1..Len(h)
    BY <1>3
  <2>3. s[1] = h[1]
    BY <2>1, <2>2
  <2> QED BY <1>1, <1>3, <1>5, <2>1, <2>3
<1> HIDE DEF s
<1>8. /\ Len(s \o o) = Len(s) + Len(o)
      /\ \A k \in 1..Len(s) : (s \o o)[k] = s[k]
      /\ \A k \in 1..Len(o) : (s \o o)[Len(s) + k] = o[k]
  BY <1>6, <1>7, Concat
<1>9. ASSUME NEW k \in 2..Lead PROVE Sequence[k] \in {"operand", "read"}
  <2>1. k - 1 \in 1..n /\ k = 1 + (k - 1) /\ k \in 1..Lead
    BY <1>1, <1>5
  <2>2. s[1 + (k - 1)] = a[k - 1] /\ a[k - 1] \in {"operand", "read"}
    BY <1>1, <1>7, <2>1
  <2>3. Sequence[k] = s[k]
    BY <1>4, <1>7, <1>8, <2>1
  <2> QED BY <2>1, <2>2, <2>3
<1>10. Lead \in 1..5 /\ 1 \in 1..Lead
  BY <1>1, <1>5
<1> QED BY <1>4, <1>7, <1>8, <1>9, <1>10 DEF o

(* The groups of operations are disjoint, so each does what its arm says. *)
LEMMA Operations ==
  /\ instr.op \in Reading   => OperationCycles = FetchData
  /\ instr.op \in Modifying => OperationCycles = Modify
  /\ instr.op \in Stores    => OperationCycles = <<"write">>
  /\ instr.op \in Masked    => OperationCycles = WriteFetched
  /\ instr.op = "SAX" /\ instr.mode # "IDY" => OperationCycles = WriteFetched
  /\ instr.op \in Branches  => OperationCycles = Branch
  /\ instr.op = "JSR" => OperationCycles = <<"read", "push_high", "push_low">>
  /\ instr.op = "RTI" => OperationCycles = <<"read", "pop_status", "pop_low", "pop_high">>
  /\ instr.op = "RTS" => OperationCycles = <<"read", "pop_low", "pop_high", "read">>
  /\ instr.op = "PHP" => OperationCycles = <<"push_status">>
  /\ instr.op = "PHA" => OperationCycles = <<"push">>
  /\ instr.op = "PLP" => OperationCycles = <<"read", "pop_status">>
  /\ instr.op = "PLA" => OperationCycles = <<"read", "pop">>
  /\ instr.op = "BRK" => OperationCycles = Break
  /\ instr.op \in Silent \union {"JMP"} => OperationCycles = <<>>
<1> USE DEF Reading, Loads, Sums, Logic, Compares, Nops, Combined, Modifying, Shifts, Counts, Twofold,
            Stores, Masked, Branches, Silent, Transfers, Steps, Flags
<1>1. instr.op \in Reading => OperationCycles = FetchData
  BY DEF OperationCycles
<1>2. instr.op \in Modifying => OperationCycles = Modify
  BY DEF OperationCycles
<1>3. instr.op \in Stores => OperationCycles = <<"write">>
  BY DEF OperationCycles
<1>4. instr.op \in Masked => OperationCycles = WriteFetched
  BY DEF OperationCycles
<1>5. instr.op = "SAX" /\ instr.mode # "IDY" => OperationCycles = WriteFetched
  BY DEF OperationCycles
<1>6. instr.op \in Branches => OperationCycles = Branch
  BY DEF OperationCycles
<1>7. /\ instr.op = "JSR" => OperationCycles = <<"read", "push_high", "push_low">>
      /\ instr.op = "RTI" => OperationCycles = <<"read", "pop_status", "pop_low", "pop_high">>
      /\ instr.op = "RTS" => OperationCycles = <<"read", "pop_low", "pop_high", "read">>
  BY DEF OperationCycles
<1>8. /\ instr.op = "PHP" => OperationCycles = <<"push_status">>
      /\ instr.op = "PHA" => OperationCycles = <<"push">>
      /\ instr.op = "PLP" => OperationCycles = <<"read", "pop_status">>
      /\ instr.op = "PLA" => OperationCycles = <<"read", "pop">>
  BY DEF OperationCycles
<1>9. instr.op = "BRK" => OperationCycles = Break
  BY DEF OperationCycles
<1>10. instr.op \in Silent \union {"JMP"} => OperationCycles = <<>>
  BY DEF OperationCycles
<1> QED BY <1>1, <1>2, <1>3, <1>4, <1>5, <1>6, <1>7, <1>8, <1>9, <1>10

(* Fetching or storing the operand takes a cycle, or none. *)
LEMMA DataForm ==
  /\ FetchData \in Seq(Kinds) /\ WriteFetched \in Seq(Kinds)
  /\ FetchData = <<>> \/ FetchData = <<"read">>
  /\ WriteFetched = <<>> \/ WriteFetched = <<"write">>
<1>1. FetchData = <<>> \/ FetchData = <<"read">>
  BY DEF FetchData
<1>2. WriteFetched = <<>> \/ WriteFetched = <<"write">>
  BY DEF WriteFetched
<1>3. "read" \in Kinds /\ "write" \in Kinds
  BY DEF Kinds, ReadKinds, WriteKinds
<1>4. <<>> \in Seq(Kinds)
  OBVIOUS
<1>5. <<"read">> \in Seq(Kinds) /\ <<"write">> \in Seq(Kinds)
  BY <1>3
<1> QED BY <1>1, <1>2, <1>4, <1>5

PlainReads == {"opcode", "operand", "read"}

(* The cycles before the operation's only read. *)
LEMMA FirstReads ==
  ASSUME seq = "instr", instr.mode \in Modes, OperationCycles \in Seq(Kinds)
  PROVE  \A k \in 1..Lead : Sequence[k] \in PlainReads
<1>1. ASSUME NEW k \in 1..Lead PROVE Sequence[k] \in PlainReads
  <2>1. CASE k = 1
    BY <2>1, SequenceParts DEF PlainReads
  <2>2. CASE k \in 2..Lead
    BY <2>2, SequenceParts DEF PlainReads
  <2> QED BY <2>1, <2>2, SequenceParts
<1> QED BY <1>1

(* What only reads: every cycle before the operation's, and these. *)
LEMMA ReadsOnly ==
  ASSUME seq = "instr", instr.mode \in Modes, OperationCycles \in Seq(Kinds),
         \A k \in 1..Len(OperationCycles) : OperationCycles[k] = "read"
  PROVE  /\ Len(Sequence) = Lead + Len(OperationCycles)
         /\ \A k \in 1..Len(Sequence) : Sequence[k] \in PlainReads
<1>1. Len(OperationCycles) \in Nat
  OBVIOUS
<1>2. ASSUME NEW k \in 1..Len(Sequence) PROVE Sequence[k] \in PlainReads
  <2>1. CASE k = 1
    BY <2>1, SequenceParts DEF PlainReads
  <2>2. CASE k \in 2..Lead
    BY <2>2, SequenceParts DEF PlainReads
  <2>3. CASE k > Lead
    <3>1. k - Lead \in 1..Len(OperationCycles) /\ k = Lead + (k - Lead)
      BY <1>1, <2>3, SequenceParts
    <3>2. Sequence[Lead + (k - Lead)] = OperationCycles[k - Lead]
      BY <3>1, SequenceParts
    <3> QED BY <3>1, <3>2 DEF PlainReads
  <2> QED BY <2>1, <2>2, <2>3, SequenceParts
<1> QED BY <1>2, SequenceParts

(* An instruction that reads its operand only reads. *)
LEMMA ReaderForm ==
  ASSUME InstrState, Reader(instr)
  PROVE  /\ Len(Sequence) = instr.cycles + Extra
         /\ \A k \in 1..Len(Sequence) : Sequence[k] \in PlainReads
<1>1. OperationCycles = FetchData
  BY Operations DEF Reader
<1>2. instr.mode \in Modes
  BY DEF Reader, Modes
<1>3. OperationCycles \in Seq(Kinds)
  BY <1>1, DataForm
<1>4. \A k \in 1..Len(OperationCycles) : OperationCycles[k] = "read"
  BY <1>1, DataForm
<1>5. /\ Len(Sequence) = Lead + Len(OperationCycles)
      /\ \A k \in 1..Len(Sequence) : Sequence[k] \in PlainReads
  BY <1>2, <1>3, <1>4, ReadsOnly DEF InstrState
<1>6. Len(OperationCycles) = IF instr.mode = "IMP" \/ (instr.mode \in Indexed /\ ~crossed) THEN 0 ELSE 1
  BY <1>1 DEF FetchData, Reader, Indexed
<1>7. Lead + Len(OperationCycles) = instr.cycles + Extra
  BY <1>6 DEF Lead, AddressLen, Extra, Reader, Indexed
<1> QED BY <1>5, <1>7

(* One that modifies memory reads it and writes it twice. *)
LEMMA ModifierForm ==
  ASSUME InstrState, Modifier(instr)
  PROVE  /\ Len(Sequence) = instr.cycles + Extra
         /\ instr.mode \in Modes
         /\ IF instr.mode = "ACC"
            THEN \A k \in 1..Len(Sequence) : Sequence[k] \in PlainReads
            ELSE /\ Len(Sequence) = Lead + 3 /\ Lead \in 1..5
                 /\ \A k \in 1..Lead : Sequence[k] \in PlainReads
                 /\ Sequence[Lead + 1] = "read"
                 /\ Sequence[Lead + 2] = "write" /\ Sequence[Lead + 3] = "write"
<1>1. OperationCycles = Modify
  BY Operations DEF Modifier
<1>2. instr.mode \in Modes
  BY DEF Modifier, Modes
<1>3. instr.op \notin Rereads /\ instr.op \notin Reading
  BY DEF Modifier, Modifying, Rereads, Shifts, Counts, Twofold,
         Reading, Loads, Sums, Logic, Compares, Nops, Combined
<1>4. CASE instr.mode = "ACC"
  <2>1. FetchData = <<>> /\ WriteFetched = <<>>
    BY <1>4 DEF FetchData, WriteFetched
  <2>2. Modify = <<>>
    BY <2>1 DEF Modify
  <2>3. OperationCycles \in Seq(Kinds) /\ Len(OperationCycles) = 0
    BY <1>1, <2>2
  <2>4. /\ Len(Sequence) = Lead
        /\ \A k \in 1..Len(Sequence) : Sequence[k] \in PlainReads
    BY <1>2, <2>3, ReadsOnly, SequenceParts DEF InstrState
  <2>5. Lead = instr.cycles + Extra
    BY <1>4 DEF Modifier, Lead, AddressLen, Extra, Indexed
  <2> QED BY <1>2, <1>4, <2>4, <2>5
<1>5. CASE instr.mode # "ACC"
  <2>1. FetchData = <<"read">> /\ WriteFetched = <<"write">>
    BY <1>3, <1>5 DEF FetchData, WriteFetched, Modifier
  <2> DEFINE r == FetchData
             w == WriteFetched
  <2>2. r \in Seq(Kinds) /\ w \in Seq(Kinds)
    BY DataForm
  <2>3. Len(r) = 1 /\ r[1] = "read" /\ Len(w) = 1 /\ w[1] = "write"
    BY <2>1
  <2> HIDE DEF r, w
  <2>4. r \o w \in Seq(Kinds) /\ Len(r \o w) = 2 /\ (r \o w)[1] = "read" /\ (r \o w)[2] = "write"
    BY <2>2, <2>3, Concat
  <2> DEFINE m == r \o w
  <2> HIDE DEF m
  <2>5. m \in Seq(Kinds) /\ Len(m) = 2 /\ m[1] = "read" /\ m[2] = "write"
    BY <2>4 DEF m
  <2>6. m \o w \in Seq(Kinds) /\ Len(m \o w) = 3
        /\ (m \o w)[1] = "read" /\ (m \o w)[2] = "write" /\ (m \o w)[3] = "write"
    BY <2>2, <2>3, <2>5, Concat
  <2>7. OperationCycles = m \o w
    BY <1>1 DEF Modify, m, r, w
  <2>8. /\ Len(Sequence) = Lead + 3 /\ Lead \in 1..5
        /\ Sequence[Lead + 1] = "read" /\ Sequence[Lead + 2] = "write" /\ Sequence[Lead + 3] = "write"
    <3> DEFINE o == OperationCycles
    <3>1. seq = "instr"
      BY DEF InstrState
    <3>2. o \in Seq(Kinds) /\ Len(o) = 3 /\ o[1] = "read" /\ o[2] = "write" /\ o[3] = "write"
      BY <2>6, <2>7
    <3>3. /\ Len(Sequence) = Lead + Len(o) /\ Lead \in 1..5
          /\ \A k \in 1..Len(o) : Sequence[Lead + k] = o[k]
      BY <1>2, <3>1, <3>2, SequenceParts
    <3> HIDE DEF o
    <3> QED BY <3>2, <3>3
  <2>9. Lead + 3 = instr.cycles + Extra
    BY <1>3, <1>5 DEF Modifier, Lead, AddressLen, Extra, Indexed
  <2>10. \A k \in 1..Lead : Sequence[k] \in PlainReads
    BY <1>2, <2>6, <2>7, FirstReads DEF InstrState
  <2> QED BY <1>2, <1>5, <2>8, <2>9, <2>10
<1> QED BY <1>4, <1>5

(* One that stores writes in its last cycle. *)
LEMMA StorerForm ==
  ASSUME InstrState, Storer(instr)
  PROVE  /\ Len(Sequence) = instr.cycles + Extra
         /\ instr.mode \in Modes
         /\ Len(Sequence) = Lead + 1 /\ Lead \in 1..5
         /\ \A k \in 1..Lead : Sequence[k] \in PlainReads
         /\ Sequence[Lead + 1] = "write"
<1>1. WriteFetched = <<"write">>
  BY DEF WriteFetched, Storer
<1>2. OperationCycles = <<"write">>
  <2>1. CASE instr.op \in Stores
    BY <2>1, Operations
  <2>2. CASE instr.op \in Masked
    BY <1>1, <2>2, Operations
  <2>3. CASE instr.op = "SAX"
    BY <1>1, <2>3, Operations DEF Storer
  <2> QED BY <2>1, <2>2, <2>3 DEF Storer
<1>3. OperationCycles \in Seq(Kinds)
  BY <1>1, <1>2, DataForm
<1>4. instr.mode \in Modes
  BY DEF Storer, Modes
<1>5. Len(OperationCycles) = 1 /\ OperationCycles[1] = "write"
  BY <1>2
<1>6. Len(Sequence) = Lead + 1 /\ Lead \in 1..5 /\ Sequence[Lead + 1] = "write"
  BY <1>3, <1>4, <1>5, SequenceParts DEF InstrState
<1>7. instr.op \notin Reading
  BY DEF Storer, Stores, Masked, Reading, Loads, Sums, Logic, Compares, Nops, Combined
<1>8. Lead + 1 = instr.cycles + Extra
  BY <1>7 DEF Storer, Lead, AddressLen, Extra, Indexed
<1>9. \A k \in 1..Lead : Sequence[k] \in PlainReads
  BY <1>3, <1>4, FirstReads DEF InstrState
<1> QED BY <1>4, <1>6, <1>8, <1>9

(* Branches, jumps and what works on registers only read. *)
LEMMA QuietForm ==
  ASSUME InstrState, Special(instr), instr.op \in Branches \union Silent \union {"JMP"}
  PROVE  /\ Len(Sequence) = instr.cycles + Extra
         /\ \A k \in 1..Len(Sequence) : Sequence[k] \in PlainReads
         /\ taken => Sequence[1] # "operand" /\ \A k \in 3..Len(Sequence) : Sequence[k] # "operand"
         /\ taken => Len(Sequence) > 2
<1>1. instr.mode \in Modes
  BY DEF Special, Modes
<1>2. CASE instr.op \in Branches
  <2>1. instr.mode = "REL" /\ instr.cycles = 2
    BY <1>2 DEF Special, Branches, Silent, Transfers, Steps, Flags
  <2>2. OperationCycles = Branch
    BY <1>2, Operations
  <2>3. "read" \in Kinds
    BY DEF Kinds, ReadKinds
  <2>4. OperationCycles \in Seq(Kinds)
    <3>1. <<>> \in Seq(Kinds) /\ <<"read">> \in Seq(Kinds) /\ <<"read", "read">> \in Seq(Kinds)
      BY <2>3
    <3> QED BY <2>2, <3>1 DEF Branch
  <2>5. /\ Len(OperationCycles) = IF ~taken THEN 0 ELSE IF crossed THEN 2 ELSE 1
        /\ \A k \in 1..Len(OperationCycles) : OperationCycles[k] = "read"
    BY <2>2 DEF Branch
  <2>6. /\ Len(Sequence) = Lead + Len(OperationCycles)
        /\ \A k \in 1..Len(Sequence) : Sequence[k] \in PlainReads
    BY <1>1, <2>4, <2>5, ReadsOnly DEF InstrState
  <2>7. Lead = 2
    BY <2>1 DEF Lead, AddressLen
  <2>8. Extra = IF taken THEN (IF crossed THEN 2 ELSE 1) ELSE 0
    BY <2>1 DEF Extra, Indexed
  <2>9. Sequence[1] = "opcode" /\ \A k \in 1..Len(OperationCycles) : Sequence[2 + k] = OperationCycles[k]
    BY <1>1, <2>4, <2>7, SequenceParts DEF InstrState
  <2>10. ASSUME NEW k \in 3..Len(Sequence) PROVE Sequence[k] # "operand"
    <3>1. k - 2 \in 1..Len(OperationCycles) /\ k = 2 + (k - 2)
      BY <2>4, <2>6, <2>7
    <3>2. Sequence[2 + (k - 2)] = "read"
      BY <2>5, <2>9, <3>1
    <3> QED BY <3>1, <3>2
  <2> QED BY <2>1, <2>5, <2>6, <2>7, <2>8, <2>9, <2>10
<1>3. CASE instr.op \in Silent \union {"JMP"}
  <2>1. OperationCycles = <<>>
    BY <1>3, Operations
  <2>2. OperationCycles \in Seq(Kinds) /\ Len(OperationCycles) = 0
    BY <2>1
  <2>3. /\ Len(Sequence) = Lead
        /\ \A k \in 1..Len(Sequence) : Sequence[k] \in PlainReads
    BY <1>1, <2>2, ReadsOnly, SequenceParts DEF InstrState
  <2>4. instr.op \notin Branches
    BY <1>3 DEF Branches, Silent, Transfers, Steps, Flags
  <2>5. Lead = instr.cycles + Extra
    BY <1>3, <2>4 DEF Special, Silent, Transfers, Steps, Flags, Lead, AddressLen, Extra, Indexed
  <2> QED BY <2>3, <2>4, <2>5 DEF InstrState
<1> QED BY <1>2, <1>3

(* The instructions that push and pop, cycle by cycle. *)
StackCycles ==
  \/ /\ instr.op = "PHA" /\ Len(Sequence) = 3
     /\ Sequence[2] \in PlainReads /\ Sequence[3] = "push"
  \/ /\ instr.op = "PHP" /\ Len(Sequence) = 3
     /\ Sequence[2] \in PlainReads /\ Sequence[3] = "push_status"
  \/ /\ instr.op = "PLA" /\ Len(Sequence) = 4
     /\ Sequence[2] \in PlainReads /\ Sequence[3] = "read" /\ Sequence[4] = "pop"
  \/ /\ instr.op = "PLP" /\ Len(Sequence) = 4
     /\ Sequence[2] \in PlainReads /\ Sequence[3] = "read" /\ Sequence[4] = "pop_status"
  \/ /\ instr.op = "RTI" /\ Len(Sequence) = 6
     /\ Sequence[2] \in PlainReads /\ Sequence[3] = "read" /\ Sequence[4] = "pop_status"
     /\ Sequence[5] = "pop_low" /\ Sequence[6] = "pop_high"
  \/ /\ instr.op = "RTS" /\ Len(Sequence) = 6
     /\ Sequence[2] \in PlainReads /\ Sequence[3] = "read" /\ Sequence[4] = "pop_low"
     /\ Sequence[5] = "pop_high" /\ Sequence[6] = "read"
  \/ /\ instr.op = "JSR" /\ Len(Sequence) = 6
     /\ Sequence[2] \in PlainReads /\ Sequence[3] \in PlainReads /\ Sequence[4] = "read"
     /\ Sequence[5] = "push_high" /\ Sequence[6] = "push_low"
  \/ /\ instr.op = "BRK" /\ Len(Sequence) = 7
     /\ Sequence[2] = "read" /\ Sequence[3] = "push_high" /\ Sequence[4] = "push_low"
     /\ Sequence[5] = "push_status" /\ Sequence[6] = "read" /\ Sequence[7] = "read"

LEMMA StackForm ==
  ASSUME InstrState, Special(instr), instr.op \notin Branches \union Silent \union {"JMP"}
  PROVE  /\ Len(Sequence) = instr.cycles + Extra
         /\ instr.mode \in {"IMP", "ABS", "IMM"}
         /\ StackCycles
<1> DEFINE o == OperationCycles
<1>k. /\ "read" \in Kinds /\ "push" \in Kinds /\ "push_high" \in Kinds /\ "push_low" \in Kinds
      /\ "push_status" \in Kinds /\ "pop" \in Kinds /\ "pop_status" \in Kinds
      /\ "pop_low" \in Kinds /\ "pop_high" \in Kinds
  BY DEF Kinds, ReadKinds, WriteKinds
<1>m. instr.mode \in {"IMP", "ABS", "IMM"} /\ instr.mode \in Modes
  BY DEF Special, Modes
<1>e. Extra = 0
  BY <1>m DEF Extra, Indexed
(* The operation's cycles follow those that find an address. *)
<1>p. ASSUME o \in Seq(Kinds)
      PROVE  /\ Len(Sequence) = Lead + Len(o)
             /\ \A k \in 2..Lead : Sequence[k] \in PlainReads
             /\ \A k \in 1..Len(o) : Sequence[Lead + k] = o[k]
  BY <1>p, <1>m, SequenceParts DEF InstrState, PlainReads
<1>1. CASE instr.op \in {"PHA", "PHP"}
  <2>1. Lead = 2 /\ instr.cycles = 3
    BY <1>1 DEF Special, Lead, AddressLen, Branches, Silent, Transfers, Steps, Flags
  <2>2. o \in {<<"push">>, <<"push_status">>} /\ o[1] = IF instr.op = "PHA" THEN "push" ELSE "push_status"
    BY <1>1, Operations
  <2>3. o \in Seq(Kinds) /\ Len(o) = 1
    <3>1. <<"push">> \in Seq(Kinds) /\ <<"push_status">> \in Seq(Kinds)
      BY <1>k
    <3> QED BY <2>2, <3>1
  <2> HIDE DEF o
  <2>4. Len(Sequence) = 3 /\ Sequence[2] \in PlainReads /\ Sequence[3] = o[1]
    BY <1>p, <2>1, <2>3
  <2> QED BY <1>1, <1>e, <1>m, <2>1, <2>2, <2>4 DEF StackCycles
<1>2. CASE instr.op \in {"PLA", "PLP"}
  <2>1. Lead = 2 /\ instr.cycles = 4
    BY <1>2 DEF Special, Lead, AddressLen, Branches, Silent, Transfers, Steps, Flags
  <2>2. /\ o \in {<<"read", "pop">>, <<"read", "pop_status">>}
        /\ o[1] = "read" /\ o[2] = IF instr.op = "PLA" THEN "pop" ELSE "pop_status"
    BY <1>2, Operations
  <2>3. o \in Seq(Kinds) /\ Len(o) = 2
    <3>1. <<"read", "pop">> \in Seq(Kinds) /\ <<"read", "pop_status">> \in Seq(Kinds)
      BY <1>k
    <3> QED BY <2>2, <3>1
  <2> HIDE DEF o
  <2>4. Len(Sequence) = 4 /\ Sequence[2] \in PlainReads /\ Sequence[3] = o[1] /\ Sequence[4] = o[2]
    BY <1>p, <2>1, <2>3
  <2> QED BY <1>2, <1>e, <1>m, <2>1, <2>2, <2>4 DEF StackCycles
<1>3. CASE instr.op \in {"RTI", "RTS"}
  <2>1. Lead = 2 /\ instr.cycles = 6
    BY <1>3 DEF Special, Lead, AddressLen, Branches, Silent, Transfers, Steps, Flags
  <2>2. o \in Seq(Kinds) /\ Len(o) = 4
    <3>1. /\ <<"read", "pop_status", "pop_low", "pop_high">> \in Seq(Kinds)
          /\ <<"read", "pop_low", "pop_high", "read">> \in Seq(Kinds)
      BY <1>k
    <3> QED BY <1>3, <3>1, Operations
  <2>3. /\ o[1] = "read"
        /\ instr.op = "RTI" => o[2] = "pop_status" /\ o[3] = "pop_low" /\ o[4] = "pop_high"
        /\ instr.op = "RTS" => o[2] = "pop_low" /\ o[3] = "pop_high" /\ o[4] = "read"
    BY <1>3, Operations
  <2> HIDE DEF o
  <2>4. /\ Len(Sequence) = 6 /\ Sequence[2] \in PlainReads
        /\ Sequence[3] = o[1] /\ Sequence[4] = o[2] /\ Sequence[5] = o[3] /\ Sequence[6] = o[4]
    BY <1>p, <2>1, <2>2
  <2> QED BY <1>3, <1>e, <1>m, <2>1, <2>3, <2>4 DEF StackCycles
<1>4. CASE instr.op = "JSR"
  <2>1. Lead = 3 /\ instr.cycles = 6
    BY <1>4 DEF Special, Lead, AddressLen, Branches, Silent, Transfers, Steps, Flags
  <2>2. o \in Seq(Kinds) /\ Len(o) = 3
    <3>1. <<"read", "push_high", "push_low">> \in Seq(Kinds)
      BY <1>k
    <3> QED BY <1>4, <3>1, Operations
  <2>3. o[1] = "read" /\ o[2] = "push_high" /\ o[3] = "push_low"
    BY <1>4, Operations
  <2> HIDE DEF o
  <2>4. /\ Len(Sequence) = 6 /\ Sequence[2] \in PlainReads /\ Sequence[3] \in PlainReads
        /\ Sequence[4] = o[1] /\ Sequence[5] = o[2] /\ Sequence[6] = o[3]
    BY <1>p, <2>1, <2>2
  <2> QED BY <1>4, <1>e, <1>m, <2>1, <2>3, <2>4 DEF StackCycles
<1>5. CASE instr.op = "BRK"
  <2>1. Lead = 1 /\ instr.cycles = 7 /\ instr.mode = "IMM"
    BY <1>5 DEF Special, Lead, AddressLen, Branches, Silent, Transfers, Steps, Flags
  <2> DEFINE r == FetchData
             b == <<"push_high", "push_low", "push_status", "read", "read">>
  <2>2. r = <<"read">>
    BY <2>1 DEF FetchData, Indexed
  <2>3. r \in Seq(Kinds) /\ Len(r) = 1 /\ r[1] = "read"
    BY <2>2, DataForm
  <2>4. /\ b \in Seq(Kinds) /\ Len(b) = 5
        /\ b[1] = "push_high" /\ b[2] = "push_low" /\ b[3] = "push_status" /\ b[4] = "read" /\ b[5] = "read"
    <3>1. b \in Seq(Kinds)
      BY <1>k
    <3>2. Len(b) = 5
      OBVIOUS
    <3>3. b[1] = "push_high" /\ b[2] = "push_low" /\ b[3] = "push_status" /\ b[4] = "read" /\ b[5] = "read"
      OBVIOUS
    <3> QED BY <3>1, <3>2, <3>3
  <2>5. o = r \o b
    BY <1>5, Operations DEF Break
  <2> HIDE DEF r, b, o
  <2>6. /\ o \in Seq(Kinds) /\ Len(o) = 6
        /\ o[1] = "read" /\ o[2] = "push_high" /\ o[3] = "push_low" /\ o[4] = "push_status"
        /\ o[5] = "read" /\ o[6] = "read"
    <3>1. /\ o \in Seq(Kinds) /\ Len(o) = Len(r) + Len(b)
          /\ \A k \in 1..Len(r) : o[k] = r[k]
          /\ \A k \in 1..Len(b) : o[Len(r) + k] = b[k]
      BY <2>3, <2>4, <2>5, Concat
    <3>2. Len(o) = 6 /\ o[1] = r[1] /\ \A k \in 1..5 : o[1 + k] = b[k]
      BY <2>3, <2>4, <3>1
    <3>3. o[2] = b[1] /\ o[3] = b[2] /\ o[4] = b[3] /\ o[5] = b[4] /\ o[6] = b[5]
      BY <3>2
    <3> QED BY <2>3, <2>4, <3>1, <3>2, <3>3
  <2>7. /\ Len(Sequence) = 7
        /\ Sequence[2] = o[1] /\ Sequence[3] = o[2] /\ Sequence[4] = o[3] /\ Sequence[5] = o[4]
        /\ Sequence[6] = o[5] /\ Sequence[7] = o[6]
    BY <1>p, <2>1, <2>6
  <2> QED BY <1>5, <1>e, <1>m, <2>1, <2>6, <2>7 DEF StackCycles
<1> QED BY <1>1, <1>2, <1>3, <1>4, <1>5 DEF Special

(* The cycles that take an interrupt. *)
LEMMA IrqForm ==
  seq = "irq" =>
    /\ Len(Sequence) = 7
    /\ Sequence[1] = "read" /\ Sequence[2] = "read" /\ Sequence[3] = "push_high"
    /\ Sequence[4] = "push_low" /\ Sequence[5] = "push_status"
    /\ Sequence[6] = "read" /\ Sequence[7] = "read"
<1>1. seq = "irq" => Sequence = IrqCycles
  BY DEF Sequence
<1>2. /\ Len(IrqCycles) = 7
      /\ IrqCycles[1] = "read" /\ IrqCycles[2] = "read" /\ IrqCycles[3] = "push_high"
      /\ IrqCycles[4] = "push_low" /\ IrqCycles[5] = "push_status"
      /\ IrqCycles[6] = "read" /\ IrqCycles[7] = "read"
  BY DEF IrqCycles
<1> QED BY <1>1, <1>2

(* The cycles of a reset. *)
LEMMA ResetForm ==
  seq = "reset" => Len(Sequence) = 7 /\ \A k \in 1..7 : Sequence[k] = "idle"
<1>1. seq = "reset" => Sequence = ResetSequence
  BY DEF Sequence
<1>2. Len(ResetSequence) = 7 /\ \A k \in 1..7 : ResetSequence[k] = "idle"
  <2>1. Len(ResetSequence) = 7
    BY DEF ResetSequence
  <2>2. \A k \in 1..7 : ResetSequence[k] = "idle"
    BY DEF ResetSequence
  <2> QED BY <2>1, <2>2
<1> QED BY <1>1, <1>2

(* Every instruction takes the time of the table, at least two cycles. *)
LEMMA TimeTaken ==
  InstrState =>
    /\ Len(Sequence) = instr.cycles + Extra
    /\ instr.cycles \in 2..8 /\ Extra \in 0..2
<1> SUFFICES ASSUME InstrState PROVE
      /\ Len(Sequence) = instr.cycles + Extra
      /\ instr.cycles \in 2..8 /\ Extra \in 0..2
  OBVIOUS
<1>1. Reader(instr) \/ Modifier(instr) \/ Storer(instr) \/ Special(instr)
  BY TableRows DEF InstrState
<1>2. Len(Sequence) = instr.cycles + Extra
  BY <1>1, ReaderForm, ModifierForm, StorerForm, QuietForm, StackForm
<1>3. instr.cycles \in 2..8
  BY <1>1 DEF Reader, Modifier, Storer, Special
<1>4. Extra \in 0..2
  BY DEF Extra
<1> QED BY <1>2, <1>3, <1>4

(* Every cycle of an instruction: what it writes, pushes and pops, and     *)
(* when.                                                                   *)
StackOps == {"PHA", "PHP", "PLA", "PLP", "RTI", "RTS", "JSR", "BRK"}

ReadCycles ==
  /\ instr.op \notin StackOps \union Stores \union Masked \union {"SAX"}
  /\ instr.op \in Modifying => instr.mode = "ACC"
  /\ \A k \in 1..Len(Sequence) : Sequence[k] \in PlainReads

ModifyCycles ==
  /\ instr.op \in Modifying /\ instr.mode # "ACC" /\ instr.mode \in Modes
  /\ Len(Sequence) = Lead + 3 /\ Lead \in 1..5
  /\ \A k \in 1..Lead : Sequence[k] \in PlainReads
  /\ Sequence[Lead + 1] = "read"
  /\ Sequence[Lead + 2] = "write" /\ Sequence[Lead + 3] = "write"

StoreCycles ==
  /\ instr.op \in Stores \union Masked \union {"SAX"} /\ instr.mode \in Modes
  /\ Len(Sequence) = Lead + 1 /\ Lead \in 1..5
  /\ \A k \in 1..Lead : Sequence[k] \in PlainReads
  /\ Sequence[Lead + 1] = "write"

(* These are all. *)
LEMMA Forms ==
  InstrState => ReadCycles \/ ModifyCycles \/ StoreCycles \/ StackCycles
<1> SUFFICES ASSUME InstrState PROVE ReadCycles \/ ModifyCycles \/ StoreCycles \/ StackCycles
  OBVIOUS
<1>1. CASE Reader(instr)
  <2>1. instr.op \notin StackOps \union Stores \union Masked \union {"SAX"} \union Modifying
    BY <1>1 DEF Reader, Reading, Loads, Sums, Logic, Compares, Nops, Combined, StackOps,
          Stores, Masked, Modifying, Shifts, Counts, Twofold
  <2> QED BY <1>1, <2>1, ReaderForm DEF ReadCycles
<1>2. CASE Modifier(instr)
  <2>1. instr.op \notin StackOps \union Stores \union Masked \union {"SAX"}
    BY <1>2 DEF Modifier, Modifying, Shifts, Counts, Twofold, StackOps, Stores, Masked
  <2> QED BY <1>2, <2>1, ModifierForm DEF ReadCycles, ModifyCycles, Modifier
<1>3. CASE Storer(instr)
  BY <1>3, StorerForm DEF StoreCycles, Storer
<1>4. CASE Special(instr) /\ instr.op \in Branches \union Silent \union {"JMP"}
  <2>1. instr.op \notin StackOps \union Stores \union Masked \union {"SAX"} \union Modifying
    BY <1>4 DEF Branches, Silent, Transfers, Steps, Flags, StackOps,
          Stores, Masked, Modifying, Shifts, Counts, Twofold
  <2> QED BY <1>4, <2>1, QuietForm DEF ReadCycles
<1>5. CASE Special(instr) /\ instr.op \notin Branches \union Silent \union {"JMP"}
  BY <1>5, StackForm
<1> QED BY <1>1, <1>2, <1>3, <1>4, <1>5, TableRows DEF InstrState

(* A branch that is taken reads its operand in the second cycle, and goes  *)
(* on after it.                                                            *)
LEMMA TakenForm ==
  InstrState /\ taken =>
    Len(Sequence) > 2 /\ \A k \in 3..Len(Sequence) : Sequence[k] # "operand"
<1> SUFFICES ASSUME InstrState, taken
             PROVE  Len(Sequence) > 2 /\ \A k \in 3..Len(Sequence) : Sequence[k] # "operand"
  OBVIOUS
<1>1. instr.op \in Branches
  BY DEF InstrState
<1>2. Special(instr)
  BY <1>1, TableRows DEF InstrState, Branches, Reader, Modifier, Storer, Reading, Loads, Sums, Logic,
     Compares, Nops, Combined, Modifying, Shifts, Counts, Twofold, Stores, Masked
<1> QED BY <1>1, <1>2, QuietForm

(* The same after a step. *)
LEMMA TimeTakenNext == InstrState' => (Len(Sequence) >= 2)'
<1>1. InstrState => Len(Sequence) >= 2
  BY TimeTaken
<1> QED BY <1>1, PTL

-----------------------------------------------------------------------------
(* What the CPU is in. *)

(* What the CPU is in, and how far. *)
Shape ==
  /\ program \in Programs
  /\ seq \in {"instr", "irq", "reset"} /\ step \in Nat
  /\ crossed \in BOOLEAN /\ taken \in BOOLEAN
  /\ run_irq \in BOOLEAN /\ nmi \in BOOLEAN /\ i_flag \in BOOLEAN /\ i_before \in BOOLEAN
  /\ seq = "instr" /\ step > 0 => instr \in Table /\ (taken => instr.op \in Branches)
  /\ ~(seq = "instr" /\ step > 0) => instr = NoInstr
  /\ ~Between => step < Len(Sequence)

(* The length of what the CPU is in. *)
LEMMA Lengths ==
  Shape /\ ~Between => Len(Sequence) \in Nat /\ Len(Sequence) >= 2
<1> SUFFICES ASSUME Shape, ~Between PROVE Len(Sequence) \in Nat /\ Len(Sequence) >= 2
  OBVIOUS
<1>1. CASE seq = "instr"
  <2>1. InstrState
    BY <1>1 DEF InstrState, Shape, Between
  <2> QED BY <2>1, TimeTaken
<1>2. CASE seq \in {"irq", "reset"}
  BY <1>2, IrqForm, ResetForm
<1> QED BY <1>1, <1>2 DEF Shape

(* The steps that end a cycle. *)
BusCycle ==
  \/ ReadOperand \/ Read \/ Write
  \/ PushByte \/ PushHigh \/ PushLow \/ PushStatus
  \/ PopByte \/ PopStatus \/ PopLow \/ PopHigh
  \/ ResetStep

(* A step is a wait, a fetch, a reset or the end of a cycle. *)
LEMMA StepKinds ==
  InstrNext => /\ program' = program
               /\ Stall \/ Fetch \/ (\E hard \in BOOLEAN : ResetCpu(hard)) \/ BusCycle
BY DEF InstrNext, Step, BusCycle

(* The end of a cycle comes in a sequence. *)
LEMMA CycleEnds ==
  BusCycle => ~Between /\ FinishCycle
BY DEF BusCycle, ReadOperand, Read, Write, PushByte, PushHigh, PushLow, PushStatus,
       PopByte, PopStatus, PopLow, PopHigh, ResetStep, Push, Pop, Does

(* The sequence does not change before it ends. *)
LEMMA SequenceKept ==
  ASSUME seq' = seq, instr' = instr, crossed' = crossed, taken' = taken
  PROVE  Sequence' = Sequence
BY DEF Sequence, OperationCycles, FetchData, WriteFetched, Modify, Branch, Break, ResetSequence, IrqCycles,
  AddressCycles

(* Before the last cycle only the step moves on. *)
LEMMA GoOnKept ==
  ASSUME Shape, ~Between, GoOn, ~Last
  PROVE  /\ step' = step + 1 /\ seq' = seq /\ instr' = instr /\ crossed' = crossed /\ taken' = taken
         /\ i_before' = i_before /\ Sequence' = Sequence /\ step + 1 < Len(Sequence)
<1>1. step' = step + 1 /\ seq' = seq /\ instr' = instr
  BY DEF GoOn
<1>2. (crossed' <=> crossed) /\ (taken' <=> taken) /\ (i_before' <=> i_before)
  BY DEF GoOn
<1>3. crossed' \in BOOLEAN /\ taken' \in BOOLEAN /\ i_before' \in BOOLEAN
  BY DEF GoOn
<1>4. crossed' = crossed /\ taken' = taken /\ i_before' = i_before
  BY <1>2, <1>3 DEF Shape
<1>5. Sequence' = Sequence
  BY <1>1, <1>4, SequenceKept
<1>6. step + 1 < Len(Sequence)
  BY Lengths DEF Shape, Last
<1> QED BY <1>1, <1>4, <1>5, <1>6

(* The length of the other sequences, after a step. *)
LEMMA OthersNext ==
  /\ (seq = "irq")' => (Len(Sequence) = 7)'
  /\ (seq = "reset")' => (Len(Sequence) = 7)'
<1>1. /\ seq = "irq" => Len(Sequence) = 7
      /\ seq = "reset" => Len(Sequence) = 7
  BY IrqForm, ResetForm
<1> QED BY <1>1, PTL

(* The latches stay Boolean. *)
LEMMA PollBooleans ==
  ASSUME NEW done \in BOOLEAN, Poll(done)
  PROVE  run_irq' \in BOOLEAN /\ nmi' \in BOOLEAN
BY DEF Poll, Polled

(* So does the I flag. *)
LEMMA FlagTyped ==
  ASSUME Shape, [InstrNext]_instr_vars
  PROVE  i_flag' \in BOOLEAN
<1>1. CASE UNCHANGED instr_vars
  BY <1>1 DEF Shape, instr_vars
<1>2. CASE Step
  BY <1>2 DEF Shape, Step, Stall, Fetch, ReadOperand, Read, Write, PushByte, PushHigh, PushLow, PushStatus,
       PopByte, PopStatus, PopLow, PopHigh, ResetCpu, ResetStep, Pop, Disables, Breaks, Masks
<1> QED BY <1>1, <1>2 DEF InstrNext

(* Shape is inductive: no sequence is left before its last cycle, or run   *)
(* past it.                                                                *)
LEMMA ShapeKept ==
  Shape /\ [InstrNext]_instr_vars => Shape'
<1> SUFFICES ASSUME Shape, [InstrNext]_instr_vars PROVE Shape'
  OBVIOUS
<1>1. CASE UNCHANGED instr_vars
  <2>1. Sequence' = Sequence /\ Between' = Between
    BY <1>1, SequenceKept DEF instr_vars, fetched, Between
  <2> QED BY <1>1, <2>1 DEF instr_vars, fetched, latches, Shape
<1>2. CASE program' = program /\ Stall
  <2>1. Sequence' = Sequence /\ Between' = Between
    BY <1>2, SequenceKept DEF Stall, fetched, Between
  <2>2. run_irq' \in BOOLEAN /\ nmi' \in BOOLEAN
    BY <1>2, PollBooleans DEF Stall
  <2> QED BY <1>2, <2>1, <2>2 DEF Stall, fetched, Shape
<1>3. CASE program' = program /\ Fetch
  <2>1. /\ seq' = "instr" /\ step' = 1 /\ crossed' \in BOOLEAN /\ taken' \in BOOLEAN /\ instr' \in Table
        /\ taken' => instr'.op \in Branches
    BY <1>3 DEF Fetch, Between, Program
  <2>2. run_irq' \in BOOLEAN /\ nmi' \in BOOLEAN
    BY <1>3, PollBooleans DEF Fetch
  <2>3. InstrState'
    BY <2>1 DEF InstrState
  <2>4. step' < Len(Sequence)'
    BY <2>1, <2>3, TimeTakenNext
  <2> QED BY <1>3, <2>1, <2>2, <2>4 DEF Fetch, Shape
<1>4. CASE program' = program /\ \E hard \in BOOLEAN : ResetCpu(hard)
  <2>1. seq' = "reset" /\ step' = 0 /\ instr' = NoInstr
    BY <1>4 DEF ResetCpu, Between, Shape
  <2>2. Len(Sequence)' = 7
    BY <2>1, OthersNext
  <2>3. run_irq' \in BOOLEAN /\ nmi' \in BOOLEAN /\ i_flag' \in BOOLEAN
    BY <1>4 DEF ResetCpu
  <2>4. crossed' = crossed /\ taken' = taken /\ i_before' = i_before
    BY <1>4 DEF ResetCpu
  <2> QED BY <1>4, <2>1, <2>2, <2>3, <2>4 DEF Shape
<1>5. CASE program' = program /\ ~Between /\ FinishCycle
  <2>1. run_irq' \in BOOLEAN /\ nmi' \in BOOLEAN
    BY <1>5, PollBooleans DEF FinishCycle
  <2>2. i_flag' \in BOOLEAN
    BY FlagTyped
  <2>3. CASE ~Last
    <3>1. /\ step' = step + 1 /\ seq' = seq /\ instr' = instr /\ crossed' = crossed /\ taken' = taken
          /\ i_before' = i_before /\ Sequence' = Sequence /\ step + 1 < Len(Sequence)
      BY <1>5, <2>3, GoOnKept DEF FinishCycle
    <3>2. seq = "instr" => step > 0
      BY <1>5 DEF Between, Shape
    <3> QED BY <1>5, <2>1, <2>2, <3>1, <3>2 DEF Shape
  <2>4. CASE Last
    <3>1. /\ step' = 0 /\ seq' \in {"irq", "instr"} /\ instr' = NoInstr
          /\ crossed' \in BOOLEAN /\ taken' \in BOOLEAN /\ i_before' \in BOOLEAN
      BY <1>5, <2>4 DEF FinishCycle, GoOn
    <3>2. seq' = "irq" => Len(Sequence)' = 7
      BY OthersNext
    <3>3. Between' <=> (seq' = "instr")
      BY <3>1 DEF Between
    <3>4. ~Between' => step' < Len(Sequence)'
      BY <3>1, <3>2, <3>3
    <3>5. ~(seq' = "instr" /\ step' > 0)
      BY <3>1
    <3> QED BY <1>5, <2>1, <2>2, <3>1, <3>4, <3>5 DEF Shape
  <2> QED BY <2>3, <2>4
<1> QED BY <1>1, <1>2, <1>3, <1>4, <1>5, StepKinds, CycleEnds

(* It holds after power-on. *)
LEMMA InitShape == InstrInit => Shape
<1> SUFFICES ASSUME InstrInit PROVE Shape
  OBVIOUS
<1>1. Len(Sequence) = 7
  BY ResetForm DEF InstrInit
<1>2. seq = "reset" /\ step = 0 /\ instr = NoInstr /\ program \in Programs
  BY DEF InstrInit
<1>3. /\ crossed \in BOOLEAN /\ taken \in BOOLEAN
      /\ run_irq \in BOOLEAN /\ nmi \in BOOLEAN /\ i_flag \in BOOLEAN /\ i_before \in BOOLEAN
  BY DEF InstrInit
<1> QED BY <1>1, <1>2, <1>3 DEF Shape

(* The CPU is always within one of the sequences of the table, of an       *)
(* interrupt or of a reset.                                                *)
THEOREM ShapeHolds == InstrSpec => []Shape
<1> QED BY InitShape, ShapeKept, PTL DEF InstrSpec

(* Every instruction takes the cycles of the table, plus one for a read    *)
(* across a page and up to two for a branch, and ends there.               *)
THEOREM InstructionsTakeTheirTime == InstrSpec => []TakesItsTime
<1>1. Shape => TakesItsTime
  <2> SUFFICES ASSUME Shape, seq = "instr", Last PROVE step + 1 = instr.cycles + Extra
    BY DEF TakesItsTime
  <2>1. InstrState
    BY DEF InstrState, Shape, Last, Between
  <2> QED BY <2>1, TimeTaken DEF Last
<1> QED BY <1>1, ShapeHolds, PTL

-----------------------------------------------------------------------------
(* Where the stack and the I flag change. *)

(* The cycles that push and pop, and where they are. *)
Kind == Sequence[step + 1]

StackPlaces ==
  /\ Kind = "push"        <=> instr.op = "PHA" /\ step = 2
  /\ Kind = "push_high"   <=> (Breaks /\ step = 2) \/ (instr.op = "JSR" /\ step = 4)
  /\ Kind = "push_low"    <=> (Breaks /\ step = 3) \/ (instr.op = "JSR" /\ step = 5)
  /\ Kind = "push_status" <=> (Breaks /\ step = 4) \/ (instr.op = "PHP" /\ step = 2)
  /\ Kind = "pop"         <=> instr.op = "PLA" /\ step = 3
  /\ Kind = "pop_status"  <=> instr.op \in {"PLP", "RTI"} /\ step = 3
  /\ Kind = "pop_low"     <=> (instr.op = "RTI" /\ step = 4) \/ (instr.op = "RTS" /\ step = 3)
  /\ Kind = "pop_high"    <=> (instr.op = "RTI" /\ step = 5) \/ (instr.op = "RTS" /\ step = 4)

Ends ==
  /\ Breaks => Len(Sequence) = 7
  /\ instr.op \in {"JSR", "RTI", "RTS"} => Len(Sequence) = 6
  /\ instr.op \in {"PHA", "PHP"} => Len(Sequence) = 3
  /\ instr.op \in {"PLA", "PLP"} => Len(Sequence) = 4

(* A cycle pushes or pops where these say, and nowhere else. *)
LEMMA StackPlacesHold ==
  ASSUME Shape, ~Between
  PROVE  StackPlaces /\ Ends
<1>1. step \in Nat /\ step < Len(Sequence)
  BY DEF Shape
<1>0. NoInstr.op = "none"
  BY DEF NoInstr
<1>2. CASE seq = "irq"
  <2>1. instr.op = "none" /\ Breaks /\ step \in 0..6
    <3>1. instr = NoInstr
      BY <1>2 DEF Shape
    <3>2. step \in 0..6
      <4>1. Len(Sequence) = 7
        BY <1>2, IrqForm
      <4> QED BY <1>1, <4>1
    <3> QED BY <1>0, <1>2, <3>1, <3>2 DEF Breaks
  <2>2. Kind = IF step = 2 THEN "push_high" ELSE IF step = 3 THEN "push_low"
               ELSE IF step = 4 THEN "push_status" ELSE "read"
    BY <1>2, <2>1, IrqForm DEF Kind
  <2> QED BY <1>2, <2>1, <2>2, IrqForm DEF StackPlaces, Ends
<1>3. CASE seq = "reset"
  <2>1. instr.op = "none" /\ ~Breaks /\ Kind = "idle"
    <3>1. instr = NoInstr
      BY <1>3 DEF Shape
    <3>2. step + 1 \in 1..7
      <4>1. Len(Sequence) = 7
        BY <1>3, ResetForm
      <4> QED BY <1>1, <4>1
    <3>3. Kind = "idle"
      BY <1>3, <3>2, ResetForm DEF Kind
    <3> QED BY <1>0, <1>3, <3>1, <3>3 DEF Breaks
  <2> QED BY <2>1 DEF StackPlaces, Ends
<1>4. CASE seq = "instr"
  <2>1. InstrState /\ step >= 1
    BY <1>1, <1>4 DEF InstrState, Shape, Between
  <2>2. Breaks <=> instr.op = "BRK"
    BY <1>4 DEF Breaks
  <2>3. CASE ReadCycles \/ ModifyCycles \/ StoreCycles
    <3>1. instr.op \notin StackOps
      BY <2>3 DEF ReadCycles, ModifyCycles, StoreCycles, StackOps, Modifying, Shifts, Counts, Twofold,
            Stores, Masked
    <3>2. Kind \in PlainReads \union {"write"}
      <4>1. CASE ReadCycles
        BY <1>1, <4>1 DEF ReadCycles, Kind
      <4>2. CASE ModifyCycles
        <5>1. step + 1 \in 1..Lead \/ step + 1 \in {Lead + 1, Lead + 2, Lead + 3}
          BY <1>1, <4>2 DEF ModifyCycles
        <5> QED BY <4>2, <5>1 DEF ModifyCycles, Kind, PlainReads
      <4>3. CASE StoreCycles
        <5>1. step + 1 \in 1..Lead \/ step + 1 = Lead + 1
          BY <1>1, <4>3 DEF StoreCycles
        <5> QED BY <4>3, <5>1 DEF StoreCycles, Kind
      <4> QED BY <2>3, <4>1, <4>2, <4>3
    <3> QED BY <2>2, <3>1, <3>2 DEF StackPlaces, Ends, StackOps, PlainReads
  <2>4. CASE StackCycles
    <3>1. instr.op \in StackOps
      BY <2>4 DEF StackCycles, StackOps
    <3>2. CASE instr.op = "PHA"
      <4>1. step \in 1..2 /\ Len(Sequence) = 3
        <5>1. Len(Sequence) = 3
          BY <2>4, <3>2 DEF StackCycles
        <5> QED BY <1>1, <2>1, <5>1
      <4>2. /\ step = 1 => Kind \in PlainReads
            /\ step = 2 => Kind = "push"
        <5>1. Sequence[2] \in PlainReads /\ Sequence[3] = "push"
          BY <2>4, <3>2 DEF StackCycles
        <5> QED BY <5>1 DEF Kind
      <4> QED BY <2>2, <3>2, <4>1, <4>2 DEF StackPlaces, Ends, PlainReads
    <3>3. CASE instr.op = "PHP"
      <4>1. step \in 1..2 /\ Len(Sequence) = 3
        <5>1. Len(Sequence) = 3
          BY <2>4, <3>3 DEF StackCycles
        <5> QED BY <1>1, <2>1, <5>1
      <4>2. /\ step = 1 => Kind \in PlainReads
            /\ step = 2 => Kind = "push_status"
        <5>1. Sequence[2] \in PlainReads /\ Sequence[3] = "push_status"
          BY <2>4, <3>3 DEF StackCycles
        <5> QED BY <5>1 DEF Kind
      <4> QED BY <2>2, <3>3, <4>1, <4>2 DEF StackPlaces, Ends, PlainReads
    <3>4. CASE instr.op = "PLA"
      <4>1. step \in 1..3 /\ Len(Sequence) = 4
        <5>1. Len(Sequence) = 4
          BY <2>4, <3>4 DEF StackCycles
        <5> QED BY <1>1, <2>1, <5>1
      <4>2. /\ step = 1 => Kind \in PlainReads
            /\ step = 2 => Kind = "read"
            /\ step = 3 => Kind = "pop"
        <5>1. Sequence[2] \in PlainReads /\ Sequence[3] = "read" /\ Sequence[4] = "pop"
          BY <2>4, <3>4 DEF StackCycles
        <5> QED BY <5>1 DEF Kind
      <4> QED BY <2>2, <3>4, <4>1, <4>2 DEF StackPlaces, Ends, PlainReads
    <3>5. CASE instr.op = "PLP"
      <4>1. step \in 1..3 /\ Len(Sequence) = 4
        <5>1. Len(Sequence) = 4
          BY <2>4, <3>5 DEF StackCycles
        <5> QED BY <1>1, <2>1, <5>1
      <4>2. /\ step = 1 => Kind \in PlainReads
            /\ step = 2 => Kind = "read"
            /\ step = 3 => Kind = "pop_status"
        <5>1. Sequence[2] \in PlainReads /\ Sequence[3] = "read" /\ Sequence[4] = "pop_status"
          BY <2>4, <3>5 DEF StackCycles
        <5> QED BY <5>1 DEF Kind
      <4> QED BY <2>2, <3>5, <4>1, <4>2 DEF StackPlaces, Ends, PlainReads
    <3>6. CASE instr.op = "RTI"
      <4>1. step \in 1..5 /\ Len(Sequence) = 6
        <5>1. Len(Sequence) = 6
          BY <2>4, <3>6 DEF StackCycles
        <5> QED BY <1>1, <2>1, <5>1
      <4>2. /\ step = 1 => Kind \in PlainReads
            /\ step = 2 => Kind = "read"
            /\ step = 3 => Kind = "pop_status"
            /\ step = 4 => Kind = "pop_low"
            /\ step = 5 => Kind = "pop_high"
        <5>1. Sequence[2] \in PlainReads /\ Sequence[3] = "read" /\ Sequence[4] = "pop_status" /\ Sequence[5] = "pop_low" /\ Sequence[6] = "pop_high"
          BY <2>4, <3>6 DEF StackCycles
        <5> QED BY <5>1 DEF Kind
      <4> QED BY <2>2, <3>6, <4>1, <4>2 DEF StackPlaces, Ends, PlainReads
    <3>7. CASE instr.op = "RTS"
      <4>1. step \in 1..5 /\ Len(Sequence) = 6
        <5>1. Len(Sequence) = 6
          BY <2>4, <3>7 DEF StackCycles
        <5> QED BY <1>1, <2>1, <5>1
      <4>2. /\ step = 1 => Kind \in PlainReads
            /\ step = 2 => Kind = "read"
            /\ step = 3 => Kind = "pop_low"
            /\ step = 4 => Kind = "pop_high"
            /\ step = 5 => Kind = "read"
        <5>1. Sequence[2] \in PlainReads /\ Sequence[3] = "read" /\ Sequence[4] = "pop_low" /\ Sequence[5] = "pop_high" /\ Sequence[6] = "read"
          BY <2>4, <3>7 DEF StackCycles
        <5> QED BY <5>1 DEF Kind
      <4> QED BY <2>2, <3>7, <4>1, <4>2 DEF StackPlaces, Ends, PlainReads
    <3>8. CASE instr.op = "JSR"
      <4>1. step \in 1..5 /\ Len(Sequence) = 6
        <5>1. Len(Sequence) = 6
          BY <2>4, <3>8 DEF StackCycles
        <5> QED BY <1>1, <2>1, <5>1
      <4>2. /\ step = 1 => Kind \in PlainReads
            /\ step = 2 => Kind \in PlainReads
            /\ step = 3 => Kind = "read"
            /\ step = 4 => Kind = "push_high"
            /\ step = 5 => Kind = "push_low"
        <5>1. Sequence[2] \in PlainReads /\ Sequence[3] \in PlainReads /\ Sequence[4] = "read" /\ Sequence[5] = "push_high" /\ Sequence[6] = "push_low"
          BY <2>4, <3>8 DEF StackCycles
        <5> QED BY <5>1 DEF Kind
      <4> QED BY <2>2, <3>8, <4>1, <4>2 DEF StackPlaces, Ends, PlainReads
    <3>9. CASE instr.op = "BRK"
      <4>1. step \in 1..6 /\ Len(Sequence) = 7
        <5>1. Len(Sequence) = 7
          BY <2>4, <3>9 DEF StackCycles
        <5> QED BY <1>1, <2>1, <5>1
      <4>2. /\ step = 1 => Kind = "read"
            /\ step = 2 => Kind = "push_high"
            /\ step = 3 => Kind = "push_low"
            /\ step = 4 => Kind = "push_status"
            /\ step = 5 => Kind = "read"
            /\ step = 6 => Kind = "read"
        <5>1. Sequence[2] = "read" /\ Sequence[3] = "push_high" /\ Sequence[4] = "push_low" /\ Sequence[5] = "push_status" /\ Sequence[6] = "read" /\ Sequence[7] = "read"
          BY <2>4, <3>9 DEF StackCycles
        <5> QED BY <5>1 DEF Kind
      <4> QED BY <2>2, <3>9, <4>1, <4>2 DEF StackPlaces, Ends, PlainReads
    <3> QED BY <3>1, <3>2, <3>3, <3>4, <3>5, <3>6, <3>7, <3>8, <3>9 DEF StackOps
  <2> QED BY <2>1, <2>3, <2>4, Forms
<1> QED BY <1>2, <1>3, <1>4 DEF Shape

(* What a cycle does to the I flag, before the last one. *)
LEMMA FlagStep ==
  ASSUME Shape, BusCycle, ~Last
  PROVE  \/ i_flag' = i_flag /\ ~(Breaks /\ step = 4)
         \/ instr.op = "RTI" /\ step = 3
         \/ Breaks /\ step = 4 /\ i_flag'
<1>1. ~Between
  BY CycleEnds
<1>2. StackPlaces /\ Ends /\ step \in Nat
  BY <1>1, StackPlacesHold DEF Shape
<1>3. Does({"push_status"}) <=> Kind = "push_status"
  BY <1>1 DEF Does, Kind
<1>4. Does({"pop_status"}) <=> Kind = "pop_status"
  BY <1>1 DEF Does, Kind
<1>5. CASE Read
  <2>1. Does({"read"}) /\ i_flag' = i_flag
    BY <1>5 DEF Read, Disables
  <2>2. Kind = "read"
    BY <2>1 DEF Does, Kind
  <2> QED BY <1>2, <2>1, <2>2 DEF StackPlaces
<1>6. CASE PushStatus
  <2>1. Kind = "push_status" /\ i_flag' = (Breaks \/ i_flag)
    BY <1>3, <1>6 DEF PushStatus
  <2>2. ~(instr.op = "PHP" /\ step = 2)
    <3> SUFFICES ASSUME instr.op = "PHP", step = 2 PROVE FALSE
      OBVIOUS
    <3>1. Len(Sequence) = 3
      BY <1>2 DEF Ends
    <3> QED BY <1>1, <3>1 DEF Last
  <2>3. Breaks /\ step = 4
    BY <1>2, <2>1, <2>2 DEF StackPlaces
  <2> QED BY <2>1, <2>3
<1>7. CASE PopStatus
  <2>1. Kind = "pop_status"
    BY <1>4, <1>7 DEF PopStatus
  <2>2. ~(instr.op = "PLP" /\ step = 3)
    <3> SUFFICES ASSUME instr.op = "PLP", step = 3 PROVE FALSE
      OBVIOUS
    <3>1. Len(Sequence) = 4
      BY <1>2 DEF Ends
    <3> QED BY <1>1, <3>1 DEF Last
  <2> QED BY <1>2, <2>1, <2>2 DEF StackPlaces
<1>8. CASE ReadOperand \/ Write \/ PushByte \/ PushHigh \/ PushLow \/ PopByte \/ PopLow \/ PopHigh \/ ResetStep
  <2>1. i_flag' = i_flag
    BY <1>8 DEF ReadOperand, Write, PushByte, PushHigh, PushLow, PopByte, PopLow, PopHigh, ResetStep
  <2>2. Kind \in {"operand", "write", "push", "push_high", "push_low", "pop", "pop_low", "pop_high", "idle"}
    BY <1>8 DEF ReadOperand, Write, PushByte, PushHigh, PushLow, PopByte, PopLow, PopHigh, ResetStep,
       Does, Kind
  <2> QED BY <1>2, <2>1, <2>2 DEF StackPlaces
<1> QED BY <1>5, <1>6, <1>7, <1>8 DEF BusCycle

-----------------------------------------------------------------------------
(* When interrupts are taken. *)

(* An IRQ was polled with IRQs enabled, and they still are, unless the     *)
(* cycle that polled it changed the flag.                                  *)
JustChanged == (instr.op = "RTI" /\ step = 4) \/ (instr.op = "BRK" /\ step = 5)
InProgram   == seq = "instr" /\ step > 0

Masking ==
  /\ InProgram /\ instr.op \notin {"RTI", "BRK"} => (i_before <=> i_flag)
  /\ InProgram /\ run_irq /\ ~JustChanged => ~i_flag
  /\ Breaks /\ step >= 5 => i_flag
  /\ seq = "reset" => i_flag

Waiting ==
  /\ waited \in {0, 1}
  /\ waited = 1 => run_irq

(* No IRQ is latched while they are disabled. *)
LEMMA PollIrq ==
  ASSUME NEW done \in BOOLEAN, Poll(done)
  PROVE  run_irq' => ~i_flag
BY DEF Poll, Polled

(* Masking is inductive. *)
LEMMA MaskingKept ==
  Shape /\ Shape' /\ Masking /\ [InstrNext]_instr_vars => Masking'
<1> SUFFICES ASSUME Shape, Shape', Masking, [InstrNext]_instr_vars PROVE Masking'
  OBVIOUS
<1>0. NoInstr.op = "none"
  BY DEF NoInstr
<1>1. CASE UNCHANGED instr_vars
  BY <1>1 DEF instr_vars, fetched, latches, Masking, InProgram, JustChanged, Breaks
<1>2. CASE Stall
  <2>1. /\ seq' = seq /\ step' = step /\ instr' = instr /\ i_before' = i_before /\ i_flag' = i_flag
    BY <1>2 DEF Stall, fetched
  <2>2. run_irq' => ~i_flag
    BY <1>2, PollIrq DEF Stall
  <2> QED BY <2>1, <2>2 DEF Masking, InProgram, JustChanged, Breaks
<1>3. CASE Fetch
  <2>1. seq' = "instr" /\ step' = 1 /\ i_before' = i_flag /\ i_flag' = i_flag
    BY <1>3 DEF Fetch, Between
  <2>2. run_irq' => ~i_flag
    BY <1>3, PollIrq DEF Fetch
  <2> QED BY <2>1, <2>2 DEF Masking, InProgram, JustChanged, Breaks
<1>4. CASE \E hard \in BOOLEAN : ResetCpu(hard)
  <2>1. seq' = "reset" /\ step' = 0 /\ i_flag'
    BY <1>4 DEF ResetCpu, Between
  <2> QED BY <2>1 DEF Masking, InProgram, Breaks
<1>5. CASE BusCycle /\ ~Last
  <2>1. ~Between /\ FinishCycle
    BY <1>5, CycleEnds
  <2>2. step' = step + 1 /\ seq' = seq /\ instr' = instr /\ i_before' = i_before
    BY <1>5, <2>1, GoOnKept DEF FinishCycle
  <2>3. run_irq' => ~i_flag
    BY <2>1, PollIrq DEF FinishCycle
  <2>4. \/ i_flag' = i_flag /\ ~(Breaks /\ step = 4)
        \/ instr.op = "RTI" /\ step = 3
        \/ Breaks /\ step = 4 /\ i_flag'
    BY <1>5, FlagStep
  <2>5. step \in Nat /\ (InProgram' => InProgram) /\ (Breaks' <=> Breaks)
    BY <2>1, <2>2 DEF Shape, Between, InProgram, Breaks
  <2>6. seq # "instr" => instr.op = "none"
    BY <1>0 DEF Shape
  <2>7. (InProgram /\ instr.op \notin {"RTI", "BRK"} => (i_before <=> i_flag))'
    BY <2>2, <2>4, <2>5 DEF Masking, InProgram, Breaks
  <2>8. (InProgram /\ run_irq /\ ~JustChanged => ~i_flag)'
    BY <2>2, <2>3, <2>4, <2>5 DEF InProgram, JustChanged, Breaks
  <2>9. (Breaks /\ step >= 5 => i_flag)'
    <3>1. Breaks => instr.op # "RTI"
      BY <2>6 DEF Breaks
    <3> QED BY <2>2, <2>4, <2>5, <3>1 DEF Masking
  <2>10. (seq = "reset" => i_flag)'
    <3>1. seq = "reset" => instr.op # "RTI" /\ ~Breaks
      BY <2>6 DEF Breaks
    <3> QED BY <2>2, <2>4, <3>1 DEF Masking
  <2> QED BY <2>7, <2>8, <2>9, <2>10 DEF Masking
<1>6. CASE BusCycle /\ Last
  <2>1. step' = 0 /\ seq' \in {"irq", "instr"} /\ instr' = NoInstr
    BY <1>6, CycleEnds DEF FinishCycle, GoOn
  <2> QED BY <1>0, <2>1 DEF Masking, InProgram, Breaks
<1> QED BY <1>1, <1>2, <1>3, <1>4, <1>5, <1>6, StepKinds

(* A poll counts an instruction that an IRQ waited for only if it latched  *)
(* it.                                                                     *)
LEMMA WaitingStep ==
  ASSUME Shape, Masking, Waiting, NEW done \in BOOLEAN, Poll(done), done => ~Between
  PROVE  Waiting'
<1>1. PICK irq \in BOOLEAN :
        /\ run_irq' <=> Polled(irq) /\ ~(done /\ ForgetsIrq)
        /\ waited' = IF i_flag \/ ~irq \/ (done /\ Last /\ Interrupted) THEN 0
                     ELSE IF done /\ Last THEN waited + 1 ELSE waited
  BY DEF Poll
<1>2. CASE i_flag \/ ~irq \/ (done /\ Last /\ Interrupted)
  <2>1. waited' = 0
    BY <1>1, <1>2
  <2> QED BY <2>1 DEF Waiting
<1>3. CASE ~(i_flag \/ ~irq \/ (done /\ Last /\ Interrupted))
  <2>1. ~i_flag /\ irq
    BY <1>3
  <2>2. Polled(irq)
    BY <2>1 DEF Polled
  <2>3. CASE ~(done /\ Last)
    <3>1. waited' = waited
      BY <1>1, <1>3, <2>3
    <3>2. waited = 1 => run_irq'
      BY <1>1, <2>2 DEF Waiting, ForgetsIrq
    <3> QED BY <3>1, <3>2 DEF Waiting
  <2>4. CASE done /\ Last
    <3>1. ~Between
      BY <2>4
    <3>2. step \in Nat /\ step + 1 = Len(Sequence)
      BY <2>4 DEF Shape, Last
    <3>3. seq # "reset"
      BY <2>1 DEF Masking
    <3>4. seq # "irq"
      <4> SUFFICES ASSUME seq = "irq" PROVE FALSE
        OBVIOUS
      <4>1. Len(Sequence) = 7
        BY IrqForm
      <4>2. step >= 5
        BY <3>2, <4>1
      <4> QED BY <2>1, <4>2 DEF Masking, Breaks
    <3>5. seq = "instr"
      BY <3>3, <3>4 DEF Shape
    <3>6. ~run_irq
      BY <1>3, <2>4, <3>5 DEF Interrupted
    <3>7. waited = 0
      BY <3>6 DEF Waiting
    <3>8. ~ForgetsIrq
      <4> SUFFICES ASSUME taken, Does({"operand"}) PROVE FALSE
        BY DEF ForgetsIrq
      <4>1. InstrState
        BY <3>1, <3>5 DEF InstrState, Shape, Between
      <4>2. Len(Sequence) > 2 /\ \A k \in 3..Len(Sequence) : Sequence[k] # "operand"
        BY <4>1, TakenForm
      <4>3. step + 1 \in 3..Len(Sequence)
        BY <3>2, <4>2
      <4> QED BY <4>2, <4>3 DEF Does
    <3>9. run_irq'
      BY <1>1, <2>2, <3>8
    <3>10. waited' = 1
      BY <1>1, <1>3, <2>4, <3>7
    <3> QED BY <3>9, <3>10 DEF Waiting
  <2> QED BY <2>3, <2>4
<1> QED BY <1>2, <1>3

(* Waiting is inductive, given Masking. *)
LEMMA WaitingKept ==
  Shape /\ Masking /\ Waiting /\ [InstrNext]_instr_vars => Waiting'
<1> SUFFICES ASSUME Shape, Masking, Waiting, [InstrNext]_instr_vars PROVE Waiting'
  OBVIOUS
<1>1. CASE UNCHANGED instr_vars
  BY <1>1 DEF instr_vars, latches, Waiting
<1>2. CASE Stall \/ Fetch
  <2>1. Poll(FALSE)
    BY <1>2 DEF Stall, Fetch
  <2> QED BY <2>1, WaitingStep
<1>3. CASE \E hard \in BOOLEAN : ResetCpu(hard)
  <2>1. waited' = 0
    BY <1>3 DEF ResetCpu
  <2> QED BY <2>1 DEF Waiting
<1>4. CASE BusCycle
  <2>1. ~Between /\ Poll(TRUE)
    BY <1>4, CycleEnds DEF FinishCycle
  <2> QED BY <2>1, WaitingStep
<1> QED BY <1>1, <1>2, <1>3, <1>4, StepKinds

(* Both hold after power-on. *)
LEMMA InitMasking == InstrInit => Masking /\ Waiting
<1> SUFFICES ASSUME InstrInit PROVE Masking /\ Waiting
  OBVIOUS
<1>1. seq = "reset" /\ step = 0 /\ i_flag /\ instr.op = "none"
  BY DEF InstrInit, NoInstr
<1>2. waited = 0
  BY DEF InstrInit
<1> QED BY <1>1, <1>2 DEF Masking, Waiting, InProgram, Breaks

(* And always. *)
LEMMA InterruptsHold == InstrSpec => [](Shape /\ Masking /\ Waiting)
<1>1. InstrInit => Shape /\ Masking /\ Waiting
  BY InitShape, InitMasking
<1>2. (Shape /\ Masking /\ Waiting) /\ [InstrNext]_instr_vars => (Shape /\ Masking /\ Waiting)'
  <2>1. Shape /\ [InstrNext]_instr_vars => Shape'
    BY ShapeKept
  <2> QED BY <2>1, MaskingKept, WaitingKept
<1> QED BY <1>1, <1>2, PTL DEF InstrSpec

(* An IRQ that asks while they are enabled is taken after the instruction  *)
(* in which it came or after the next, even if that is a branch that       *)
(* forgets it.                                                             *)
THEOREM IrqsAreServedSoon == InstrSpec => []IrqServedSoon
<1>1. Waiting => IrqServedSoon
  BY DEF Waiting, IrqServedSoon
<1> QED BY <1>1, InterruptsHold, PTL

(* An IRQ is taken after an instruction only if IRQs were enabled before   *)
(* it, or restored by RTI itself; and none is taken right after BRK.       *)
THEOREM MaskTakesEffectLate == InstrSpec => MaskDelayed
<1>1. Shape /\ Masking => (Last /\ Interrupted /\ run_irq =>
                            /\ instr.op # "BRK"
                            /\ IF instr.op = "RTI" THEN ~i_flag ELSE ~i_before)
  <2> SUFFICES ASSUME Shape, Masking, Last, Interrupted, run_irq
               PROVE  /\ instr.op # "BRK"
                      /\ IF instr.op = "RTI" THEN ~i_flag ELSE ~i_before
    OBVIOUS
  <2>1. ~Between /\ seq = "instr" /\ step \in Nat /\ step + 1 = Len(Sequence)
    BY DEF Last, Interrupted, Shape
  <2>2. InProgram
    BY <2>1 DEF InProgram, Between
  <2>3. Ends
    BY <2>1, StackPlacesHold
  <2>4. ~JustChanged
    <3>1. ASSUME instr.op = "RTI" PROVE step # 4
      <4>1. Len(Sequence) = 6
        BY <2>3, <3>1 DEF Ends
      <4> QED BY <2>1, <4>1
    <3>2. ASSUME instr.op = "BRK" PROVE step # 5
      <4>1. Len(Sequence) = 7
        BY <2>3, <3>2 DEF Ends, Breaks
      <4> QED BY <2>1, <4>1
    <3> QED BY <3>1, <3>2 DEF JustChanged
  <2>5. ~i_flag
    BY <2>2, <2>4 DEF Masking
  <2>6. instr.op # "BRK"
    <3> SUFFICES ASSUME instr.op = "BRK" PROVE FALSE
      OBVIOUS
    <3>1. Len(Sequence) = 7
      BY <2>3 DEF Ends, Breaks
    <3>2. step >= 5
      BY <2>1, <3>1
    <3> QED BY <2>5, <3>2 DEF Masking, Breaks
  <2> QED BY <2>2, <2>5, <2>6 DEF Masking
<1>2. MaskDelayed <=> [][Last /\ Interrupted /\ run_irq =>
                            /\ instr.op # "BRK"
                            /\ IF instr.op = "RTI" THEN ~i_flag ELSE ~i_before]_instr_vars
  BY DEF MaskDelayed
<1> QED BY <1>1, <1>2, InterruptsHold, PTL

-----------------------------------------------------------------------------
(* The order of reads and writes. *)

ZeroPaged == instr.mode \in {"ZP0", "ZPX", "ZPY"}
Modifies  == instr.op \in Modifying /\ instr.mode # "ACC"
Saves     == instr.op \in Stores \union Masked \union {"SAX"}

Opens ==
  IF Breaks \/ instr.op \in {"PHA", "PHP"} THEN 2
  ELSE IF instr.op = "JSR" THEN 4
  ELSE IF Modifies THEN Lead + 1
  ELSE IF Saves THEN Lead
  ELSE Len(Sequence)

Stored ==
  IF Breaks THEN 3
  ELSE IF instr.op = "JSR" \/ Modifies THEN 2
  ELSE IF instr.op \in {"PHA", "PHP"} \/ Saves THEN 1
  ELSE 0

Pushes == Breaks \/ instr.op \in {"PHA", "PHP", "JSR"}

(* The cycles that write are those after Opens, Stored of them. *)
BusForm ==
  /\ Opens \in Nat /\ Opens >= 2 /\ Stored \in 0..3
  /\ Opens + Stored <= Len(Sequence)
  /\ Stored = 3 => Opens + Stored < Len(Sequence)
  /\ Kind \in (IF step < Opens \/ step >= Opens + Stored THEN ReadKinds
               ELSE IF Pushes THEN WriteKinds \ {"write"} ELSE {"write"})
  /\ ~Pushes /\ ~ZeroPaged => /\ Stored >= 1 => Opens >= 3
                              /\ Stored >= 2 => Opens >= 4
                              /\ Stored <= 2

(* A store outside the zero page comes after at least two cycles of        *)
(* address.                                                                *)
LEMMA LeadOf ==
  /\ Modifies /\ InstrState => ZeroPaged \/ Lead >= 3
  /\ Saves /\ InstrState => ZeroPaged \/ Lead >= 3
<1>1. ASSUME Modifies, InstrState PROVE ZeroPaged \/ Lead >= 3
  <2>1. instr.op \notin Reading /\ instr.op \notin Stores \union Masked \union {"SAX"}
    BY <1>1 DEF Modifies, Modifying, Shifts, Counts, Twofold, Reading, Loads, Sums, Logic, Compares,
          Nops, Combined, Stores, Masked
  <2>2. instr.op \notin Branches /\ instr.op \notin Silent /\ instr.op \notin StackOps \union {"JMP"}
    BY <1>1 DEF Modifies, Modifying, Shifts, Counts, Twofold, Branches, Silent, Transfers, Steps, Flags,
          StackOps
  <2>3. Modifier(instr)
    <3>1. ~Special(instr)
      BY <2>2 DEF Special, StackOps
    <3> QED BY <1>1, <2>1, <3>1, TableRows DEF InstrState, Reader, Storer
  <2> QED BY <1>1, <2>3 DEF Modifier, Modifies, ZeroPaged, Lead, AddressLen
<1>2. ASSUME Saves, InstrState PROVE ZeroPaged \/ Lead >= 3
  <2>1. instr.op \notin Reading /\ instr.op \notin Modifying
    BY <1>2 DEF Saves, Modifying, Shifts, Counts, Twofold, Reading, Loads, Sums, Logic, Compares,
          Nops, Combined, Stores, Masked
  <2>2. instr.op \notin Branches /\ instr.op \notin Silent /\ instr.op \notin StackOps \union {"JMP"}
    BY <1>2 DEF Saves, Stores, Masked, Branches, Silent, Transfers, Steps, Flags, StackOps
  <2>3. Storer(instr)
    <3>1. ~Special(instr)
      BY <2>2 DEF Special, StackOps
    <3> QED BY <1>2, <2>1, <3>1, TableRows DEF InstrState, Reader, Modifier
  <2> QED BY <2>3 DEF Storer, ZeroPaged, Lead, AddressLen
<1> QED BY <1>1, <1>2

(* Every sequence has this form. *)
LEMMA BusForms ==
  ASSUME Shape, ~Between, seq # "reset"
  PROVE  BusForm
<1>1. step \in Nat /\ step < Len(Sequence)
  BY DEF Shape
<1>2. Len(Sequence) \in Nat /\ Len(Sequence) >= 2
  BY Lengths
<1>3. StackPlaces /\ Ends
  BY StackPlacesHold
<1>4. CASE seq = "irq"
  <2>1. instr.op = "none" /\ Breaks
    <3>1. instr = NoInstr
      BY <1>4 DEF Shape
    <3> QED BY <1>4, <3>1 DEF Breaks, NoInstr
  <2>2. Len(Sequence) = 7
    BY <1>4, IrqForm
  <2>3. step \in 0..6
    BY <1>1, <2>2
  <2>4. Kind = IF step = 2 THEN "push_high" ELSE IF step = 3 THEN "push_low"
               ELSE IF step = 4 THEN "push_status" ELSE "read"
    BY <1>4, <2>3, IrqForm DEF Kind
  <2>5. Opens = 2 /\ Stored = 3 /\ Pushes
    BY <2>1 DEF Opens, Stored, Pushes
  <2> QED BY <2>2, <2>3, <2>4, <2>5 DEF BusForm, ReadKinds, WriteKinds
<1>5. CASE seq = "instr"
  <2>1. InstrState /\ step >= 1
    BY <1>1, <1>5 DEF InstrState, Shape, Between
  <2>2. Breaks <=> instr.op = "BRK"
    BY <1>5 DEF Breaks
  <2>3. CASE ReadCycles /\ ~Modifies /\ ~Saves
    <3>1. instr.op \notin StackOps /\ Kind \in PlainReads
      BY <1>1, <2>3 DEF ReadCycles, Kind
    <3>2. Opens = Len(Sequence) /\ Stored = 0
      BY <2>2, <2>3, <3>1 DEF Opens, Stored, StackOps
    <3> QED BY <1>1, <1>2, <3>1, <3>2 DEF BusForm, PlainReads, ReadKinds
  <2>4. CASE ModifyCycles
    <3>1. instr.op \notin StackOps
      BY <2>4 DEF ModifyCycles, Modifying, Shifts, Counts, Twofold, StackOps
    <3>2. Opens = Lead + 1 /\ Stored = 2 /\ ~Pushes /\ Modifies
      BY <2>2, <2>4, <3>1 DEF Opens, Stored, Pushes, StackOps, Modifies, ModifyCycles
    <3>3. Lead \in 1..5 /\ Len(Sequence) = Lead + 3
      BY <2>4 DEF ModifyCycles
    <3>4. ZeroPaged \/ Lead >= 3
      BY <2>1, <3>2, LeadOf
    <3>5. step < Lead + 1 => Kind \in ReadKinds
      <4>1. step < Lead + 1 => step + 1 \in 1..Lead \/ step + 1 = Lead + 1
        BY <1>1, <3>3
      <4> QED BY <2>4, <4>1 DEF ModifyCycles, Kind, PlainReads, ReadKinds
    <3>6. step >= Lead + 1 => step < Lead + 3 /\ Kind = "write"
      <4>1. step >= Lead + 1 => step + 1 = Lead + 2 \/ step + 1 = Lead + 3
        BY <1>1, <3>3
      <4> QED BY <1>1, <2>4, <3>3, <4>1 DEF ModifyCycles, Kind
    <3>7. Kind \in (IF step < Opens \/ step >= Opens + Stored THEN ReadKinds ELSE {"write"})
      BY <1>1, <3>2, <3>3, <3>5, <3>6
    <3> QED BY <3>2, <3>3, <3>4, <3>7 DEF BusForm
  <2>5. CASE StoreCycles
    <3>1. instr.op \notin StackOps /\ ~Modifies
      BY <2>5 DEF StoreCycles, Stores, Masked, StackOps, Modifies, Modifying, Shifts, Counts, Twofold
    <3>2. Opens = Lead /\ Stored = 1 /\ ~Pushes /\ Saves
      BY <2>2, <2>5, <3>1 DEF Opens, Stored, Pushes, StackOps, Saves, StoreCycles
    <3>3. Lead \in 1..5 /\ Len(Sequence) = Lead + 1
      BY <2>5 DEF StoreCycles
    <3>4. ZeroPaged \/ Lead >= 3
      BY <2>1, <3>2, LeadOf
    <3>5. Lead >= 2
      <4>1. ZeroPaged => Lead >= 2
        BY DEF ZeroPaged, Lead, AddressLen
      <4> QED BY <3>3, <3>4, <4>1
    <3>6. step < Lead => Kind \in ReadKinds
      <4>1. step < Lead => step + 1 \in 1..Lead
        BY <1>1, <3>3
      <4> QED BY <2>5, <4>1 DEF StoreCycles, Kind, PlainReads, ReadKinds
    <3>7. step >= Lead => step < Lead + 1 /\ Kind = "write"
      <4>1. step >= Lead => step + 1 = Lead + 1
        BY <1>1, <3>3
      <4> QED BY <1>1, <2>5, <3>3, <4>1 DEF StoreCycles, Kind
    <3>8. Kind \in (IF step < Opens \/ step >= Opens + Stored THEN ReadKinds ELSE {"write"})
      BY <1>1, <3>2, <3>3, <3>6, <3>7
    <3> QED BY <3>2, <3>3, <3>4, <3>5, <3>8 DEF BusForm
  <2>6. CASE StackCycles
    <3>1. ~Modifies /\ ~Saves
      BY <2>6 DEF StackCycles, Modifies, Saves, Modifying, Shifts, Counts, Twofold, Stores, Masked
    <3>2. CASE instr.op \in {"PHA", "PHP"}
      <4>1. Opens = 2 /\ Stored = 1 /\ Pushes
        BY <2>2, <3>1, <3>2 DEF Opens, Stored, Pushes
      <4>2. Len(Sequence) = 3
        BY <1>3, <3>2 DEF Ends
      <4>3. step \in 1..2
        BY <1>1, <2>1, <4>2
      <4>4. step = 1 => Kind \in PlainReads
        <5>1. Sequence[2] \in PlainReads
          BY <2>6, <3>2 DEF StackCycles
        <5> QED BY <5>1 DEF Kind
      <4>5. step = 2 => Kind \in {"push", "push_status"}
        BY <1>3, <3>2 DEF StackPlaces
      <4> QED BY <4>1, <4>2, <4>3, <4>4, <4>5 DEF BusForm, PlainReads, ReadKinds, WriteKinds
    <3>3. CASE instr.op = "JSR"
      <4>1. Opens = 4 /\ Stored = 2 /\ Pushes
        BY <2>2, <3>1, <3>3 DEF Opens, Stored, Pushes
      <4>2. Len(Sequence) = 6
        BY <1>3, <3>3 DEF Ends
      <4>3. step \in 1..5
        BY <1>1, <2>1, <4>2
      <4>4. step \in 1..3 => Kind \in PlainReads
        <5>1. Sequence[2] \in PlainReads /\ Sequence[3] \in PlainReads /\ Sequence[4] = "read"
          BY <2>6, <3>3 DEF StackCycles
        <5> QED BY <5>1 DEF Kind, PlainReads
      <4>5. step \in 4..5 => Kind \in {"push_high", "push_low"}
        BY <1>3, <3>3 DEF StackPlaces
      <4> QED BY <4>1, <4>2, <4>3, <4>4, <4>5 DEF BusForm, PlainReads, ReadKinds, WriteKinds
    <3>4. CASE instr.op = "BRK"
      <4>1. Opens = 2 /\ Stored = 3 /\ Pushes
        BY <2>2, <3>1, <3>4 DEF Opens, Stored, Pushes
      <4>2. Len(Sequence) = 7
        BY <1>3, <2>2, <3>4 DEF Ends
      <4>3. step \in 1..6
        BY <1>1, <2>1, <4>2
      <4>4. (step = 1 \/ step \in 5..6) => Kind = "read"
        <5>1. Sequence[2] = "read" /\ Sequence[6] = "read" /\ Sequence[7] = "read"
          BY <2>6, <3>4 DEF StackCycles
        <5> QED BY <5>1 DEF Kind
      <4>5. step \in 2..4 => Kind \in {"push_high", "push_low", "push_status"}
        BY <1>3, <2>2, <3>4 DEF StackPlaces
      <4> QED BY <4>1, <4>2, <4>3, <4>4, <4>5 DEF BusForm, ReadKinds, WriteKinds
    <3>5. CASE instr.op \in {"PLA", "PLP", "RTI", "RTS"}
      <4>1. Opens = Len(Sequence) /\ Stored = 0
        BY <2>2, <3>1, <3>5 DEF Opens, Stored
      <4>2. Kind \in ReadKinds
        <5>1. step = 1 => Kind \in PlainReads
          <6>1. Sequence[2] \in PlainReads
            BY <2>6, <3>5 DEF StackCycles
          <6> QED BY <6>1 DEF Kind
        <5>2. step = 2 => Kind = "read"
          <6>1. Sequence[3] = "read"
            BY <2>6, <3>5 DEF StackCycles
          <6> QED BY <6>1 DEF Kind
        <5>3. step \in 1..5
          <6>1. CASE instr.op \in {"PLA", "PLP"}
            <7>1. Len(Sequence) = 4
              BY <1>3, <6>1 DEF Ends
            <7> QED BY <1>1, <2>1, <7>1
          <6>2. CASE instr.op \in {"RTI", "RTS"}
            <7>1. Len(Sequence) = 6
              BY <1>3, <6>2 DEF Ends
            <7> QED BY <1>1, <2>1, <7>1
          <6> QED BY <3>5, <6>1, <6>2
        <5>4. step \in 3..5 => Kind \in {"pop", "pop_status", "pop_low", "pop_high", "read"}
          <6>1. instr.op = "RTS" /\ step = 5 => Kind = "read"
            <7>1. instr.op = "RTS" => Sequence[6] = "read"
              BY <2>6 DEF StackCycles
            <7> QED BY <7>1 DEF Kind
          <6>2. instr.op \in {"PLA", "PLP"} => step \in 1..3
            <7> SUFFICES ASSUME instr.op \in {"PLA", "PLP"} PROVE step \in 1..3
              OBVIOUS
            <7>1. Len(Sequence) = 4
              BY <1>3 DEF Ends
            <7> QED BY <1>1, <2>1, <7>1
          <6> QED BY <1>3, <3>5, <6>1, <6>2 DEF StackPlaces
        <5> QED BY <5>1, <5>2, <5>3, <5>4 DEF PlainReads, ReadKinds
      <4> QED BY <1>1, <1>2, <4>1, <4>2 DEF BusForm
    <3>6. instr.op \in {"PHA", "PHP", "JSR", "BRK", "PLA", "PLP", "RTI", "RTS"}
      BY <2>6 DEF StackCycles
    <3> QED BY <3>2, <3>3, <3>4, <3>5, <3>6
  <2>7. ReadCycles => ~Modifies /\ ~Saves
    BY DEF ReadCycles, Modifies, Saves
  <2> QED BY <2>1, <2>3, <2>4, <2>5, <2>6, <2>7, Forms
<1> QED BY <1>4, <1>5 DEF Shape

(* Where the bus is while the CPU is in a sequence. *)
BusAt ==
  /\ target \in Targets /\ writes \in Nat /\ reads \in 0..ReadsKept
  /\ step = 0 => writes <= 2
  /\ seq = "reset" => writes = 0
  /\ seq # "reset" /\ step > 0 =>
       /\ step <= Opens => writes = 0 /\ (reads >= step \/ reads = ReadsKept)
       /\ Opens < step /\ step <= Opens + Stored =>
            /\ writes = step - Opens
            /\ reads >= Opens \/ reads = ReadsKept
            /\ target # "none"
            /\ Pushes \/ ZeroPaged => target = "ram"
       /\ Opens + Stored < step => writes = 0

(* What a cycle does to the bus. *)
LEMMA BusStep ==
  ASSUME BusCycle
  PROVE  \/ CountRead /\ Kind \in ReadKinds
         \/ UNCHANGED program_vars /\ Kind = "idle"
         \/ Kind \in WriteKinds \ {"write"} /\ target' = "ram" /\ writes' = writes + 1 /\ reads' = reads
         \/ Kind = "write" /\ target' \in Places /\ writes' = writes + 1 /\ reads' = reads
<1>1. CASE ReadOperand \/ Read \/ PopByte \/ PopStatus \/ PopLow \/ PopHigh
  BY <1>1 DEF ReadOperand, Read, PopByte, PopStatus, PopLow, PopHigh, Pop, Does, Kind, ReadKinds
<1>2. CASE PushByte \/ PushHigh \/ PushLow \/ PushStatus
  <2>1. Kind \in WriteKinds \ {"write"}
    BY <1>2 DEF PushByte, PushHigh, PushLow, PushStatus, Does, Kind, WriteKinds
  <2>2. target' = "ram" /\ writes' = writes + 1 /\ reads' = reads
    BY <1>2 DEF PushByte, PushHigh, PushLow, PushStatus, Push
  <2> QED BY <2>1, <2>2
<1>3. CASE Write
  BY <1>3 DEF Write, Does, Kind
<1>4. CASE ResetStep
  BY <1>4 DEF ResetStep, Does, Kind
<1> QED BY <1>1, <1>2, <1>3, <1>4 DEF BusCycle

(* The same after a step. *)
LEMMA BusFormNext ==
  (Shape /\ ~Between /\ seq # "reset")' => BusForm'
<1>1. Shape /\ ~Between /\ seq # "reset" => BusForm
  BY BusForms
<1> QED BY <1>1, PTL

(* A store comes after enough reads. *)
LEMMA StoreAllowed ==
  ASSUME Shape, ~Between, seq # "reset", BusAt, Kind \in WriteKinds,
         IF Kind = "write" THEN target' \in Places ELSE target' = "ram"
  PROVE  /\ Opens <= step /\ step < Opens + Stored /\ writes = step - Opens
         /\ target' \in Targets \ {"none"}
         /\ MayStart(target') \/ MayContinue(target')
         /\ Pushes \/ ZeroPaged => target' = "ram"
         /\ reads >= Opens \/ reads = ReadsKept
<1>1. BusForm /\ step \in Nat
  BY BusForms DEF Shape
<1>2. Opens \in Nat /\ Opens >= 2 /\ Stored \in 0..3
  BY <1>1 DEF BusForm
<1>3. Opens <= step /\ step < Opens + Stored
  <2>1. ~(step < Opens \/ step >= Opens + Stored)
    <3>1. Kind \notin ReadKinds
      BY DEF ReadKinds, WriteKinds
    <3> QED BY <1>1, <3>1 DEF BusForm
  <2> QED BY <1>1, <1>2, <2>1
<1>4. Kind = "write" <=> ~Pushes
  BY <1>1, <1>3 DEF BusForm, WriteKinds, ReadKinds
<1>5. step > 0
  BY <1>1, <1>2, <1>3
<1>6. target \in Targets /\ writes \in Nat /\ reads \in 0..4
  BY DEF BusAt, ReadsKept
<1>7. ~Pushes /\ ~ZeroPaged => /\ Stored >= 1 => Opens >= 3
                               /\ Stored >= 2 => Opens >= 4
                               /\ Stored <= 2
  BY <1>1 DEF BusForm
<1>8. CASE step = Opens
  <2>1. writes = 0 /\ (reads >= Opens \/ reads = 4)
    BY <1>2, <1>5, <1>8 DEF BusAt, ReadsKept
  <2>2. target' \in Targets \ {"none"} /\ (Pushes \/ ZeroPaged => target' = "ram")
    <3>1. program.written \subseteq Targets \ {"none"}
      BY InstructionsAssumption DEF Shape
    <3>2. "ram" \in Targets \ {"none"}
      BY DEF Targets
    <3> QED BY <1>4, <2>1, <3>1, <3>2 DEF Places, ZeroPaged
  <2>3. MayStart(target')
    BY <1>2, <1>3, <1>6, <1>7, <1>8, <2>1, <2>2 DEF MayStart
  <2> QED BY <1>2, <1>3, <1>8, <2>1, <2>2, <2>3 DEF ReadsKept
<1>9. CASE step > Opens
  <2>1. /\ writes = step - Opens /\ (reads >= Opens \/ reads = 4)
        /\ target # "none" /\ (Pushes \/ ZeroPaged => target = "ram")
    BY <1>1, <1>2, <1>3, <1>5, <1>9 DEF BusAt, ReadsKept
  <2>2. writes > 0
    BY <1>1, <1>2, <1>9, <2>1
  <2>3. target' = target
    BY <1>4, <2>1, <2>2 DEF Places
  <2>4. CASE target = "ram"
    <3>1. writes \in {1, 2}
      BY <1>1, <1>2, <1>3, <1>9, <2>1
    <3>2. MayContinue(target')
      BY <2>3, <2>4, <3>1 DEF MayContinue
    <3> QED BY <1>3, <1>6, <2>1, <2>3, <3>2 DEF ReadsKept
  <2>5. CASE target # "ram"
    <3>1. Stored <= 2
      BY <1>7, <2>1, <2>5
    <3>2. writes = 1 /\ Stored = 2
      BY <1>1, <1>2, <1>3, <1>9, <2>1, <3>1
    <3>3. Opens >= 4
      BY <1>7, <2>1, <2>5, <3>2
    <3>4. reads = 4
      BY <1>2, <1>6, <2>1, <3>3
    <3>5. MayContinue(target')
      BY <2>3, <2>5, <3>2, <3>4 DEF MayContinue, ReadsKept
    <3> QED BY <1>3, <1>6, <2>1, <2>3, <3>5 DEF ReadsKept
  <2> QED BY <2>4, <2>5
<1> QED BY <1>1, <1>2, <1>3, <1>8, <1>9

(* The form does not change within a sequence. *)
LEMMA PlacesKept ==
  ASSUME seq' = seq, instr' = instr, Sequence' = Sequence
  PROVE  Opens' = Opens /\ Stored' = Stored /\ (Pushes' <=> Pushes) /\ (ZeroPaged' <=> ZeroPaged)
         /\ (Breaks' <=> Breaks)
BY DEF Opens, Stored, Pushes, ZeroPaged, Breaks, Modifies, Saves, Lead, AddressLen

(* BusAt is inductive, and every step one that the bus allows. *)
LEMMA BusAtKept ==
  Shape /\ Shape' /\ BusAt /\ [InstrNext]_instr_vars => BusAt' /\ [BusNext]_program_vars
<1> SUFFICES ASSUME Shape, Shape', BusAt, [InstrNext]_instr_vars PROVE BusAt' /\ [BusNext]_program_vars
  OBVIOUS
<1>t. target \in Targets /\ writes \in Nat /\ reads \in 0..4 /\ "none" \in Targets /\ "ram" \in Targets
  BY DEF BusAt, ReadsKept, Targets
<1>r. ASSUME CountRead
      PROVE  /\ target' = "none" /\ target' \in Targets /\ writes' = 0 /\ reads' \in 0..4 /\ reads' >= 1
             /\ writes = 0 => reads' = reads + 1 \/ reads' = 4
  BY <1>r, <1>t DEF CountRead, ReadsKept
<1>1. CASE UNCHANGED instr_vars \/ Stall
  <2>1. /\ seq' = seq /\ instr' = instr /\ step' = step
        /\ crossed' = crossed /\ taken' = taken /\ UNCHANGED program_vars
    BY <1>1 DEF instr_vars, fetched, Stall
  <2>2. Sequence' = Sequence
    BY <2>1, SequenceKept
  <2>3. /\ Opens' = Opens /\ Stored' = Stored /\ (Pushes' <=> Pushes) /\ (ZeroPaged' <=> ZeroPaged)
    BY <2>1, <2>2, PlacesKept
  <2>4. target' = target /\ writes' = writes /\ reads' = reads
    BY <2>1 DEF program_vars
  <2> QED BY <2>1, <2>3, <2>4 DEF BusAt
<1>2. CASE Fetch
  <2>1. CountRead /\ seq' = "instr" /\ step' = 1
    BY <1>2 DEF Fetch, Between
  <2>2. BusForm'
    BY <2>1, BusFormNext DEF Between
  <2>3. Opens' >= 2 /\ Opens' \in Nat
    BY <2>2 DEF BusForm
  <2>4. BusAt'
    BY <1>r, <2>1, <2>3 DEF BusAt, ReadsKept
  <2> QED BY <2>1, <2>4 DEF BusNext
<1>3. CASE \E hard \in BOOLEAN : ResetCpu(hard)
  <2>1. seq' = "reset" /\ step = 0 /\ step' = 0 /\ Forget
    BY <1>3 DEF ResetCpu, Between
  <2>2. BusAt'
    BY <1>t, <2>1 DEF BusAt, Forget, ReadsKept
  <2> QED BY <2>1, <2>2 DEF BusNext
<1>4. CASE BusCycle /\ seq = "reset"
  <2>1. ~Between /\ FinishCycle
    BY <1>4, CycleEnds
  <2>2. Kind = "idle"
    <3>1. step \in Nat /\ step < Len(Sequence)
      BY <2>1 DEF Shape
    <3>2. Len(Sequence) = 7
      BY <1>4, ResetForm
    <3>3. step + 1 \in 1..7
      BY <3>1, <3>2
    <3> QED BY <1>4, <3>3, ResetForm DEF Kind
  <2>3. UNCHANGED program_vars
    BY <1>4, <2>2, BusStep DEF ReadKinds, WriteKinds
  <2>4. target' = target /\ writes' = 0 /\ reads' = reads
    BY <1>4, <2>3 DEF program_vars, BusAt
  <2>5. CASE Last
    <3>1. step' = 0
      BY <2>1, <2>5 DEF FinishCycle, GoOn
    <3> QED BY <1>t, <2>3, <2>4, <3>1 DEF BusAt, ReadsKept
  <2>6. CASE ~Last
    <3>1. seq' = "reset"
      BY <1>4, <2>1, <2>6, GoOnKept DEF FinishCycle
    <3> QED BY <1>t, <2>3, <2>4, <3>1 DEF BusAt, ReadsKept
  <2> QED BY <2>5, <2>6
<1>5. CASE BusCycle /\ seq # "reset"
  <2>1. ~Between /\ FinishCycle /\ step \in Nat /\ step < Len(Sequence) /\ Len(Sequence) \in Nat
    BY <1>5, CycleEnds, Lengths DEF Shape
  <2>2. BusForm
    BY <1>5, <2>1, BusForms
  <2>3. /\ Opens \in Nat /\ Opens >= 2 /\ Stored \in 0..3
        /\ Opens + Stored <= Len(Sequence)
        /\ Stored = 3 => Opens + Stored < Len(Sequence)
    BY <2>2 DEF BusForm
  <2>4. CASE CountRead /\ Kind \in ReadKinds
    <3>1. step < Opens \/ step >= Opens + Stored
      <4>1. Kind \notin WriteKinds
        BY <2>4 DEF ReadKinds, WriteKinds
      <4> QED BY <2>2, <4>1 DEF BusForm, WriteKinds
    <3>2. CASE Last
      <4>1. step' = 0 /\ seq' # "reset"
        BY <2>1, <3>2 DEF FinishCycle, GoOn
      <4>2. BusAt'
        BY <1>r, <2>4, <4>1 DEF BusAt, ReadsKept
      <4> QED BY <2>4, <4>2 DEF BusNext
    <3>3. CASE ~Last
      <4>1. step' = step + 1 /\ seq' = seq /\ instr' = instr /\ Sequence' = Sequence
        BY <2>1, <3>3, GoOnKept DEF FinishCycle
      <4>2. Opens' = Opens /\ Stored' = Stored
        BY <4>1, PlacesKept
      <4>3. step' <= Opens => writes' = 0 /\ (reads' >= step' \/ reads' = 4)
        <5> SUFFICES ASSUME step' <= Opens PROVE reads' >= step' \/ reads' = 4
          BY <1>r, <2>4
        <5>1. CASE step = 0
          BY <1>r, <2>4, <4>1, <5>1
        <5>2. CASE step > 0
          <6>1. writes = 0 /\ (reads >= step \/ reads = 4)
            BY <1>5, <2>1, <2>3, <4>1, <5>2 DEF BusAt, ReadsKept
          <6>2. reads' = reads + 1 \/ reads' = 4
            BY <1>r, <2>4, <6>1
          <6> QED BY <1>r, <1>t, <2>1, <2>4, <4>1, <6>1, <6>2
        <5> QED BY <2>1, <5>1, <5>2
      <4>4. ~(Opens < step' /\ step' <= Opens + Stored)
        BY <2>1, <2>3, <3>1, <4>1
      <4>5. BusAt'
        BY <1>5, <1>r, <2>1, <2>4, <4>1, <4>2, <4>3, <4>4 DEF BusAt, ReadsKept
      <4> QED BY <2>4, <4>5 DEF BusNext
    <3> QED BY <3>2, <3>3
  <2>5. CASE /\ Kind \in WriteKinds /\ writes' = writes + 1 /\ reads' = reads
             /\ IF Kind = "write" THEN target' \in Places ELSE target' = "ram"
    <3>1. /\ Opens <= step /\ step < Opens + Stored /\ writes = step - Opens
          /\ target' \in Targets \ {"none"}
          /\ MayStart(target') \/ MayContinue(target')
          /\ Pushes \/ ZeroPaged => target' = "ram"
          /\ reads >= Opens \/ reads = ReadsKept
      BY <1>5, <2>1, <2>5, StoreAllowed
    <3>2. BusNext
      <4>1. CountWrite(target')
        BY <2>5, <3>1 DEF CountWrite
      <4> QED BY <3>1, <4>1 DEF BusNext
    <3>3. writes' \in Nat /\ writes' = step + 1 - Opens
      BY <1>t, <2>1, <2>3, <2>5, <3>1
    <3>4. CASE Last
      <4>1. step' = 0 /\ seq' # "reset" /\ step + 1 = Len(Sequence)
        BY <2>1, <3>4 DEF FinishCycle, GoOn, Last
      <4>2. writes' <= 2
        BY <2>1, <2>3, <3>1, <3>3, <4>1
      <4> QED BY <1>t, <2>5, <3>1, <3>2, <3>3, <4>1, <4>2 DEF BusAt, ReadsKept
    <3>5. CASE ~Last
      <4>1. step' = step + 1 /\ seq' = seq /\ instr' = instr /\ Sequence' = Sequence
        BY <2>1, <3>5, GoOnKept DEF FinishCycle
      <4>2. Opens' = Opens /\ Stored' = Stored /\ (Pushes' <=> Pushes) /\ (ZeroPaged' <=> ZeroPaged)
        BY <4>1, PlacesKept
      <4>3. Opens < step' /\ step' <= Opens + Stored /\ step' # 0
        BY <2>1, <2>3, <3>1, <4>1
      <4>4. writes' = step' - Opens
        BY <2>1, <2>3, <3>3, <4>1
      <4>5. ~(step' <= Opens) /\ ~(Opens + Stored < step')
        BY <2>1, <2>3, <4>1, <4>3
      <4>6. BusAt'
        BY <1>5, <1>t, <2>5, <3>1, <3>3, <4>1, <4>2, <4>3, <4>4, <4>5 DEF BusAt, ReadsKept
      <4> QED BY <3>2, <4>6
    <3> QED BY <3>4, <3>5
  <2>6. Kind # "idle"
    BY <2>2 DEF BusForm, ReadKinds, WriteKinds
  <2>7. Kind = "write" => Kind \in WriteKinds
    BY DEF WriteKinds
  <2> QED BY <1>5, <2>4, <2>5, <2>6, <2>7, BusStep
<1> QED BY <1>1, <1>2, <1>3, <1>4, <1>5, StepKinds

(* The instructions do on the bus what CpuDma relies on: enough reads      *)
(* before a write, and at most three writes in a row, to one target.       *)
THEOREM InstructionsAreABusProgram == InstrSpec => IsBusProgram
<1>1. InstrInit => Shape /\ BusAt
  <2>1. InstrInit => BusAt
    BY DEF InstrInit, BusInit, BusAt, Targets, ReadsKept
  <2> QED BY <2>1, InitShape
<1>2. (Shape /\ BusAt) /\ [InstrNext]_instr_vars => (Shape /\ BusAt)'
  BY ShapeKept, BusAtKept
<1>3. InstrInit => BusInit
  BY DEF InstrInit
<1>4. (Shape /\ BusAt) /\ (Shape /\ BusAt)' /\ [InstrNext]_instr_vars => [BusNext]_program_vars
  BY BusAtKept
<1> QED BY <1>1, <1>2, <1>3, <1>4, PTL DEF InstrSpec, IsBusProgram, BusSpec

-----------------------------------------------------------------------------
(* Arithmetic of addresses and of the stack pointer. *)

(* Arithmetic that the addresses need. *)
LEMMA SmallMod ==
  ASSUME NEW n \in Nat, n > 0, NEW a \in 0..(n - 1)
  PROVE  a % n = a
OBVIOUS

LEMMA OnceMod ==
  ASSUME NEW n \in Nat, n > 0, NEW a \in 0..(n - 1)
  PROVE  (a + n) % n = a
OBVIOUS

LEMMA ModRange ==
  ASSUME NEW n \in Nat, n > 0, NEW a \in Nat
  PROVE  a % n \in 0..(n - 1)
OBVIOUS

LEMMA DivMod ==
  ASSUME NEW n \in Nat, n > 0, NEW a \in Nat
  PROVE  /\ a = (a % n) + n * (a \div n)
         /\ a \div n \in Nat
OBVIOUS

LEMMA DivRange ==
  ASSUME NEW n \in Nat, n > 0, NEW a \in 0..(n * n - 1)
  PROVE  a \div n \in 0..(n - 1)
OBVIOUS

LEMMA Square ==
  ASSUME NEW n \in Nat, n >= 2
  PROVE  n * n \in Nat /\ n * n >= 4
OBVIOUS

(* The stack pointer wraps. *)
LEMMA UpDown ==
  ASSUME StackLen \in Nat, StackLen >= 1, NEW s \in StackTop
  PROVE  /\ Up(s) = IF s = StackLen - 1 THEN 0 ELSE s + 1
         /\ Down(s) = IF s = 0 THEN StackLen - 1 ELSE s - 1
         /\ Up(s) \in StackTop /\ Down(s) \in StackTop
         /\ Up(Down(s)) = s /\ Down(Up(s)) = s
         /\ StackLen >= 3 => s # Up(s) /\ Up(s) # Up(Up(s)) /\ s # Up(Up(s))
<1> DEFINE n == StackLen
<1>0. n \in Nat /\ n > 0 /\ s \in 0..(n - 1)
  BY DEF StackTop
<1>1. \A t \in 0..(n - 1) : Up(t) = IF t = n - 1 THEN 0 ELSE t + 1
  <2> SUFFICES ASSUME NEW t \in 0..(n - 1) PROVE (t + 1) % n = IF t = n - 1 THEN 0 ELSE t + 1
    BY DEF Up
  <2> HIDE DEF n
  <2>1. CASE t = n - 1
    <3>1. (0 + n) % n = 0
      BY <1>0, OnceMod
    <3> QED BY <1>0, <2>1, <3>1
  <2>2. CASE t # n - 1
    BY <1>0, <2>2, SmallMod
  <2> QED BY <2>1, <2>2
<1>2. \A t \in 0..(n - 1) : Down(t) = IF t = 0 THEN n - 1 ELSE t - 1
  <2> SUFFICES ASSUME NEW t \in 0..(n - 1) PROVE (t + n - 1) % n = IF t = 0 THEN n - 1 ELSE t - 1
    BY DEF Down
  <2> HIDE DEF n
  <2>1. CASE t = 0
    <3>1. (n - 1) % n = n - 1
      BY <1>0, SmallMod
    <3> QED BY <1>0, <2>1, <3>1
  <2>2. CASE t # 0
    <3>1. t - 1 \in 0..(n - 1)
      BY <1>0, <2>2
    <3>2. ((t - 1) + n) % n = t - 1
      BY <1>0, <3>1, OnceMod
    <3>3. (t - 1) + n = t + n - 1
      BY <1>0
    <3> QED BY <2>2, <3>2, <3>3
  <2> QED BY <2>1, <2>2
<1> HIDE DEF n
<1>3. Up(s) \in 0..(n - 1) /\ Down(s) \in 0..(n - 1)
  BY <1>0, <1>1, <1>2
<1>4. Up(Down(s)) = s /\ Down(Up(s)) = s
  BY <1>0, <1>1, <1>2, <1>3
<1>5. n >= 3 => s # Up(s) /\ Up(s) # Up(Up(s)) /\ s # Up(Up(s))
  BY <1>0, <1>1, <1>3
<1> QED BY <1>0, <1>1, <1>2, <1>3, <1>4, <1>5 DEF n, StackTop

(* Addresses and their bytes. *)
LEMMA WordRange ==
  /\ Size \in Nat /\ Size >= 2 /\ Size * Size \in Nat /\ Size * Size >= 4
  /\ \A a \in Nat : Word(a) \in Words
  /\ \A p \in Words : p \in Nat /\ p \div Size \in Bytes /\ p % Size \in Bytes
<1>1. Size \in Nat /\ Size >= 2
  BY InstructionsAssumption
<1>2. Size * Size \in Nat /\ Size * Size >= 4
  BY <1>1, Square
<1>3. \A a \in Nat : Word(a) \in Words
  <2> DEFINE n == Size * Size
  <2>1. n \in Nat /\ n > 0
    BY <1>2
  <2> HIDE DEF n
  <2>2. \A a \in Nat : a % n \in 0..(n - 1)
    BY <2>1, ModRange
  <2> QED BY <2>2 DEF n, Word, Words
<1>4. ASSUME NEW p \in Words PROVE p \in Nat /\ p \div Size \in Bytes /\ p % Size \in Bytes
  <2>1. p \in 0..(Size * Size - 1)
    BY DEF Words
  <2>2. p \in Nat
    BY <1>2, <2>1
  <2>3. p \div Size \in 0..(Size - 1)
    BY <1>1, <2>1, DivRange
  <2>4. p % Size \in 0..(Size - 1)
    BY <1>1, <2>2, ModRange
  <2> QED BY <2>2, <2>3, <2>4 DEF Bytes
<1> QED BY <1>1, <1>2, <1>3, <1>4

(* What JSR and RTS do to an address, and BRK and RTI, has no effect. *)
LEMMA ThereAndBack ==
  ASSUME NEW p \in Words
  PROVE  /\ LET q == Word(p + Size * Size - 1)
            IN  q \in Words /\ Word((q % Size) + Size * (q \div Size) + 1) = p
         /\ Word((p % Size) + Size * (p \div Size) + 0) = p
<1> DEFINE n == Size * Size
           q == Word(p + n - 1)
<1>1. Size \in Nat /\ Size >= 2 /\ n \in Nat /\ n >= 4
  BY WordRange
<1>2. p \in 0..(n - 1)
  BY DEF Words
<1>3. \A a \in Words : (a % Size) + Size * (a \div Size) = a /\ a \in Nat
  <2> SUFFICES ASSUME NEW a \in Words PROVE (a % Size) + Size * (a \div Size) = a /\ a \in Nat
    OBVIOUS
  <2>1. a \in Nat
    BY WordRange
  <2> QED BY <1>1, <2>1, DivMod
<1>4. q = IF p = 0 THEN n - 1 ELSE p - 1
  <2> HIDE DEF n
  <2>1. q = (p + n - 1) % n
    BY DEF q, Word, n
  <2>2. CASE p = 0
    <3>1. (n - 1) % n = n - 1
      BY <1>1, SmallMod
    <3> QED BY <1>1, <2>1, <2>2, <3>1
  <2>3. CASE p # 0
    <3>1. p - 1 \in 0..(n - 1)
      BY <1>1, <1>2, <2>3
    <3>2. ((p - 1) + n) % n = p - 1
      BY <1>1, <3>1, OnceMod
    <3>3. (p - 1) + n = p + n - 1
      BY <1>1, <1>2
    <3> QED BY <2>1, <2>3, <3>2, <3>3
  <2> QED BY <2>2, <2>3
<1>5. q \in Words
  <2> HIDE DEF n
  <2>1. q \in 0..(n - 1)
    BY <1>1, <1>2, <1>4
  <2> QED BY <2>1 DEF Words, n
<1>6. (q % Size) + Size * (q \div Size) = q
  BY <1>3, <1>5
<1>7. Word(q + 1) = p
  <2> HIDE DEF q
  <2>1. Word(q + 1) = (q + 1) % n
    BY DEF Word
  <2> HIDE DEF n
  <2>2. CASE p = 0
    <3>1. (0 + n) % n = 0
      BY <1>1, OnceMod
    <3>2. q + 1 = 0 + n
      BY <1>1, <1>4, <2>2
    <3> QED BY <2>1, <2>2, <3>1, <3>2
  <2>3. CASE p # 0
    <3>1. q + 1 = p
      BY <1>1, <1>2, <1>4, <2>3
    <3>2. p % n = p
      BY <1>1, <1>2, SmallMod
    <3> QED BY <2>1, <3>1, <3>2
  <2> QED BY <2>2, <2>3
<1>8. Word(p + 0) = p
  <2>1. p + 0 = p
    BY <1>1, <1>2
  <2>2. Word(p) = p % n
    BY DEF Word
  <2> HIDE DEF n
  <2>3. p % n = p
    BY <1>1, <1>2, SmallMod
  <2> QED BY <2>1, <2>2, <2>3
<1>9. (p % Size) + Size * (p \div Size) = p
  BY <1>3
<1> QED BY <1>5, <1>6, <1>7, <1>8, <1>9

(* After power-on sp is three bytes below 0. *)
LEMMA FirstStackPointer ==
  ASSUME StackLen \in Nat, StackLen >= 1
  PROVE  (2 * StackLen - 3) % StackLen \in StackTop
<1> DEFINE n == StackLen
<1>0. n \in Nat /\ n >= 1
  OBVIOUS
<1> HIDE DEF n
<1>1. (2 * n - 3) % n \in 0..(n - 1)
  BY <1>0
<1> QED BY <1>1 DEF n, StackTop

-----------------------------------------------------------------------------
(* What lies on the stack. *)

StackTyped ==
  /\ pc \in Words /\ sp \in StackTop
  /\ stack \in [StackTop -> Bytes]
  /\ latch \in Bytes
  /\ IsFiniteSet(frames)

(* The bytes of a frame are on the stack, where the program looks for      *)
(* them.                                                                   *)
CallFrame(f) ==
  /\ f.until = "RTS" /\ f.at = {f.sp, Down(f.sp)}
  /\ stack[f.sp] = Word(f.pc + Size * Size - 1) \div Size
  /\ stack[Down(f.sp)] = Word(f.pc + Size * Size - 1) % Size

BreakFrame(f) ==
  /\ f.until = "RTI" /\ f.at = {f.sp, Down(f.sp), Down(Down(f.sp))}
  /\ stack[f.sp] = f.pc \div Size
  /\ stack[Down(f.sp)] = f.pc % Size
  /\ f.i \in BOOLEAN /\ (Masks(stack[Down(Down(f.sp))]) <=> f.i)

Framed == \A f \in frames : f.pc \in Words /\ f.sp \in StackTop /\ (CallFrame(f) \/ BreakFrame(f))

(* Half a frame, or half an address popped. *)
Pending ==
  /\ instr.op = "JSR" /\ step = 5 => stack[Up(sp)] = Word(pc + Size * Size - 1) \div Size
  /\ Breaks /\ step = 3 => stack[Up(sp)] = pc \div Size
  /\ Breaks /\ step = 4 /\ StackLen >= 3 => /\ stack[Up(sp)] = pc % Size
                                            /\ stack[Up(Up(sp))] = pc \div Size
  /\ (instr.op = "RTI" /\ step = 5) \/ (instr.op = "RTS" /\ step = 4) => latch = stack[sp]

(* A program that remembers frames has room for one. *)
LEMMA StackSize ==
  Shape => /\ StackLen \in Nat /\ StackLen >= 1 /\ program.frames \in Nat
           /\ program.frames > 0 => StackLen >= 3
BY InstructionsAssumption DEF Shape, StackLen

(* A frame whose bytes are kept is kept. *)
LEMMA FrameKept ==
  ASSUME NEW f, CallFrame(f) \/ BreakFrame(f), program' = program,
         \A s \in f.at : stack'[s] = stack[s]
  PROVE  (CallFrame(f) \/ BreakFrame(f))'
<1>1. \A s : Down(s)' = Down(s)
  BY DEF Down, StackLen
<1>2. CASE CallFrame(f)
  <2>1. f.at = {f.sp, Down(f.sp)}
    BY <1>2 DEF CallFrame
  <2>2. stack'[f.sp] = stack[f.sp] /\ stack'[Down(f.sp)] = stack[Down(f.sp)]
    BY <2>1
  <2>3. CallFrame(f)'
    BY <1>1, <1>2, <2>1, <2>2 DEF CallFrame, Word
  <2> QED BY <2>3
<1>3. CASE BreakFrame(f)
  <2>1. f.at = {f.sp, Down(f.sp), Down(Down(f.sp))}
    BY <1>3 DEF BreakFrame
  <2>2. stack'[f.sp] = stack[f.sp] /\ stack'[Down(f.sp)] = stack[Down(f.sp)]
        /\ stack'[Down(Down(f.sp))] = stack[Down(Down(f.sp))]
    BY <2>1
  <2>3. Down(Down(f.sp))' = Down(Down(f.sp)) /\ Down(f.sp)' = Down(f.sp)
    BY DEF Down, StackLen
  <2>4. BreakFrame(f)'
    BY <1>3, <2>1, <2>2, <2>3 DEF BreakFrame
  <2> QED BY <2>4
<1> QED BY <1>2, <1>3

(* Frames that are not written to stay as they are. *)
LEMMA FramesKept ==
  ASSUME Shape, Framed, program' = program, NEW S, S \subseteq frames,
         \A f \in S : \A s \in f.at : stack'[s] = stack[s]
  PROVE  \A f \in S : f.pc \in Words /\ f.sp \in StackTop' /\ (CallFrame(f) \/ BreakFrame(f))'
<1> SUFFICES ASSUME NEW f \in S
             PROVE  f.pc \in Words /\ f.sp \in StackTop' /\ (CallFrame(f) \/ BreakFrame(f))'
  OBVIOUS
<1>1. f.pc \in Words /\ f.sp \in StackTop /\ (CallFrame(f) \/ BreakFrame(f))
  BY DEF Framed
<1>2. (CallFrame(f) \/ BreakFrame(f))'
  BY <1>1, FrameKept
<1>3. StackTop' = StackTop
  BY DEF StackTop, StackLen
<1> QED BY <1>1, <1>2, <1>3

(* Where the bytes of a frame are. *)
LEMMA FrameAt ==
  ASSUME Shape, Framed, NEW f \in frames
  PROVE  f.at \subseteq StackTop
<1>1. f.sp \in StackTop /\ (CallFrame(f) \/ BreakFrame(f))
  BY DEF Framed
<1>2. Down(f.sp) \in StackTop /\ Down(Down(f.sp)) \in StackTop
  BY <1>1, StackSize, UpDown
<1> QED BY <1>1, <1>2 DEF CallFrame, BreakFrame

(* A byte stored anywhere in the stack. *)
LEMMA ByteStored ==
  ASSUME Shape, StackTyped, Framed, program' = program,
         NEW s \in StackTop, NEW b \in Bytes, stack' = [stack EXCEPT ![s] = b]
  PROVE  /\ stack' \in [StackTop -> Bytes]
         /\ stack'[s] = b /\ \A t \in StackTop : t # s => stack'[t] = stack[t]
         /\ \A f \in Intact(s) : f.pc \in Words /\ f.sp \in StackTop' /\ (CallFrame(f) \/ BreakFrame(f))'
         /\ IsFiniteSet(Intact(s))
<1>1. /\ stack' \in [StackTop -> Bytes]
      /\ stack'[s] = b /\ \A t \in StackTop : t # s => stack'[t] = stack[t]
  BY DEF StackTyped
<1>2. Intact(s) \subseteq frames /\ \A f \in Intact(s) : s \notin f.at
  BY DEF Intact
<1>3. \A f \in Intact(s) : \A t \in f.at : stack'[t] = stack[t]
  <2> SUFFICES ASSUME NEW f \in Intact(s), NEW t \in f.at PROVE stack'[t] = stack[t]
    OBVIOUS
  <2>1. t \in StackTop /\ t # s
    BY <1>2, FrameAt
  <2> QED BY <1>1, <2>1
<1>4. \A f \in Intact(s) : f.pc \in Words /\ f.sp \in StackTop' /\ (CallFrame(f) \/ BreakFrame(f))'
  BY <1>2, <1>3, FramesKept
<1>5. IsFiniteSet(Intact(s))
  BY <1>2, FS_Subset DEF StackTyped
<1> QED BY <1>1, <1>4, <1>5

(* Pushing. *)
LEMMA PushStep ==
  ASSUME Shape, StackTyped, Framed, program' = program, NEW b \in Bytes, Push(b)
  PROVE  /\ stack' \in [StackTop -> Bytes]
         /\ stack'[sp] = b /\ \A t \in StackTop : t # sp => stack'[t] = stack[t]
         /\ sp' = Down(sp) /\ sp' \in StackTop /\ Up(sp') = sp
         /\ latch' \in Bytes
         /\ \A f \in Intact(sp) : f.pc \in Words /\ f.sp \in StackTop' /\ (CallFrame(f) \/ BreakFrame(f))'
         /\ IsFiniteSet(Intact(sp))
<1>1. stack' = [stack EXCEPT ![sp] = b] /\ sp' = Down(sp) /\ latch' = latch
  BY DEF Push
<1>2. sp \in StackTop /\ latch \in Bytes
  BY DEF StackTyped
<1>3. Down(sp) \in StackTop /\ Up(Down(sp)) = sp
  BY <1>2, StackSize, UpDown
<1> QED BY <1>1, <1>2, <1>3, ByteStored

(* A frame is remembered only if it can be. *)
LEMMA Remembered ==
  ASSUME Shape, IsFiniteSet(Intact(sp)), NEW frame, Remember(frame)
  PROVE  /\ frames' = Intact(sp) \/ (frames' = Intact(sp) \union {frame} /\ StackLen >= 3)
         /\ IsFiniteSet(frames')
<1>1. Cardinality(Intact(sp)) \in Nat
  BY FS_CardinalityType
<1>2. frames' = Intact(sp) \/ (frames' = Intact(sp) \union {frame} /\ Cardinality(Intact(sp)) < program.frames)
  BY DEF Remember
<1>3. Cardinality(Intact(sp)) < program.frames => StackLen >= 3
  BY <1>1, StackSize
<1>4. IsFiniteSet(Intact(sp) \union {frame})
  BY FS_AddElement
<1> QED BY <1>2, <1>3, <1>4

(* Popping. *)
LEMMA PopStep ==
  ASSUME Shape, StackTyped, Framed, program' = program, Pop
  PROVE  /\ sp' = Up(sp) /\ sp' \in StackTop /\ stack' = stack /\ frames' = frames
         /\ stack[Up(sp)] \in Bytes
<1>1. sp \in StackTop /\ stack \in [StackTop -> Bytes]
  BY DEF StackTyped
<1>2. Up(sp) \in StackTop
  BY <1>1, StackSize, UpDown
<1> QED BY <1>1, <1>2 DEF Pop

StackInv == StackTyped /\ Framed /\ Pending

(* The program counter stays an address. *)
LEMMA ArrivesInWords ==
  ASSUME NEW p \in Words
  PROVE  Arrives(p) \subseteq Words
BY DEF Arrives

(* Before the last cycle the instruction stays. *)
LEMMA CycleKept ==
  ASSUME Shape, BusCycle, ~Last
  PROVE  /\ step' = step + 1 /\ instr' = instr /\ (Breaks' <=> Breaks) /\ step \in Nat
         /\ StackPlaces /\ ~Between /\ Ends
<1>1. ~Between /\ FinishCycle
  BY CycleEnds
<1>2. step' = step + 1 /\ instr' = instr /\ seq' = seq
  BY <1>1, GoOnKept DEF FinishCycle
<1> QED BY <1>1, <1>2, StackPlacesHold DEF Breaks, Shape

(* Outside the cycles that push or pop an address nothing becomes pending. *)
LEMMA NothingPending ==
  ASSUME Shape, BusCycle, Last \/ Kind \notin {"push_high", "push_low", "pop_low"}
  PROVE  Pending'
<1>1. CASE Last
  <2>1. step' = 0
    BY <1>1, CycleEnds DEF FinishCycle, GoOn
  <2> QED BY <2>1 DEF Pending
<1>2. CASE ~Last /\ Kind \notin {"push_high", "push_low", "pop_low"}
  <2>1. /\ step' = step + 1 /\ instr' = instr /\ (Breaks' <=> Breaks) /\ step \in Nat /\ StackPlaces
    BY <1>2, CycleKept
  <2>2. /\ ~(instr'.op = "JSR" /\ step' = 5)
        /\ ~(Breaks' /\ step' = 3)
        /\ ~(Breaks' /\ step' = 4)
        /\ ~(instr'.op = "RTI" /\ step' = 5) /\ ~(instr'.op = "RTS" /\ step' = 4)
    BY <1>2, <2>1 DEF StackPlaces
  <2> QED BY <2>2 DEF Pending
<1> QED BY <1>1, <1>2

(* Each kind of cycle keeps the frames, the bytes that are half pushed or  *)
(* popped, and the types.                                                  *)
LEMMA ReadsKeepStack ==
  ASSUME Shape, StackInv, program' = program, ReadOperand \/ Read \/ ResetStep
  PROVE  StackInv'
<1>1. StackTop' = StackTop
  BY DEF StackTop, StackLen
<1>2. stack' = stack /\ frames' = frames /\ latch' = latch
  BY DEF ReadOperand, Read, ResetStep, stack_vars
<1>3. Framed'
  <2>1. \A f \in frames : f.pc \in Words /\ f.sp \in StackTop' /\ (CallFrame(f) \/ BreakFrame(f))'
    BY <1>2, FramesKept DEF StackInv
  <2> QED BY <1>2, <2>1 DEF Framed
<1>4. sp' \in StackTop
  BY DEF ReadOperand, Read, ResetStep, stack_vars, Points, StackInv, StackTyped
<1>5. pc' \in Words
  <2>1. CASE ReadOperand
    <3>1. pc + 1 \in Nat
      BY WordRange DEF StackInv, StackTyped
    <3>2. Word(pc + 1) \in Words
      BY <3>1, WordRange
    <3> QED BY <2>1, <3>2, ArrivesInWords DEF ReadOperand
  <2>2. CASE Read
    BY <2>2, ArrivesInWords DEF Read, StackInv, StackTyped
  <2>3. CASE ResetStep
    BY <2>3 DEF ResetStep, StackInv, StackTyped
  <2> QED BY <2>1, <2>2, <2>3
<1>6. Pending'
  <2>1. Kind \notin {"push_high", "push_low", "pop_low"}
    BY DEF ReadOperand, Read, ResetStep, Does, Kind
  <2> QED BY <2>1, NothingPending DEF BusCycle
<1> QED BY <1>1, <1>2, <1>3, <1>4, <1>5, <1>6 DEF StackInv, StackTyped

LEMMA WriteKeepsStack ==
  ASSUME Shape, StackInv, program' = program, Write
  PROVE  StackInv'
<1>1. StackTop' = StackTop
  BY DEF StackTop, StackLen
<1>2. pc' = pc /\ latch' = latch /\ sp' \in Points(sp)
  BY DEF Write
<1>3. sp' \in StackTop
  BY <1>2 DEF Points, StackInv, StackTyped
<1>4. Pending'
  <2>1. Kind \notin {"push_high", "push_low", "pop_low"}
    BY DEF Write, Does, Kind
  <2> QED BY <2>1, NothingPending DEF BusCycle
<1>5. CASE stack' = stack /\ frames' = frames
  <2>1. \A f \in frames : f.pc \in Words /\ f.sp \in StackTop' /\ (CallFrame(f) \/ BreakFrame(f))'
    BY <1>5, FramesKept DEF StackInv
  <2>2. Framed'
    BY <1>5, <2>1 DEF Framed
  <2> QED BY <1>1, <1>2, <1>3, <1>4, <1>5, <2>2 DEF StackInv, StackTyped
<1>6. CASE \E s \in StackTop, b \in Bytes : stack' = [stack EXCEPT ![s] = b] /\ frames' = Intact(s)
  <2>1. PICK s \in StackTop, b \in Bytes : stack' = [stack EXCEPT ![s] = b] /\ frames' = Intact(s)
    BY <1>6
  <2>2. /\ stack' \in [StackTop -> Bytes]
        /\ \A f \in Intact(s) : f.pc \in Words /\ f.sp \in StackTop' /\ (CallFrame(f) \/ BreakFrame(f))'
        /\ IsFiniteSet(Intact(s))
    BY <2>1, ByteStored DEF StackInv
  <2>3. Framed'
    BY <2>1, <2>2 DEF Framed
  <2> QED BY <1>1, <1>2, <1>3, <1>4, <2>1, <2>2, <2>3 DEF StackInv, StackTyped
<1>7. (stack' = stack /\ frames' = frames)
      \/ \E s \in StackTop, b \in Bytes : stack' = [stack EXCEPT ![s] = b] /\ frames' = Intact(s)
  BY DEF Write
<1> QED BY <1>5, <1>6, <1>7

LEMMA PushByteKeepsStack ==
  ASSUME Shape, StackInv, program' = program, PushByte
  PROVE  StackInv'
<1>1. StackTop' = StackTop
  BY DEF StackTop, StackLen
<1>2. PICK b \in Bytes : Push(b)
  BY DEF PushByte
<1>3. pc' = pc /\ frames' = Intact(sp)
  BY DEF PushByte
<1>4. /\ stack' \in [StackTop -> Bytes] /\ sp' \in StackTop /\ latch' \in Bytes
      /\ \A f \in Intact(sp) : f.pc \in Words /\ f.sp \in StackTop' /\ (CallFrame(f) \/ BreakFrame(f))'
      /\ IsFiniteSet(Intact(sp))
  BY <1>2, PushStep DEF StackInv
<1>5. Framed'
  BY <1>3, <1>4 DEF Framed
<1>6. Pending'
  <2>1. Kind \notin {"push_high", "push_low", "pop_low"}
    BY DEF PushByte, Does, Kind
  <2> QED BY <2>1, NothingPending DEF BusCycle
<1> QED BY <1>1, <1>3, <1>4, <1>5, <1>6 DEF StackInv, StackTyped

(* The address that JSR and the interrupts push. *)
LEMMA PushedAddress ==
  ASSUME StackTyped
  PROVE  /\ Word(pc + Size * Size - 1) \in Words /\ Pushed \in Words
         /\ Pushed \div Size \in Bytes /\ Pushed % Size \in Bytes
         /\ Pushed = IF instr.op = "JSR" THEN Word(pc + Size * Size - 1) ELSE pc
<1>1. pc \in Words
  BY DEF StackTyped
<1>2. Pushed = IF instr.op = "JSR" THEN Word(pc + Size * Size - 1) ELSE pc
  BY DEF Pushed
<1>3. Word(pc + Size * Size - 1) \in Words
  BY <1>1, ThereAndBack
<1>4. Pushed \in Words
  BY <1>1, <1>2, <1>3
<1> QED BY <1>2, <1>3, <1>4, WordRange

LEMMA PushHighKeepsStack ==
  ASSUME Shape, StackInv, program' = program, PushHigh
  PROVE  StackInv'
<1>1. StackTop' = StackTop /\ (\A s : Up(s)' = Up(s)) /\ (StackLen' = StackLen)
  BY DEF StackTop, StackLen, Up
<1>2. Push(Pushed \div Size) /\ pc' = pc /\ frames' = Intact(sp) /\ Kind = "push_high"
  BY DEF PushHigh, Does, Kind
<1>3. /\ stack' \in [StackTop -> Bytes] /\ sp' \in StackTop /\ latch' \in Bytes
      /\ stack'[sp] = Pushed \div Size /\ Up(sp') = sp
      /\ \A f \in Intact(sp) : f.pc \in Words /\ f.sp \in StackTop' /\ (CallFrame(f) \/ BreakFrame(f))'
      /\ IsFiniteSet(Intact(sp))
  BY <1>2, PushStep, PushedAddress DEF StackInv
<1>4. Framed'
  BY <1>2, <1>3 DEF Framed
<1>5. Pending'
  <2>1. CASE Last
    BY <2>1, NothingPending DEF BusCycle
  <2>2. CASE ~Last
    <3>1. /\ step' = step + 1 /\ instr' = instr /\ (Breaks' <=> Breaks) /\ step \in Nat /\ StackPlaces
      BY <2>2, CycleKept DEF BusCycle
    <3>2. (Breaks /\ step = 2) \/ (instr.op = "JSR" /\ step = 4)
      BY <1>2, <3>1 DEF StackPlaces
    <3>3. Up(sp)' = sp
      BY <1>3 DEF Up, StackLen
    <3>4. stack'[Up(sp)'] = Pushed \div Size
      BY <1>3, <3>3
    <3>5. Pushed = IF instr.op = "JSR" THEN Word(pc + Size * Size - 1) ELSE pc
      BY PushedAddress DEF StackInv
    <3>6. Word(pc + Size * Size - 1)' = Word(pc + Size * Size - 1)
      BY <1>2
    <3>7. Breaks => instr.op # "JSR"
      BY DEF Breaks, Shape, NoInstr
    <3>8. (instr.op = "JSR" /\ step = 5)' => (stack[Up(sp)] = Word(pc + Size * Size - 1) \div Size)'
      <4> SUFFICES ASSUME (instr.op = "JSR" /\ step = 5)'
                   PROVE  (stack[Up(sp)] = Word(pc + Size * Size - 1) \div Size)'
        OBVIOUS
      <4>1. Pushed = Word(pc + Size * Size - 1)
        BY <3>1, <3>5
      <4> HIDE DEF Word
      <4> QED BY <3>4, <3>6, <4>1
    <3>9. (Breaks /\ step = 3)' => (stack[Up(sp)] = pc \div Size)'
      <4> SUFFICES ASSUME (Breaks /\ step = 3)' PROVE (stack[Up(sp)] = pc \div Size)'
        OBVIOUS
      <4>1. Pushed = pc
        BY <3>1, <3>5, <3>7
      <4> QED BY <1>2, <3>4, <4>1
    <3>10. /\ ~(Breaks /\ step = 4)'
           /\ ~((instr.op = "RTI" /\ step = 5) \/ (instr.op = "RTS" /\ step = 4))'
      BY <3>1, <3>2
    <3> QED BY <3>8, <3>9, <3>10 DEF Pending
  <2> QED BY <2>1, <2>2
<1> QED BY <1>1, <1>2, <1>3, <1>4, <1>5 DEF StackInv, StackTyped


LEMMA PushLowKeepsStack ==
  ASSUME Shape, StackInv, program' = program, PushLow
  PROVE  StackInv'
<1>1. StackTop' = StackTop /\ (StackLen' = StackLen)
  BY DEF StackTop, StackLen
<1>2. Push(Pushed % Size) /\ pc' \in Arrives(pc) /\ Kind = "push_low"
  BY DEF PushLow, Does, Kind
<1>3. /\ stack' \in [StackTop -> Bytes] /\ sp' \in StackTop /\ latch' \in Bytes
      /\ stack'[sp] = Pushed % Size /\ (\A t \in StackTop : t # sp => stack'[t] = stack[t])
      /\ Up(sp') = sp
      /\ \A f \in Intact(sp) : f.pc \in Words /\ f.sp \in StackTop' /\ (CallFrame(f) \/ BreakFrame(f))'
      /\ IsFiniteSet(Intact(sp))
  BY <1>2, PushStep, PushedAddress DEF StackInv
<1>4. sp \in StackTop /\ pc \in Words
  BY DEF StackInv, StackTyped
<1>5. StackLen \in Nat /\ StackLen >= 1
  BY StackSize
<1>6. /\ Up(sp) \in StackTop /\ Down(Up(sp)) = sp
      /\ StackLen >= 3 => sp # Up(sp)
  BY <1>4, <1>5, UpDown
<1>7. ~Between
  BY <1>2, CycleEnds DEF BusCycle
<1>8. StackPlaces /\ Ends
  BY <1>7, StackPlacesHold
<1>9. (Breaks /\ step = 3) \/ (instr.op = "JSR" /\ step = 5)
  BY <1>2, <1>8 DEF StackPlaces
<1>10. Breaks => instr.op # "JSR"
  BY DEF Breaks, Shape, NoInstr
<1>11. Pushed = IF instr.op = "JSR" THEN Word(pc + Size * Size - 1) ELSE pc
  BY PushedAddress DEF StackInv
<1>12. pc' \in Words
  BY <1>2, <1>4, ArrivesInWords
<1>13. Framed' /\ IsFiniteSet(frames')
  <2>1. CASE instr.op = "JSR"
    <3>0. PICK g : g = [until |-> "RTS", at |-> {sp, Up(sp)}, sp |-> Up(sp), pc |-> pc, i |-> FALSE]
      OBVIOUS
    <3>1. Remember(g)
      BY <2>1, <3>0 DEF PushLow
    <3>2. g.until = "RTS" /\ g.at = {sp, Up(sp)} /\ g.sp = Up(sp) /\ g.pc = pc
      BY <3>0
    <3>3. /\ frames' = Intact(sp) \/ (frames' = Intact(sp) \union {g} /\ StackLen >= 3)
          /\ IsFiniteSet(frames')
      BY <1>3, <3>1, Remembered
    <3>4. ASSUME StackLen >= 3
          PROVE  g.pc \in Words /\ g.sp \in StackTop' /\ CallFrame(g)'
      <4>1. Down(g.sp)' = sp
        BY <1>6, <3>2 DEF Down, StackLen
      <4>2. g.at = {g.sp, Down(g.sp)'}
        BY <3>2, <4>1
      <4>3. stack[Up(sp)] = Word(pc + Size * Size - 1) \div Size
        BY <1>9, <1>10, <2>1 DEF StackInv, Pending
      <4>4. stack'[g.sp] = Word(g.pc + Size * Size - 1) \div Size
        BY <1>3, <1>6, <3>2, <3>4, <4>3
      <4>5. stack'[Down(g.sp)'] = Word(g.pc + Size * Size - 1) % Size
        <5>1. Pushed = Word(pc + Size * Size - 1)
          BY <1>11, <2>1
        <5> HIDE DEF Word
        <5> QED BY <1>3, <3>2, <4>1, <5>1
      <4>6. CallFrame(g)'
        BY <3>2, <4>2, <4>4, <4>5 DEF CallFrame
      <4> QED BY <1>1, <1>4, <1>6, <3>2, <4>6
    <3> QED BY <1>3, <3>3, <3>4 DEF Framed
  <2>2. CASE instr.op # "JSR"
    <3>1. frames' = Intact(sp)
      BY <2>2 DEF PushLow
    <3> QED BY <1>3, <3>1 DEF Framed
  <2> QED BY <2>1, <2>2
<1>14. Pending'
  <2>1. CASE Last
    BY <2>1, NothingPending DEF BusCycle
  <2>2. CASE ~Last
    <3>1. /\ step' = step + 1 /\ instr' = instr /\ (Breaks' <=> Breaks) /\ step \in Nat
      BY <2>2, CycleKept DEF BusCycle
    <3>2. Breaks /\ step = 3
      <4> SUFFICES ASSUME instr.op = "JSR", step = 5 PROVE FALSE
        BY <1>9
      <4>1. Len(Sequence) = 6
        BY <1>8 DEF Ends
      <4> QED BY <1>7, <2>2, <4>1 DEF Last
    <3>3. pc' = pc /\ Pushed = pc
      BY <1>2, <1>10, <1>11, <2>2, <3>2 DEF Arrives
    <3>4. ASSUME StackLen >= 3
          PROVE  (stack[Up(sp)] = pc % Size /\ stack[Up(Up(sp))] = pc \div Size)'
      <4>1. Up(sp)' = sp /\ Up(Up(sp))' = Up(sp)
        BY <1>3 DEF Up, StackLen
      <4>2. stack'[Up(sp)'] = pc % Size
        BY <1>3, <3>3, <4>1
      <4>3. stack'[Up(Up(sp))'] = pc \div Size
        BY <1>3, <1>6, <3>2, <3>4, <4>1 DEF StackInv, Pending
      <4> QED BY <3>3, <4>2, <4>3
    <3>5. (Breaks /\ step = 4 /\ StackLen >= 3)'
            => (stack[Up(sp)] = pc % Size /\ stack[Up(Up(sp))] = pc \div Size)'
      BY <1>1, <3>4
    <3>6. /\ ~(instr.op = "JSR" /\ step = 5)' /\ ~(Breaks /\ step = 3)'
          /\ ~((instr.op = "RTI" /\ step = 5) \/ (instr.op = "RTS" /\ step = 4))'
      <4>1. step' = 4 /\ instr.op # "JSR" /\ instr.op # "RTS"
        BY <1>10, <3>1, <3>2 DEF Breaks, Shape, NoInstr
      <4> QED BY <3>1, <4>1
    <3> QED BY <3>5, <3>6 DEF Pending
  <2> QED BY <2>1, <2>2
<1> QED BY <1>1, <1>3, <1>12, <1>13, <1>14 DEF StackInv, StackTyped

LEMMA PushStatusKeepsStack ==
  ASSUME Shape, StackInv, program' = program, PushStatus
  PROVE  StackInv'
<1>1. StackTop' = StackTop /\ (StackLen' = StackLen)
  BY DEF StackTop, StackLen
<1>2. PICK b \in {c \in Bytes : Masks(c) = i_flag} : Push(b)
  BY DEF PushStatus
<1>3. b \in Bytes /\ Masks(b) = i_flag /\ pc' = pc /\ Kind = "push_status"
  BY <1>2 DEF PushStatus, Does, Kind
<1>4. /\ stack' \in [StackTop -> Bytes] /\ sp' \in StackTop /\ latch' \in Bytes
      /\ stack'[sp] = b /\ (\A t \in StackTop : t # sp => stack'[t] = stack[t])
      /\ \A f \in Intact(sp) : f.pc \in Words /\ f.sp \in StackTop' /\ (CallFrame(f) \/ BreakFrame(f))'
      /\ IsFiniteSet(Intact(sp))
  BY <1>2, <1>3, PushStep DEF StackInv
<1>5. sp \in StackTop /\ pc \in Words
  BY DEF StackInv, StackTyped
<1>6. StackLen \in Nat /\ StackLen >= 1
  BY StackSize
<1>7. /\ Up(sp) \in StackTop /\ Up(Up(sp)) \in StackTop
      /\ Down(Up(sp)) = sp /\ Down(Up(Up(sp))) = Up(sp)
      /\ StackLen >= 3 => sp # Up(sp) /\ sp # Up(Up(sp))
  <2>1. Up(sp) \in StackTop /\ Down(Up(sp)) = sp /\ (StackLen >= 3 => sp # Up(sp) /\ sp # Up(Up(sp)))
    BY <1>5, <1>6, UpDown
  <2>2. Up(Up(sp)) \in StackTop /\ Down(Up(Up(sp))) = Up(sp)
    BY <1>6, <2>1, UpDown
  <2> QED BY <2>1, <2>2
<1>8. ~Between
  BY CycleEnds DEF BusCycle
<1>9. StackPlaces
  BY <1>8, StackPlacesHold
<1>10. Framed' /\ IsFiniteSet(frames')
  <2>1. CASE Breaks
    <3>0. PICK g : g = [until |-> "RTI", at |-> {sp, Up(sp), Up(Up(sp))}, sp |-> Up(Up(sp)),
                        pc |-> pc, i |-> i_flag]
      OBVIOUS
    <3>1. Remember(g)
      BY <2>1, <3>0 DEF PushStatus
    <3>2. g.until = "RTI" /\ g.at = {sp, Up(sp), Up(Up(sp))} /\ g.sp = Up(Up(sp)) /\ g.pc = pc
          /\ g.i = i_flag
      BY <3>0
    <3>3. /\ frames' = Intact(sp) \/ (frames' = Intact(sp) \union {g} /\ StackLen >= 3)
          /\ IsFiniteSet(frames')
      BY <1>4, <3>1, Remembered
    <3>4. ASSUME StackLen >= 3
          PROVE  g.pc \in Words /\ g.sp \in StackTop' /\ BreakFrame(g)'
      <4>1. Down(g.sp)' = Up(sp) /\ Down(Down(g.sp))' = sp
        BY <1>7, <3>2 DEF Down, StackLen
      <4>2. g.at = {g.sp, Down(g.sp)', Down(Down(g.sp))'}
        BY <3>2, <4>1
      <4>3. step = 4
        <5>1. Breaks => instr.op # "PHP"
          BY DEF Breaks, Shape, NoInstr
        <5> QED BY <1>3, <1>9, <2>1, <5>1 DEF StackPlaces
      <4>4. stack[Up(sp)] = pc % Size /\ stack[Up(Up(sp))] = pc \div Size
        BY <2>1, <3>4, <4>3 DEF StackInv, Pending
      <4>5. stack'[g.sp] = g.pc \div Size /\ stack'[Down(g.sp)'] = g.pc % Size
        BY <1>4, <1>7, <3>2, <3>4, <4>1, <4>4
      <4>6. g.i \in BOOLEAN /\ (Masks(stack'[Down(Down(g.sp))']) <=> g.i)
        <5>1. stack'[Down(Down(g.sp))'] = b
          BY <1>4, <4>1
        <5>2. i_flag \in BOOLEAN
          BY DEF Shape
        <5> HIDE DEF Masks
        <5> QED BY <1>3, <3>2, <5>1, <5>2
      <4>7. BreakFrame(g)'
        BY <3>2, <4>2, <4>5, <4>6 DEF BreakFrame
      <4> QED BY <1>1, <1>5, <1>7, <3>2, <4>7
    <3> QED BY <1>4, <3>3, <3>4 DEF Framed
  <2>2. CASE ~Breaks
    <3>1. frames' = Intact(sp)
      BY <2>2 DEF PushStatus
    <3> QED BY <1>4, <3>1 DEF Framed
  <2> QED BY <2>1, <2>2
<1>11. Pending'
  BY <1>3, NothingPending DEF BusCycle
<1> QED BY <1>1, <1>3, <1>4, <1>5, <1>10, <1>11 DEF StackInv, StackTyped

LEMMA PopsKeepStack ==
  ASSUME Shape, StackInv, program' = program, PopByte \/ PopStatus \/ PopLow \/ PopHigh
  PROVE  StackInv'
<1>1. StackTop' = StackTop /\ (StackLen' = StackLen)
  BY DEF StackTop, StackLen
<1>2. Pop
  BY DEF PopByte, PopStatus, PopLow, PopHigh
<1>3. sp' = Up(sp) /\ sp' \in StackTop /\ stack' = stack /\ frames' = frames /\ stack[Up(sp)] \in Bytes
  BY <1>2, PopStep DEF StackInv
<1>4. pc \in Words /\ latch \in Bytes /\ stack \in [StackTop -> Bytes] /\ IsFiniteSet(frames)
  BY DEF StackInv, StackTyped
<1>5. Framed'
  <2>1. \A f \in frames : f.pc \in Words /\ f.sp \in StackTop' /\ (CallFrame(f) \/ BreakFrame(f))'
    BY <1>3, FramesKept DEF StackInv
  <2> QED BY <1>3, <2>1 DEF Framed
<1>6. Size \in Nat /\ Size >= 2 /\ \A a \in Nat : Word(a) \in Words
  BY WordRange
<1>7. latch' \in Bytes
  <2>1. 0 \in Bytes
    BY <1>6 DEF Bytes
  <2> QED BY <1>3, <1>4, <2>1 DEF PopByte, PopStatus, PopLow, PopHigh
<1>8. pc' \in Words
  <2>1. CASE PopByte \/ PopStatus \/ PopLow
    BY <1>4, <2>1 DEF PopByte, PopStatus, PopLow
  <2>2. CASE PopHigh
    <3> DEFINE h == stack[Up(sp)]
               e == IF instr.op = "RTS" THEN 1 ELSE 0
    <3>1. pc' = Word(latch + Size * h + e)
      BY <2>2 DEF PopHigh
    <3>2. latch \in Nat /\ h \in Nat /\ e \in Nat
      BY <1>3, <1>4, <1>6 DEF Bytes
    <3> HIDE DEF h, e
    <3>3. Size * h \in Nat
      BY <1>6, <3>2
    <3>4. latch + Size * h + e \in Nat
      BY <3>2, <3>3
    <3> QED BY <1>6, <3>1, <3>4
  <2> QED BY <2>1, <2>2
<1>9. Pending'
  <2>1. CASE Last \/ Kind # "pop_low"
    <3>1. Kind \notin {"push_high", "push_low"}
      BY DEF PopByte, PopStatus, PopLow, PopHigh, Does, Kind
    <3> QED BY <2>1, <3>1, NothingPending DEF BusCycle
  <2>2. CASE ~Last /\ Kind = "pop_low"
    <3>1. /\ step' = step + 1 /\ instr' = instr /\ (Breaks' <=> Breaks) /\ step \in Nat /\ StackPlaces
      BY <2>2, CycleKept DEF BusCycle
    <3>2. (instr.op = "RTI" /\ step = 4) \/ (instr.op = "RTS" /\ step = 3)
      BY <2>2, <3>1 DEF StackPlaces
    <3>3. PopLow
      BY <2>2 DEF PopByte, PopStatus, PopHigh, Does, Kind
    <3>4. latch' = stack'[sp']
      BY <1>3, <3>3 DEF PopLow
    <3>5. ~Breaks
      BY <3>2 DEF Breaks, Shape, NoInstr
    <3>6. ~(instr.op = "JSR" /\ step = 5)' /\ ~(Breaks /\ step = 3)' /\ ~(Breaks /\ step = 4)'
      BY <3>1, <3>2, <3>5
    <3> QED BY <3>4, <3>6 DEF Pending
  <2> QED BY <2>1, <2>2
<1> QED BY <1>1, <1>3, <1>4, <1>5, <1>7, <1>8, <1>9 DEF StackInv, StackTyped

LEMMA OthersKeepStack ==
  ASSUME Shape, StackInv, program' = program,
         UNCHANGED instr_vars \/ Stall \/ Fetch \/ \E hard \in BOOLEAN : ResetCpu(hard)
  PROVE  StackInv'
<1>1. StackTop' = StackTop /\ (StackLen' = StackLen) /\ (\A s : Down(s)' = Down(s))
  BY DEF StackTop, StackLen, Down
<1>2. ASSUME stack' = stack, frames' = frames PROVE Framed'
  <2>1. \A f \in frames : f.pc \in Words /\ f.sp \in StackTop' /\ (CallFrame(f) \/ BreakFrame(f))'
    BY <1>2, FramesKept DEF StackInv
  <2> QED BY <1>2, <2>1 DEF Framed
<1>3. CASE UNCHANGED instr_vars \/ Stall
  <2>1. stack' = stack /\ frames' = frames /\ sp' = sp /\ pc' = pc /\ latch' = latch
        /\ seq' = seq /\ step' = step /\ instr' = instr
    BY <1>3 DEF instr_vars, stack_vars, fetched, Stall
  <2>2. Framed'
    BY <1>2, <2>1
  <2>3. Pending'
    <3>1. (Breaks' <=> Breaks) /\ Up(sp)' = Up(sp) /\ Up(Up(sp))' = Up(Up(sp))
      BY <2>1 DEF Breaks, Up, StackLen
    <3>2. Word(pc + Size * Size - 1)' = Word(pc + Size * Size - 1)
      BY <2>1
    <3> HIDE DEF Word
    <3> QED BY <1>1, <2>1, <3>1, <3>2 DEF StackInv, Pending
  <2> QED BY <1>1, <2>1, <2>2, <2>3 DEF StackInv, StackTyped
<1>4. CASE Fetch
  <2>1. stack' = stack /\ frames' = frames /\ sp' = sp /\ latch' = latch /\ step' = 1
    BY <1>4 DEF Fetch, stack_vars
  <2>2. pc' \in Words
    <3>1. PICK n \in {1, 2} : pc' = Word(pc + n)
      BY <1>4 DEF Fetch
    <3>2. pc + n \in Nat
      BY WordRange DEF StackInv, StackTyped
    <3> QED BY <3>1, <3>2, WordRange
  <2>3. Framed'
    BY <1>2, <2>1
  <2>4. Pending'
    BY <2>1 DEF Pending
  <2> QED BY <1>1, <2>1, <2>2, <2>3, <2>4 DEF StackInv, StackTyped
<1>5. CASE \E hard \in BOOLEAN : ResetCpu(hard)
  <2>1. PICK hard \in BOOLEAN : ResetCpu(hard)
    BY <1>5
  <2>2. pc' \in Words /\ latch' = latch /\ step' = 0
    BY <2>1 DEF ResetCpu, Between
  <2>3. sp' \in StackTop
    <3>1. StackLen \in Nat /\ StackLen >= 1 /\ sp \in StackTop
      BY StackSize DEF StackInv, StackTyped
    <3>2. Down(Down(Down(sp))) \in StackTop
      <4>1. Down(sp) \in StackTop
        BY <3>1, UpDown
      <4>2. Down(Down(sp)) \in StackTop
        BY <3>1, <4>1, UpDown
      <4> QED BY <3>1, <4>2, UpDown
    <3>3. (2 * StackLen - 3) % StackLen \in StackTop
      BY <3>1, FirstStackPointer
    <3> QED BY <2>1, <3>2, <3>3 DEF ResetCpu
  <2>4. Pending'
    BY <2>2 DEF Pending
  <2>5. stack' \in [StackTop -> Bytes] /\ Framed' /\ IsFiniteSet(frames')
    <3>1. CASE hard
      <4>1. stack' \in [StackTop -> Bytes] /\ frames' = {}
        BY <2>1, <3>1 DEF ResetCpu
      <4> QED BY <4>1, FS_EmptySet DEF Framed
    <3>2. CASE ~hard
      <4>1. stack' = stack /\ frames' = frames
        BY <2>1, <3>2 DEF ResetCpu
      <4> QED BY <1>2, <4>1 DEF StackInv, StackTyped
    <3> QED BY <3>1, <3>2
  <2> QED BY <1>1, <2>2, <2>3, <2>4, <2>5 DEF StackInv, StackTyped
<1> QED BY <1>3, <1>4, <1>5

(* So StackInv is inductive. *)
LEMMA StackInvKept ==
  Shape /\ StackInv /\ [InstrNext]_instr_vars => StackInv'
<1> SUFFICES ASSUME Shape, StackInv, [InstrNext]_instr_vars PROVE StackInv'
  OBVIOUS
<1>1. program' = program
  BY StepKinds DEF instr_vars
<1>2. CASE UNCHANGED instr_vars \/ Stall \/ Fetch \/ \E hard \in BOOLEAN : ResetCpu(hard)
  BY <1>1, <1>2, OthersKeepStack
<1>3. CASE ReadOperand \/ Read \/ ResetStep
  BY <1>1, <1>3, ReadsKeepStack
<1>4. CASE Write
  BY <1>1, <1>4, WriteKeepsStack
<1>5. CASE PushByte
  BY <1>1, <1>5, PushByteKeepsStack
<1>6. CASE PushHigh
  BY <1>1, <1>6, PushHighKeepsStack
<1>7. CASE PushLow
  BY <1>1, <1>7, PushLowKeepsStack
<1>8. CASE PushStatus
  BY <1>1, <1>8, PushStatusKeepsStack
<1>9. CASE PopByte \/ PopStatus \/ PopLow \/ PopHigh
  BY <1>1, <1>9, PopsKeepStack
<1> QED BY <1>2, <1>3, <1>4, <1>5, <1>6, <1>7, <1>8, <1>9, StepKinds DEF BusCycle

(* It holds after power-on. *)
LEMMA InitStackInv == InstrInit => StackInv
<1> SUFFICES ASSUME InstrInit PROVE StackInv
  OBVIOUS
<1>1. StackLen \in Nat /\ StackLen >= 1
  BY InitShape, StackSize
<1>2. sp \in StackTop
  BY <1>1, FirstStackPointer DEF InstrInit
<1>3. 0 \in Bytes
  BY WordRange DEF Bytes
<1>4. stack \in [StackTop -> Bytes] /\ latch \in Bytes /\ pc \in Words
  BY <1>3 DEF InstrInit
<1>5. frames = {} /\ step = 0
  BY DEF InstrInit
<1> QED BY <1>2, <1>4, <1>5, FS_EmptySet DEF StackInv, StackTyped, Framed, Pending

(* Every frame that is remembered lies on the stack as it was pushed. *)
THEOREM StackHolds == InstrSpec => [](Shape /\ StackInv)
<1>1. InstrInit => Shape /\ StackInv
  BY InitShape, InitStackInv
<1>2. (Shape /\ StackInv) /\ [InstrNext]_instr_vars => (Shape /\ StackInv)'
  BY ShapeKept, StackInvKept
<1> QED BY <1>1, <1>2, PTL DEF InstrSpec

(* The action that pops a byte of some kind. *)
LEMMA PoppedBy ==
  ASSUME Shape, InstrNext, sp' # sp
  PROVE  /\ Does({"pop_high"}) => PopHigh
         /\ Does({"pop_status"}) => PopStatus
<1>1. ~Stall
  BY DEF Stall, stack_vars
<1>2. ASSUME Does({"pop_high"}) \/ Does({"pop_status"}) PROVE BusCycle
  <2>1. ~Between
    BY <1>2 DEF Does
  <2> QED BY <1>1, <2>1, StepKinds DEF Fetch, ResetCpu
<1>3. ASSUME Does({"pop_high"}) PROVE PopHigh
  <2>1. Kind = "pop_high"
    BY <1>3 DEF Does, Kind
  <2> QED BY <1>2, <1>3, <2>1 DEF BusCycle, ReadOperand, Read, Write, PushByte, PushHigh, PushLow, PushStatus,
       PopByte, PopStatus, PopLow, ResetStep, Does, Kind
<1>4. ASSUME Does({"pop_status"}) PROVE PopStatus
  <2>1. Kind = "pop_status"
    BY <1>4 DEF Does, Kind
  <2> QED BY <1>2, <1>4, <2>1 DEF BusCycle, ReadOperand, Read, Write, PushByte, PushHigh, PushLow, PushStatus,
       PopByte, PopHigh, PopLow, ResetStep, Does, Kind
<1> QED BY <1>3, <1>4

(* An RTS or RTI that pops a frame still on the stack resumes where the    *)
(* call or the interrupt left, with the I flag that it had.                *)
THEOREM ReturnsWhereItCameFrom == InstrSpec => Returns
<1> DEFINE R == sp' # sp => \A f \in frames :
       /\ Does({"pop_high"}) /\ instr.op = f.until /\ sp' = f.sp => pc' = f.pc
       /\ Does({"pop_status"}) /\ instr.op = f.until /\ sp = Down(Down(Down(f.sp)))
            => i_flag' = f.i
<1>1. Shape /\ StackInv /\ [InstrNext]_instr_vars => R
  <2> SUFFICES ASSUME Shape, StackInv, [InstrNext]_instr_vars, sp' # sp, NEW f \in frames
               PROVE  /\ Does({"pop_high"}) /\ instr.op = f.until /\ sp' = f.sp => pc' = f.pc
                      /\ Does({"pop_status"}) /\ instr.op = f.until /\ sp = Down(Down(Down(f.sp)))
                           => i_flag' = f.i
    OBVIOUS
  <2>1. InstrNext
    BY DEF instr_vars, stack_vars
  <2>2. sp \in StackTop /\ f.sp \in StackTop /\ f.pc \in Words /\ (CallFrame(f) \/ BreakFrame(f))
    BY DEF StackInv, StackTyped, Framed
  <2>3. StackLen \in Nat /\ StackLen >= 1
    BY StackSize
  <2>4. ASSUME Does({"pop_high"}), instr.op = f.until, sp' = f.sp PROVE pc' = f.pc
    <3>1. PopHigh /\ Kind = "pop_high" /\ ~Between
      BY <2>1, <2>4, PoppedBy DEF Does, Kind
    <3>2. sp' = Up(sp) /\ pc' = Word(latch + Size * stack[Up(sp)] + (IF instr.op = "RTS" THEN 1 ELSE 0))
      BY <3>1 DEF PopHigh, Pop
    <3>3. sp = Down(f.sp)
      BY <2>2, <2>3, <2>4, <3>2, UpDown
    <3>4. StackPlaces
      BY <3>1, StackPlacesHold
    <3>5. latch = stack[sp]
      BY <3>1, <3>4 DEF StackPlaces, StackInv, Pending
    <3>6. pc' = Word(stack[Down(f.sp)] + Size * stack[f.sp] + (IF instr.op = "RTS" THEN 1 ELSE 0))
      BY <2>4, <3>2, <3>3, <3>5
    <3>7. CASE CallFrame(f)
      <4>1. instr.op = "RTS"
        BY <2>4, <3>7 DEF CallFrame
      <4> DEFINE q == Word(f.pc + Size * Size - 1)
      <4>2. stack[Down(f.sp)] = q % Size /\ stack[f.sp] = q \div Size
        BY <3>7 DEF CallFrame
      <4>3. Word((q % Size) + Size * (q \div Size) + 1) = f.pc
        BY <2>2, ThereAndBack
      <4> HIDE DEF q
      <4> QED BY <3>6, <4>1, <4>2, <4>3
    <3>8. CASE BreakFrame(f)
      <4>1. instr.op = "RTI"
        BY <2>4, <3>8 DEF BreakFrame
      <4>2. stack[Down(f.sp)] = f.pc % Size /\ stack[f.sp] = f.pc \div Size
        BY <3>8 DEF BreakFrame
      <4>3. Word((f.pc % Size) + Size * (f.pc \div Size) + 0) = f.pc
        BY <2>2, ThereAndBack
      <4> QED BY <3>6, <4>1, <4>2, <4>3
    <3> QED BY <2>2, <3>7, <3>8
  <2>5. ASSUME Does({"pop_status"}), instr.op = f.until, sp = Down(Down(Down(f.sp)))
        PROVE  i_flag' = f.i
    <3>1. PopStatus /\ Kind = "pop_status" /\ ~Between
      BY <2>1, <2>5, PoppedBy DEF Does, Kind
    <3>2. i_flag' = Masks(stack[Up(sp)])
      BY <3>1 DEF PopStatus
    <3>3. Up(sp) = Down(Down(f.sp))
      <4>1. Down(f.sp) \in StackTop
        BY <2>2, <2>3, UpDown
      <4>2. Down(Down(f.sp)) \in StackTop
        BY <2>3, <4>1, UpDown
      <4> QED BY <2>3, <2>5, <4>2, UpDown
    <3>4. StackPlaces
      BY <3>1, StackPlacesHold
    <3>5. instr.op # "RTS"
      BY <3>1, <3>4 DEF StackPlaces
    <3>6. f.i \in BOOLEAN /\ (Masks(stack[Down(Down(f.sp))]) <=> f.i)
      BY <2>2, <2>5, <3>5 DEF CallFrame, BreakFrame
    <3>7. Masks(stack[Down(Down(f.sp))]) \in BOOLEAN
      BY DEF Masks
    <3> HIDE DEF Masks
    <3>8. Masks(stack[Down(Down(f.sp))]) = f.i
      BY <3>6, <3>7
    <3> QED BY <3>2, <3>3, <3>8
  <2> QED BY <2>4, <2>5
<1>2. Returns <=> [][R]_instr_vars
  BY DEF Returns
<1> QED BY <1>1, <1>2, StackHolds, PTL DEF InstrSpec
=============================================================================
