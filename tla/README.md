# A TLA+ model of TetaNES

TetaNES (`src/`) emulates the Nintendo Entertainment System. This directory holds
TLA+ modules of its parts, configurations that check them with TLC on small
instances, and theorems about them that TLAPS has checked for every value of the
constants. Paths below are relative to the repository; the Rust sources are in
`src/src/`.

## The system

One thread runs everything but the audio device. `ControlDeck` lets `Cpu` execute
instructions; each of their bus cycles lets the other chips catch up (`start_cycle`
and `end_cycle` in `cpu.rs`), so the interleavings that matter are those of bus
accesses with dots of the PPU, cycles of the APU and clocks of the mapper. Around
the console, `Nes` handles events, files, rewinding and replays, and an audio
callback of another thread empties a ring of samples.

| Component | State | Operations | Talks to | What makes it correct |
|---|---|---|---|---|
| CPU bus cycles, DMA (`cpu.rs`, `bus.rs`) | cycle and master clock, `halt`, `dummy_read`, `dmc_dma`, `oam_dma` | read, write, `handle_dma`, reset | everything, by calls | copies complete and in order; fetches served; stops end |
| CPU interrupts (`cpu.rs`, `instr.rs`) | edge detector, polled IRQ, I flag | `handle_interrupts`, `irq`, `brk` | PPU, APU, mapper lines | no NMI lost or doubled, no interrupt without a cause |
| CPU instructions (`instr.rs`) | registers, flags | 256 opcodes | bus | results, flags and cycles of the 6502 |
| PPU timing (`ppu.rs`) | dot, line, VBL flag, NMI line | `clock`, $2000-$2002, reset, region | CPU | flag, line and frame length as on hardware |
| PPU sprites (`ppu.rs`) | OAM, secondary OAM, evaluation state | `evaluate_sprites`, $2003, $2004 | CPU's page copy | first eight sprites, overflow, sprite zero |
| PPU scrolling (`scroll.rs`) | v, t, x, latch | $2000, $2005, $2006, increments and copies at their dots | the PPU's own fetches | every pixel from where the program scrolled |
| PPU memory (`ppu/bus.rs`) | nametables, palettes, patterns, read buffer | $2007, mirroring, loading | boards | bytes come back from every mirror, one read late |
| DMC (`dmc.rs`) | reader, buffer, output unit, IRQ | clock, $4010-$4013, $4015 | CPU's DMA | no byte lost, doubled or overwritten |
| Frame counter, lengths (`frame_counter.rs`, `apu.rs`, `length_counter.rs`) | step, mode, waiting write, IRQ flag, lengths | clock, $4015, $4017, reset, region | CPU, channels | schedule kept, IRQ neither early nor lost |
| Pulse, triangle, noise (`apu/`) | timers, envelopes, sweep, shift register | clocks, registers | frame counter | ranges; the noise never stops |
| Boards (`mapper/`, `mem.rs`) | banks, latches, IRQ counters | register writes, clocks, watched fetches, reset | CPU, PPU | pages of their chips; IRQs at their lines; tiles of their banks |
| Controllers (`input.rs`, `nes/event.rs`) | buttons, strobe, index, adapter | reads, strobes, keys, sticks, turbo | CPU bus, user | each button read once, in order; none stuck |
| Cartridge, cheat codes (`cart.rs`, `genie.rs`) | header, codes | parsing | file system | sizes fit the chips |
| Session (`nes/`, `control_deck.rs`) | mode, loaded game, files, rewind buffer, replay | load, save, rewind, record, quit | file system, user | no save lost, no state of one game in another |
| Audio (`audio.rs`) | ring, filters, rate | `consume`, callback, reset | audio device | no stale ring, bounded delay |

The hard behaviours are listed with their lines in `PROJECT.json` under `hazards`.

## The plan

Most important first; each step ends with its runs and its proofs.

1. `Dmc`, `CpuDma`, `OamTransfer`: the bus and its transfers. Done, proved.
2. `VblankNmi`: PPU timing and interrupts. Done, proved.
3. `FrameCounter`: frame counter, status, lengths. Done, proved.
4. `VrcIrq`: the VRC counter. Done, proved.
5. `Instructions` with `BusCycles`: bus cycles of the instructions, stack and
   interrupts. Done, proved. `SpriteEval`: sprite evaluation. Done, proved.
6. `Session`: games, files with failing writes and crashes, rewinding, modes,
   quitting. Done, proved.
7. `Scroll`: v, t, x and the latch, the fetches of the background. Done, proved.
8. `Banks` and a module for each kind of board, `Boards` with the PPU's fetches. Done,
   proved.
9. `Sound` and `Channels`: sweep, envelope, linear counter, noise, VRC6. Done, proved.
10. `Pads`: controllers; `VideoMemory`: the memory behind $2007. Done, proved.
11. Recordings and their playback beside `Session`; the values of registers and flags.

Compositions: `CpuDma` owns a `Dmc` channel and implements `OamTransfer`; it assumes
of the program what `BusCycles` says, and `Instructions` implements that; `Boards`
composes the boards with the PPU that fetches through them and the program that
writes to them; `Devices` runs boards, channels, controllers and video memory beside
each other.

## The modules

### `Dmc`, `CpuDma`, `OamTransfer`

`Dmc` is the channel as a record, a method of the Rust type being an operator from
a record to a record, so that `CpuDma` can compose them in the order in which one
CPU cycle calls them. In `CpuDma` an action is one CPU cycle: `Clocked` is
`start_cycle` (which clocks the APU), then comes the access, then `EndCycle` with
the poll of the DMC. `handle_dma` is a loop inside `read`; `phase` is its program
counter, `EnterDma` its halt cycle, the actions `DmcFetch`, `OamRead`, `OamWrite`
and `DmaWait` the branches of its body, `LeaveDma` the delayed read. The program is
any sequence of reads and writes that 6502 instructions can make: what `MayStart`
and `MayContinue` of `BusCycles` allow of writes in a row. A byte of a page is the pair of page
and offset. OAM writes that hit a rendering PPU are an input of the environment,
bounded by `MaxGlitches`.

`OamTransfer` says what a game is promised, without cycles: a page is asked for,
its bytes arrive in order, and nothing else happens to OAM in between. `IsTransfer`
is the refinement; the mapping takes a byte for delivered when the write of its
pair has been made.

### `Instructions`, `BusCycles`

`BusCycles` holds the promise between the CPU's instructions and the rest of the
console: how many reads come before a write, and how many writes in a row. `CpuDma`
extends it and runs any program that keeps it; `Instructions` extends it too, counts
its own cycles and is checked against it (`IsBusProgram`), so that what `CpuDma`
assumes is what the instructions do.

In `Instructions` an action is a bus cycle. `Table` is `Cpu::INSTRUCTIONS` as a set of
modes, operations and cycle counts; it has all 221 that the opcodes have.
`AddressCycles` is what the mode's function reads, `OperationCycles` what the
operation's does, `Sequence` both after the fetch of the opcode; `step` counts the
cycles done. `Stall` is a cycle of `handle_dma` before a read. Each cycle ends with
`Poll`, which is `handle_interrupts` and what the code changes in its latches before
the next cycle begins: a taken branch forgets a fresh IRQ, an NMI hijacks the vector,
BRK hides an NMI. After the last cycle `Interrupted` decides between the next
instruction and `irq`. What the values of registers and memory decide is open: which
opcode, whether the index carries (`crossed`), whether a branch is taken (`taken`) and
where jumps lead, as are the levels of the interrupt lines. The stack is kept, byte by
byte, with wrapping `sp`; stores outside the zero page may hit it. History: the I flag
before the instruction, how many instructions an IRQ has waited, and the return
addresses that are still on the stack. The `corrupted` flag of an invalid opcode is
left out, as only `ControlDeck` reads it, and so are the values of A, X, Y and of the
flags other than I.

### `VblankNmi`

Every dot of the PPU is an action (`PpuDot`), and so is the access in the middle of
a CPU cycle, so an access falls between any two dots. `clock` is the CPU's master
clock less the PPU's. An instruction is `InstrCycle`s and an `EndInstr`; its length
is free up to `MaxInstr`, its accesses are any, and IRQ lines are at any level. A
`TurnToBrk` makes it a BRK. `Reset` comes between two instructions.

### `FrameCounter`

`Clock` is what `Apu::clock` does to frame counter, IRQ flag and lengths, in one
cycle: the step, the decision about the IRQ, the quarter and half frames, then the
write that takes effect. The other actions are the registers and the user's. The
table of cycles is a constant, so the theorems hold for every table.

### `VrcIrq`

The counter and the registers that `Vrc6` maps to it. `PrescalerHalf` is half the
range of the i16; release builds wrap, and that is modelled. The names common to all
specifications (`Init`, `Next`, `Spec`) begin with `Vrc`, so that its proofs can stand
in one module with those of `VblankNmi`.

### `SpriteEval`

A dot of the evaluation is an action: odd ones read, even ones are one of `IdleOn`,
`Keep`, `Pass`, `Overflow` and `Miss`. A byte of OAM is known by its index, and
`on_line` is the set of those that, taken for a y, put a sprite on the line: the
evaluation looks at nothing else. The set is chosen anew for each line. Dots that
differ in nothing are one dot. `WriteMask`, `WriteOamAddr` and `WriteOamData` come
between any two dots. Left out: the PAL evaluation during VBL, a change of the
sprites' height in mid-line, reset.

### `Session`

A machine is a game and a number, its progress, which stands for the whole state
and for the memory alike; a file is absent, from another version, cut off in its
header (`Broken`) or after it (`Torn`), or whole. `SaveData` is the set of outcomes
of `save_data`: a refusal to replace a file whose header is not its own, a success,
an error that leaves the old file or a part of the new one, and a success that is
none, because the last flush happens when the `BufWriter` is dropped. `Crash` cuts
off the file being written, and starts the emulator again. `LoadRom` is
`Nes::load_rom`: nothing (`Unopened`), the new name over the old machine
(`Unread`), or a game (`Begun`); the latter two load slot 1. Three variables are
history: `straight` (nothing was loaded since the rewind buffer was empty), `mixed`
(the machine went under another game's name) and `unnoticed` (the last memory was
not written, without an error). Left out: recordings, messages, the ROM of the
command line (which is loaded as from the menu), the debugger, and the trimming of
the buffer by bytes, which `BufferSize` counts in snapshots.

### `Scroll`

An action is a dot of the PPU or an access of the program, which falls between any
two dots. `Dot` is `Ppu::clock`, its `Render` the part of `tick` that fetches, shifts
and moves v: at the dot of a pixel, `Pixel` is what `pixel_color` takes from the shift
registers. A fetched byte is known by where it was fetched from, so the shift
registers hold places, and a wrong place at any dot shows up as a pixel that is not of
the world's place. `column` and `top` are history: the scroll that the program had set
completely when the line and the picture began; after an incomplete write or an access
to $2007 in the picture nothing is asserted until the next complete scroll. The code
draws the first tile of every line with the palette of the second, as
`fetch_bg_nt_byte` runs at each of the last dots of a line and shifts the palettes
along with them; the property says so.

### `Banks`, `Discrete`, `Mmc1`, `Mmc2`, `Mmc3`, `Mmc5`, `Vrc6`, `Boards`

`Banks` is `MemBanks`: windows that show pages of a chip. A board is a record, and its
operations are operators from a record to a record: `Load...`, `Write...`, `Update...`
(the `update_banks` that ends each write), `Reset...`, and for those that watch the
PPU what they do at a fetch. `Discrete` holds the six that have a register each.

`Boards` composes a board with the machine around it. `CpuWrite` is a CPU cycle that
writes to its registers (with the clock of the board in the same cycle), `IdleCycle`
one that does not. The PPU's step is a tile of the background or a sprite, with its
fetches in the order of `fetch_background` and `load_sprites`: two of the nametable,
two of the pattern, each of which the board sees through `map_read`. The registers
$2000, $2001 and $2006, $2007 change the tables, the sprites' height and the address
lines in between. A cartridge is a constant with the writes its program makes, so that
the registers of a large board are tried in groups. The IRQ of the VRC6 is `VrcIrq`.

### `Sound`, `Channels`

A channel is a record; `ClockPulse`, `ClockTriangle`, `ClockNoise`, `ClockVrc6` are the
`clock` functions, `ClockEnvelope`, `ClockLinear`, `ClockSweep` and `ClockLength` what
quarter and half frames do, `Write...` the registers. In `Channels` a program plays one
of them, in any order of clocks, frames and writes; the channels have no state in
common. The pulses of the MMC5 are those of the APU without a sweep's limits and with
their own frames. `since` is history: the quarter frames since a note began under
unchanged registers.

### `Pads`

The joypads' reports with their index, alone and through the adapters, and what sets
the buttons: keys, sticks, the turbo timer (abstracted to any moment), pauses, menus
and loaded states. `missed` is history: buttons that no key accounts for, because the
key was released while the game was paused, the state came from elsewhere, or the stick
is not let go (the finding below).

### `VideoMemory`

Real addresses. `ReadData` and `WriteData` are $2007 with the increment before the
access, `WriteVramAddr` $2006, `WriteIncrement` $2000, `ResetLatch` $2002,
`WriteMirroring` a write to the board, `LoadGame` another cartridge, `ResetMemory` both
kinds of reset, until `StopVblank` deaf to writes. A memory is a function of the places
written. History: `stored`, the bytes by the place where a console keeps them (`Place`,
from the diagrams above `ciram_mirror`), and `buffered`, what the buffer should hold.

### `Devices`

`Boards`, `Channels`, `Pads` and `VideoMemory` share no state in their abstractions;
`Devices` is their disjoint union: `device` says which of them runs, while the others
rest. One configuration checks them all.

## The runs

| Run | What it asks | Bounds | Result |
|---|---|---|---|
| `dma` | copies, samples, halts, controllers in every alignment; stops end, requests are served | OAM of 4 bytes, 2 pages, samples of 1 and 2 bytes, 5 bits a byte, the fastest timer | holds |
| `dma_reset` | the machine implements `OamTransfer`, with resets and a glitch | 1 page, samples of 2 bytes, 4 bits a byte, 1 glitch | holds |
| `vblank` | line, flag, lost VBLs, edges; NMIs are taken | lines of 6 dots, 5 lines, NTSC clocks, instructions up to 4 cycles | holds |
| `frames` | schedule, whole sequences; the IRQ comes, notes end | two regions, steps of 1 to 4 cycles, 1 channel | holds |
| `vrc` | punctuality; the IRQ comes | period 11, step 3, 4 counts, 6-bit prescaler | holds |
| `sprites` | sprites shown, overflow, sprite zero | 3 sprites, 1 slot, 1 access, and rendering switched back on | holds |
| `scroll` | every pixel in its place, with its palette | screens of 2 by 4 tiles, tiles of 4 by 8 dots, pictures of 2 lines, 2 accesses, both mirrorings | holds |
| `instructions` | cycle counts, delays of IRQs and of the I flag, order of bus cycles; returns | the program `All`: all operations, a stack of 1 byte, NMIs, resets; the program `Calls`: operations on the stack and the I flag, a stack of 4 bytes, 2 return addresses remembered | holds |
| `session` | quits save or ask, files hold their own game, rewinding goes back | 2 games, one with a battery, 1 slot, 2 snapshots, 1 failure or crash, 2 stages of progress | holds |
| `devices` | boards, channels, controllers, video memory: 11 properties | chips of 1 to 32 pages, lines of 2 tiles and 2 sprites, pictures of 2 lines; reports of 2 buttons, 7 reads; 36 quarter frames; 7 accesses to the memory | holds |
| `axis` | a stick in its centre releases its buttons (`event.rs:28`) | as `devices` | violated |
| `four_screens` | four screens have four nametables (`docs/mapper/__ READ THIS FIRST __.txt:58`) | as `devices` | violated |

Why the bounds are enough. A page of four bytes has a first, a last and inner bytes, wraps
in OAM when it starts at 3, and is long enough for a fetch to be asked for and served
within it; a timer of 0 makes fetches as dense as they can be, so that several of them cut
into one page. In `vblank` a line is longer than a CPU cycle and the frame has lines
before, in and after VBL and the prerender line; 6 + 6 clocks over a divider of 4 is the
ratio of the code. `frames` keeps the order of the table's steps and the last steps of one
cycle, with delays of three and four cycles longer than some steps, so every coincidence
of a restart with an end of a step occurs. The period 11 of `vrc` is 2 modulo 3 as 341 is,
and the counter has room for all its cases. In `sprites` evaluation runs over several
lines with any state left by broken-off ones; two sprites beyond the slot are the least
for a slanted search to differ from a straight one. The two programs of `instructions`
divide the work: `All` has every operation, crossing and branch under every pattern of the
lines, with a stack of one byte; `Calls` has only the operations that move the stack, with
room in it for a frame inside another one and for the stack pointer to wrap. In `session`
two snapshots are the least of which an instant rewind drops one and takes one back, and a
third makes the buffer be cut; one fault leaves every kind of spoiled file, and the later
saves and loads that meet it. In `scroll` the picture begins in the last column and row of
a screen, so that two columns and two lines cross both edges; rows have all their 8 lines
because fine y carries into the row, and four rows have those with palettes, those
without, and the two at the wraps. Two accesses are one write of two halves, or a whole
write and a switch of rendering. Of the boards' registers every field occurs with a bank
inside the chip, one beyond it and one with bits that the chip does not have; two lines
are one with a line before it, which the counters tell apart from the first. 36 quarter
frames are a note that decays over all 16 levels with a divider of 2. Two buttons are the
least that can come in a wrong order, and three reports of two bits (two pads and a
signature) and one read more fit into 7 reads. Seven accesses are an address (2), a write,
another address by another mirror (2) and two reads.

Fairness. The emulation thread executes cycle after cycle while the emulator runs,
so weak fairness of "some cycle" is all that liveness assumes (`Cycle`, `Execute`,
`Clock`); no fairness is assumed of the program, which may leave any register
alone for ever, nor of the user. `quiet` in the liveness of `FrameCounter` and
`VrcIrq` is the hypothesis that the program stops writing, without which it can put
the IRQ off for ever.

## The findings

Two disagreements of code with its comments and documentation are runs of their own.
`axis`: `handle_controller_axis` (`nes/event.rs:376`) reports the centre of a stick
as a press, so the buttons are not released. `four_screens`: `PpuBus::read`
(`ppu/bus.rs:154`, and in `peek` at 178) keeps ten bits of the address that the MMC3's
board gives in its own four nametables (`m004_txrom.rs:231`), and `write` (212) all of
them: all four screens read back the first one.

Other disagreements, which the modules follow the code in and no run is about:

- `apu.rs:154`: the table of the frame counter's steps is one off: quarter and half
  frames come one step late, as `FrameCounter::clock` counts steps from 0 and
  `clock_frame_counter` from 1.
- `mapper/vrc_irq.rs:63`: in cycle mode the prescaler gains 338 in every cycle, where
  `docs/mapper/021.txt:161` has it bypassed.
- `ppu.rs:951`: $2004 reads one past the end of a full secondary OAM.
- `ppu.rs:398`: the first tile of each line has the palette of the second.
- `ppu/bus.rs:122`: with the single screen A, addresses from $3000 to $3EFF select page
  B, where `docs/ppu/read_buffer_test_readme.txt` has them mirror $2000.
- `ppu.rs:1026`: $2007 uses the 15 bits of v as rendering leaves them; above $3FFF reads
  give 0.
- `ppu/bus.rs:228`: palettes keep eight bits of a byte.
- `ppu/bus.rs:212`: with four screens of the MMC3, a write from $3000 on is past the end
  of the memory and panics.
- `m001_sxrom.rs:281`: a reset changes the mirroring, but nobody calls
  `update_mirroring`; and the reset bit of a write sets the control register without
  `update_banks`.
- `m024_m026_vrc6.rs`: writes to CIRAM are dropped when its style has four screens; the
  saw's accumulator overflows its byte for rates over 42; `Vrc6Audio::reset` keeps the
  channels.
- `m005_exrom.rs`: RAM shown from $8000 on is always the page of the fifth slot;
  16 and 32 KB banks that are not aligned run past the chip (`mem.rs:158` asserts they
  do not); the first tile of a line in extended attribute mode uses the cell of the
  tile before; `last_chr_write` is never assigned; a reset leaves the sound as it is.
- `bus.rs:419`: `prg_ram_protect` is false at power-up, against the comment at
  `m005_exrom.rs:853`, and survives the loading of another game; so do the nametables,
  the palettes and the cheat codes.
- `apu/noise.rs:147`: the feedback lands in bit 13 and `Noise::reset` forgets the region.
- `apu.rs:88` and `99`: switching the second pulse acts on the first.
- `input.rs:136`: the Four Score's signatures are lost as they are set, because
  `set_four_player` resets them; a read under the strobe gives the bit at the index, not
  the first.
- `nes/event.rs:624`: buttons let go while the game is paused stay pressed, and a loaded
  state brings its buttons with it.

## The proofs

All are for every value of the constants that the modules' named assumptions
allow; a `Spec` without fairness suffices for them.

`CpuProofs` has the proofs about `CpuDma` and about `Instructions`. The first part begins
with the channel: each operator of `Dmc` keeps its type, and lemmas say when it can raise,
keep or drop a request. Then it has one inductive invariant per concern, each over the
type invariant. Type correctness needs the bounds of the loop's locals: `oam_dma_count` is
twice `oam_offset` or one less, its parity is that of the cycle, and neither exceeds the
page. For `CopyInOrder` it is strengthened to say where OAM's address stands after a part
of the copy and what `read_val` holds between the two cycles of a pair: the invariant
speaks of the bytes before `Copied`, and the write needs to know the byte it stores. For
`SampleNeverForgotten` no more is needed than the channel's own lemma, as every path from
a full buffer to an empty one raises the request; `FetchNeverOverruns` needs that a
request in the latch means an empty buffer or a finished sample. `RequestsHaltTheCpu`
assumes that there are no resets: a reset withdraws the halt of a fetch that it leaves
pending. `CopiesAsPromised` shows that every action maps to a step of `OamTransfer` or to
a stutter. `PortsReadOnceMore` needs nothing but the order of the loop's branches.
`CopyTakesItsTime` rests on `Timing`, which weighs the cycles spent against the bytes
copied, the fetches made and the cycles that the fetch under way still takes. That no more
than one fetch can outlast the copy needs the channel again: after a stop's first three
cycles no start-up countdown is left, so what fetches next is asked for only by an emptied
buffer.

`InterruptsProofs` is about `VblankNmi` and `VrcIrq`. The NMI line's theorem rests on the
fact that flag and enable change together with it; that of the missed VBL needs
`prevent_vbl` from the early read to the next dot, and where the beam stands in between;
that of spurious IRQs that a sequence begun by an NMI finds `nmi` still set at its third
push, as nothing else clears it; that of the clocks a bound on `clock` in each half of a
cycle. `OncePerCause` counts: an edge of the line that was not polled yet still has a
cause to spare (`EdgesCaused`), and a VBL that a read prevents, which causes nothing,
finds the line down, because the flag is down outside VBL unless a reset left it up with
the NMI disabled (`FlagDown`).

In the same module, `PaceIsEven` follows from an account of the VRC's prescaler
(`Balance`: it holds a scanline, less a step for each cycle, plus a scanline for each
division). After as many divisions as a cycle has dots, what it holds differs from a
scanline by a multiple of the step, and by less than a step, hence not at all; the
cycles are then as many as a scanline has dots. `IrqPunctual` needs that the counter is
the value loaded plus the counts since (`CountedUp`).

`SpriteEvalProofs` follows the evaluation of a line that nobody interferes with. While
it fills the secondary OAM (`Fills`), the address there is that of the sprite at hand
counted among the sprites of the line (`Rank`), the bytes below it are those of the
sprites before, and nothing was lost. Once it is full, the search (`Searches`) has
missed every sprite after the last that fitted at the byte which its slant makes it look
at; what it finds, or that it finds nothing, is `Ninth`. The two meet in `TurnedPhase`,
when a sprite has been dealt with: another may follow, all may have been seen, or no
more fit. Because the invariant counts the writes that each phase has taken, the last dot
of the evaluation finds everything decided (`Timely`, `LastWrite`), for which the
line must be as long as `SpriteEvalAssumption` says.

`ScrollProofs` treats an address as a number whose digits are its fields, so that each
operation of `PpuScroll` changes the fields it should and no other. `Row` of a line is
then the row below that of the line before (`NextRow`), and so is where `IncrementY` goes
(`RowBelow`); `IncrementX` goes from one tile of a line to the next (`TileRight`). The
invariant says that `t` holds what the program asked for (`Asks`), and in an undisturbed
picture that `v` is at the row of the line that is fetched (`InY`) and at the tile that is
due (`InX`), that `tile`, `next_palette` and so on belong to that tile or to the one
before it, and that position i of the shift registers, s dots into a tile, holds the pixel
i + s of the two tiles before it (`Lanes`). A dot of the picture, of the border, of the
sprites, of the prefetch and of the dummy fetches each keep it; the pixel at `x` of the
shift registers is then the one of `Column` and `Row`. What the first tile's palette is
follows from the dummy fetches: they load into the shift registers what is there already
but move the palettes on, and `PaletteOf` is the exception that this makes. The widths
need only be what `ScrollAssumption` says: a tile is at least four dots.

`FrameCounterProofs` has one invariant for all: the write waits between 1 and 4
cycles if there is one, the step's cycles are positive, `elapsed` and `cycles` add
up to the end of the step in the table while the region has not changed, and the
tallies are those of the steps gone by. A restart in five-step mode counts its
immediate frames, which is why every sequence that ends has four and two.

`SessionProofs` has one invariant per concern. For `OwnFilesAlways` the files are
not enough: what is written is the machine, so `Named` says that the name loaded is
that of the machine's game, unless `mixed`. `RewindGoesBackAlways` needs that the
whole buffer is of the machine's game and newest first, as any of its snapshots may
come back; lemmas say what pushing, cutting and popping do to a sequence. That of
quitting rests on the outcomes of a save alone.

The second part of `CpuProofs` first sorts the 221 rows of the table into kinds (`Reader`,
`Modifier` and so on) and says of each kind what every one of its cycles does; nothing
after that looks at a row. `ShapeHolds` is where in its sequence the CPU can be; that
each instruction takes its time follows from the length of its sequence alone. For the
IRQ, `Masking` says that a latched IRQ finds IRQs enabled unless the cycle before
changed the flag, and `Waiting` that an IRQ that waited one instruction is latched. That
the instructions are a program as `BusCycles` allows rests on `BusAt`, how many reads
and writes lie behind each step: with it the promise on which the first part rests is
proved, not assumed. `ReturnsWhereItCameFrom` needs that the bytes of every frame that
is remembered lie where its return will look for them (`Framed`), for a stack of any
size that wraps, and for the halves of a frame that is being pushed or an address that
is being popped `Pending`. The stack's assumption is that a program which remembers
frames has room for one.

`BoardsProofs` has an invariant for each promise of `Boards`. `BoardTyped` has the
fields of each board and that every window shows a page of its chip, which is
`PagesExist`; a board with windows in ranges needs for it that the ranges divide its
chip. `PortInv` says that the MMC1's shift register is the bits sent so far under a
marker that arrives at bit 0 with the fifth. For the MMC3, `IrqInv` says what its counter
is after so many lines since the reload, and which table the last fetch was from
(`TableInv`): one line has exactly one rising edge, at the sprites or after them, only
because the last fetch of each group of tiles is known. For the MMC5, `LineInv` says that
its line is that of the picture, for which the address seen last must not look like a
third equal one before the line ends; `ExTilesInv` counts the fetches of an undisturbed
line, since the board tells sprites from background by that count. `LatchInv` says that
the MMC2's latches are the special tiles seen last. `CalmInv` and `PlainInv` say that
undisturbed lines are lines of a picture and that the other boards promise no tile. The
theorems are for pictures, lines and chips of any size. `BoardsAssumption` names what
is asked of a cartridge: settings of the PPU that are bits, patterns counted in 8 KB,
programs that the board's ranges of windows divide, and for the MMC3 the addresses that
it tells apart. A page is a remainder, which is what the code's mask computes for chips
of a power of two pages, as `Banks` says.

`DevicesProofs` has the theorems of the four parts of `Devices`; a step of one part
leaves the invariants of the others alone. `PadsInv` says how many bits each pad behind a
port has told after so many reads, by adapter, and that every button that is down has
its key. `ChannelInv` has for each kind of channel the ranges of its fields, and for a
note that is followed the envelope, counter or accumulator after so many frames:
`NoteOn` gives the divider and the volume from a quotient and a remainder. That the
noise's register never becomes 0 holds for both modes of the feedback. `MemoryInv` links
each cell of the memories to what the program stored at its place, so that a read
through one mirror finds what was written through another, also after the mirroring has
changed in between; addresses, not a sample of them, are the 2^14 of the bus. The
assumptions on games say that a board with memory of its own for four screens starts
out with them, and that a board which a reset changes never has four screens.

Only checked with TLC: liveness under fairness, which TLAPS cannot prove, `NmiTaken`
among it. Some theorems are about properties that no run lists,
because the proof says more than a run would: the type invariants, `SampleGoesOn`,
`IrqMeansFinished`, `RequestHalts`, `NoSpuriousIrq`, `InStep`, `IrqNotEarly`,
`NeverWraps`, `InhibitHolds`, `OffIsSilent`, `EvenPace`, `WithinScanline`,
`PlayingRuns`, `ForeignKept`, and the invariants `Shape`, `StackInv`, `DeviceInv` and the
`IInv` of `Scroll`.

## Not modelled

See the components in `PROJECT.json`. The values of A, X, Y and of the flags other than
I are arithmetic that the repository's test ROMs cover. Priority and clipping of
pixels, sound samples, filters and windows are data without control, or floating point.
Headers and cheat codes are parsed in straight lines. The Zapper measures light on the
finished picture. The ring between emulation and audio device belongs to a library. The
mode that is not cycle-accurate is left out: it clocks the chips between instructions
only. Recordings and their playback are control worth modelling and are left for an
extension of `Session`, as are the regions of a running PPU for `VblankNmi`. What a
debug build checks on overflow is mentioned where a module meets it.
