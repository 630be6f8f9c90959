----------------------------- MODULE VideoMemory -----------------------------
(***************************************************************************)
(* The memory of the PPU as a program uses it while no picture is drawn:   *)
(* the patterns, the nametables with their mirrors and the palettes        *)
(* (src/src/ppu/bus.rs) behind the address of $2006 and the one port of    *)
(* $2007 with its read buffer (src/src/ppu.rs), while the board changes    *)
(* the mirroring, the console is reset, and other games are loaded.        *)
(*                                                                         *)
(* Addresses are the real ones.  A memory is a function of the places that *)
(* were written to; all others hold the 0 they began with.  Colours have   *)
(* six bits, so that the open bus, which adds two, is left out.  Accesses  *)
(* while a picture is drawn, the rest of the latch's uses and $2005 are in *)
(* Scroll, the banks of the patterns in Boards.                            *)
(***************************************************************************)
EXTENDS Integers

CONSTANTS
  Games,       (* Cartridges: records of the mirroring they start with, the *)
               (* modes that their board can choose, the mode that a reset  *)
               (* puts it in ("Kept" for none), whether the patterns are in *)
               (* RAM, whether the board brings memory for four screens,    *)
               (* and the high and low bytes of the program's addresses.    *)
  Colours,     (* Bytes that programs write.                                *)
  RomByte(_),  (* What a pattern ROM holds at an address.                   *)
  MaxAccesses  (* Bound: accesses, resets and changes of the game.          *)

Shift == [Vertical |-> 0, Horizontal |-> 1, SingleScreenA |-> 2, SingleScreenB |-> 3, FourScreen |-> 4]

ASSUME VideoMemoryAssumption ==
  /\ \A g \in Games :
       /\ g.mirroring \in DOMAIN Shift /\ g.modes \subseteq DOMAIN Shift
       /\ g.reset \in DOMAIN Shift \cup {"Kept"}
       (* The MMC1, the one board that a reset changes, has no four screens. *)
       /\ g.reset # "Kept" => g.mirroring # "FourScreen" /\ "FourScreen" \notin g.modes
       /\ g.chr_ram \in BOOLEAN /\ g.exram \in BOOLEAN /\ (g.exram => g.mirroring = "FourScreen")
       /\ \A byte \in g.hi \union g.lo : byte \in Nat /\ byte < 256
  /\ Colours \subseteq 0..63
  /\ MaxAccesses \in Nat

VARIABLES
  game,       (* The cartridge.                                            *)
  bus,        (* PpuBus: mirroring, its mapper's; mirror_shift; and the    *)
              (* memories ciram, palette, chr_ram and exram.               *)
  port        (* Of Ppu and PpuScroll: v, t, write_latch, vram_buffer, the *)
              (* increment that $2000 chose, reset_signal.                 *)

VARIABLES     (* History, for the properties only. *)
  shown,      (* The mirroring that the board was last set to.             *)
  stored,     (* What the program stored, by the place where a console has *)
              (* it.                                                       *)
  buffered,   (* What the read buffer should hold.                         *)
  visits      (* Accesses so far.                                          *)

memory_vars == <<game, bus, port, shown, stored, buffered, visits>>

NtStart      == \h2000
NtSize       == \h400
PaletteStart == \h3F00
AddrSpace    == \h4000

At(mem, a)     == IF a \in DOMAIN mem THEN mem[a] ELSE 0
Put(mem, a, b) == [c \in DOMAIN mem \cup {a} |-> IF c = a THEN b ELSE mem[c]]
Blank          == [c \in {} |-> 0]

-----------------------------------------------------------------------------
(* PpuBus. *)

CiramMirror(addr) == NtSize * ((addr \div (NtSize * 2^bus.mirror_shift)) % 2) + (addr % NtSize)

PaletteMirror(addr) ==
  LET a == addr % 32 IN IF a >= 16 /\ a % 4 = 0 THEN a - 16 ELSE a

(* PpuBus::read.  With four screens, the MMC3's board gives the address in *)
(* its memory, of which the bus keeps ten bits.                            *)
ReadBus(addr) ==
  CASE addr < NtStart -> IF game.chr_ram THEN At(bus.chr_ram, addr) ELSE RomByte(addr)
    [] addr \in NtStart..(PaletteStart - 1) ->
         IF game.exram THEN At(bus.exram, addr % NtSize)
         ELSE IF bus.mirroring = "FourScreen" THEN 0
         ELSE At(bus.ciram, CiramMirror(addr))
    [] addr >= PaletteStart -> At(bus.palette, PaletteMirror(addr))

(* PpuBus::write. *)
WriteBus(addr, val) ==
  CASE addr < NtStart -> IF game.chr_ram THEN [bus EXCEPT !.chr_ram = Put(@, addr, val)] ELSE bus
    [] addr \in NtStart..(PaletteStart - 1) ->
         IF game.exram THEN [bus EXCEPT !.exram = Put(@, addr % \h2000, val)]
         ELSE IF bus.mirroring = "FourScreen" THEN bus
         ELSE [bus EXCEPT !.ciram = Put(@, CiramMirror(addr), val)]
    [] addr >= PaletteStart -> [bus EXCEPT !.palette = Put(@, PaletteMirror(addr), val)]

-----------------------------------------------------------------------------
(* Where a console has the byte of an address: two pages of nametables,    *)
(* arranged as the diagrams above ciram_mirror show, and repeated from     *)
(* $3000 on, where the code has page B for the single screen A.            *)
Page(mode, addr) ==
  LET screen == (addr \div NtSize) % 4
  IN CASE mode = "Vertical"      -> screen % 2
       [] mode = "Horizontal"    -> screen \div 2
       [] mode = "SingleScreenA" -> IF addr < \h3000 THEN 0 ELSE 1
       [] mode = "SingleScreenB" -> 1
       [] mode = "FourScreen"    -> screen

Place(addr) ==
  CASE addr < NtStart -> <<"pattern", addr>>
    [] addr \in NtStart..(PaletteStart - 1) ->
         IF game.exram THEN <<"board", Page("FourScreen", addr), addr % NtSize>>
         ELSE <<"screen", Page(shown, addr), addr % NtSize>>
    [] addr >= PaletteStart ->
         (* The sprites' transparent colours are those of the background. *)
         <<"palette", IF addr % 4 = 0 THEN addr % 16 ELSE addr % 32>>

HasMemory(addr) ==
  /\ addr < NtStart => game.chr_ram
  /\ addr \in NtStart..(PaletteStart - 1) => game.exram \/ bus.mirroring # "FourScreen"

Stored(addr) ==
  IF HasMemory(addr) THEN At(stored, Place(addr)) ELSE IF addr < NtStart THEN RomByte(addr) ELSE 0

(* What a read of the palettes finds under them. *)
Beneath(addr) == IF addr < PaletteStart THEN addr ELSE NtStart + (addr % (4 * NtSize))

-----------------------------------------------------------------------------
Visit == visits < MaxAccesses /\ visits' = visits + 1

(* increment_vram_addr outside a picture, PpuScroll::increment. *)
Advanced(v) == (v + port.increment) % AddrSpace

(* Mutant: a palette's colour goes to the buffer itself. *)
BehindItself(addr) == addr

(* The address whose byte goes to the buffer: under the palettes is the    *)
(* end of the last nametable.                                              *)
Behind(addr) == IF addr < PaletteStart THEN addr ELSE addr - \h1000

(* What a read of $2007 gives, and peek_data as well. *)
Answer == IF port.v < PaletteStart THEN port.vram_buffer ELSE ReadBus(port.v)

ReadData ==
  /\ Visit
  /\ port' = [port EXCEPT !.v = Advanced(@), !.vram_buffer = ReadBus(Behind(port.v))]
  /\ buffered' = Stored(Beneath(port.v))
  /\ UNCHANGED <<game, bus, shown, stored>>

(* A board with memory for four screens has none for their mirrors: the    *)
(* code would stop there.                                                  *)
WriteData(val) ==
  /\ Visit
  /\ ~(game.exram /\ port.v \in \h3000..(PaletteStart - 1))
  /\ bus' = WriteBus(port.v, val)
  /\ port' = [port EXCEPT !.v = Advanced(@)]
  /\ stored' = IF HasMemory(port.v) THEN Put(stored, Place(port.v), val) ELSE stored
  /\ UNCHANGED <<game, shown, buffered>>

(* $2006: write_addr. *)
WriteHi(val) == [port EXCEPT !.t = 256 * (val % 64) + (@ % 256), !.write_latch = TRUE]
WriteLo(val) ==
  LET t == 256 * (port.t \div 256) + val
  IN [port EXCEPT !.t = t, !.v = t % AddrSpace, !.write_latch = FALSE]

WriteVramAddr ==
  /\ Visit
  /\ ~port.reset_signal
  /\ \/ ~port.write_latch /\ \E val \in game.hi : port' = WriteHi(val)
     \/ port.write_latch /\ \E val \in game.lo : port' = WriteLo(val)
  /\ UNCHANGED <<game, bus, shown, stored, buffered>>

(* $2000, the increment and the nametable that go to the address, and the  *)
(* latch that $2002 resets.                                                *)
Screen(t, n) == (t % NtSize) + NtSize * n + 4 * NtSize * (t \div (4 * NtSize))

WriteIncrement ==
  /\ Visit
  /\ ~port.reset_signal
  /\ \E ctrl \in {[increment |-> 1, screen |-> 0], [increment |-> 32, screen |-> 2]} :
       port' = [port EXCEPT !.increment = ctrl.increment, !.t = Screen(@, ctrl.screen)]
  /\ UNCHANGED <<game, bus, shown, stored, buffered>>

ResetLatch ==
  /\ Visit
  /\ port.write_latch
  /\ port' = [port EXCEPT !.write_latch = FALSE]
  /\ UNCHANGED <<game, bus, shown, stored, buffered>>

(* The program writes to a register of its board, and CpuBus has the PPU   *)
(* take over the mirroring: update_mirroring.                              *)
WriteMirroring ==
  /\ Visit
  /\ \E mode \in game.modes :
       /\ bus' = [bus EXCEPT !.mirroring = mode, !.mirror_shift = Shift[mode]]
       /\ shown' = mode
  /\ UNCHANGED <<game, port, stored, buffered>>

(* The end of VBL, from which on a reset PPU takes writes.                 *)
StopVblank ==
  /\ port.reset_signal
  /\ port' = [port EXCEPT !.reset_signal = FALSE]
  /\ UNCHANGED <<game, bus, shown, stored, buffered, visits>>

(* Ppu::reset.  The memories stay as they are, and the board's mirroring,  *)
(* if it changes, is not taken over.                                       *)
NewPort == [v |-> 0, t |-> 0, write_latch |-> FALSE, vram_buffer |-> 0, increment |-> 1, reset_signal |-> TRUE]

ResetMemory ==
  /\ Visit
  /\ \E hard \in BOOLEAN : port' = [NewPort EXCEPT !.v = IF hard THEN 0 ELSE port.v]
  /\ bus' = [bus EXCEPT !.mirroring = IF game.reset = "Kept" THEN @ ELSE game.reset]
  /\ buffered' = 0
  /\ UNCHANGED <<game, shown, stored>>

(* load_cart, and the hard reset after it: the nametables and palettes of  *)
(* the game before remain.                                                 *)
Inserted(g, b) ==
  [b EXCEPT !.mirroring = IF g.reset = "Kept" THEN g.mirroring ELSE g.reset,
            !.mirror_shift = Shift[g.mirroring], !.chr_ram = Blank, !.exram = Blank]

LoadGame ==
  /\ Visit
  /\ \E g \in Games : game' = g /\ bus' = Inserted(g, bus) /\ shown' = g.mirroring
  /\ port' = NewPort
  /\ stored' = [p \in {q \in DOMAIN stored : q[1] \in {"screen", "palette"}} |-> stored[p]]
  /\ buffered' = 0

-----------------------------------------------------------------------------
NewBus == [mirroring |-> "Horizontal", mirror_shift |-> 1, ciram |-> Blank, palette |-> Blank,
           chr_ram |-> Blank, exram |-> Blank]

MemoryInit(g) ==
  /\ game = g
  /\ bus = Inserted(g, NewBus)
  /\ port = NewPort
  /\ shown = g.mirroring /\ stored = Blank /\ buffered = 0
  /\ visits = 0

MemoryNext ==
  \/ ReadData
  \/ \E val \in Colours : WriteData(val)
  \/ WriteVramAddr \/ WriteIncrement \/ ResetLatch
  \/ WriteMirroring \/ StopVblank \/ ResetMemory \/ LoadGame

-----------------------------------------------------------------------------
Due == IF port.v < PaletteStart THEN buffered ELSE Stored(port.v)

(* Whatever the program wrote, through whichever mirror, before and after  *)
(* changes of the mirroring, increments that wrap around, resets and other *)
(* games: a read of $2007 gives the byte that the address of the read      *)
(* before had then, below the palettes the one under them, and of the      *)
(* palettes the colour itself (Ppu::read_data, PpuBus::read and write).    *)
PortInOrder == ~game.exram => Answer = Due

(* The same of a board that brings memory for four screens: "each slot has *)
(* its own unique nametable" (docs/mapper/__ READ THIS FIRST __.txt:58,    *)
(* PpuBus::read).                                                          *)
FourUniqueScreens == game.exram => Answer = Due
=============================================================================
