-------------------------------- MODULE Mmc5 --------------------------------
(***************************************************************************)
(* Exrom: the MMC5 (src/src/mapper/m005_exrom.rs), without its sound       *)
(* channels.  It watches the bus of the PPU: three equal nametable fetches *)
(* in a row are the end of a line, and from there it counts the fetches of *)
(* patterns to tell the background's from the sprites'.                    *)
(*                                                                         *)
(* A fetch is a record.  Of the nametables: the cell that is fetched, and  *)
(* whether the address lies among the palettes (is_attr).  Of the          *)
(* patterns: the table.  The contents of the extended RAM are not          *)
(* modelled, only which cell of it is used.                                *)
(***************************************************************************)
EXTENDS Banks

CONSTANTS SprFetchStart, (* Fetches of the background's patterns: 64.       *)
          SprFetchEnd    (* ... and of the sprites', plus one: 81.          *)

ASSUME Mmc5Assumption ==
  SprFetchStart \in Nat /\ SprFetchEnd \in Nat /\ SprFetchStart < SprFetchEnd

NoCell == <<"none", 0>>                  (* prev_addr 0x0000 and 0xFFFF      *)

-----------------------------------------------------------------------------
(* Program banks.  Register 0 is $5113, register 4 is $5117; bit 7 of a    *)
(* register chooses the ROM.                                               *)

RomChosen(bank) == Bit(bank, 7)

SetPrgBankRange(m, first, last, bank) ==
  IF RomChosen(bank) THEN [m EXCEPT !.prg = SetRange(m.prg, first, last, bank % 128)]
  ELSE [m EXCEPT !.ram = SetRange(m.ram, first + 1, last + 1, bank % 128)]

UpdatePrg(m) ==
  LET b    == m.prg_banks
      m0   == [m EXCEPT !.ram = SetBank(m.ram, 0, b[0])]
      two  == SetPrgBankRange(m0, 0, 1, b[2])
      last(n) == [n EXCEPT !.prg = SetBank(n.prg, 3, b[4] % 128)]
  IN CASE m.prg_mode = 0 -> [m0 EXCEPT !.prg = SetRange(m0.prg, 0, 3, b[4])]
       [] m.prg_mode = 1 -> [two EXCEPT !.prg = SetRange(two.prg, 2, 3, b[4] % 128)]
       [] m.prg_mode = 2 -> last(SetPrgBankRange(two, 2, 2, b[3]))
       [] m.prg_mode = 3 -> last(SetPrgBankRange(SetPrgBankRange(SetPrgBankRange(
                                   m0, 0, 0, b[1]), 1, 1, b[2]), 2, 2, b[3]))

-----------------------------------------------------------------------------
(* Pattern banks: eight registers for the sprites, and for the background  *)
(* four that count twice.                                                  *)

Registers(m, set) == IF set = "Spr" THEN m.spr_banks ELSE [w \in 0..7 |-> m.bg_banks[w % 4]]

(* A mode of 0 to 3 cuts the patterns into 1, 2, 4 or 8 windows, each of   *)
(* which the last of its registers rules.  The code joins the high bits    *)
(* with "|", which is "+" within a chip of at most 256 pages.              *)
UpdateChr(m, set) ==
  LET size == 2^(3 - m.chr_mode)
      bank(w) == LET r == size * (w \div size) + size - 1
                 IN ((m.chr_hi + size * Registers(m, set)[r]) % m.chr.pages) + (w % size)
  IN [m EXCEPT !.chr.page = [w \in 0..7 |-> bank(w)]]

-----------------------------------------------------------------------------
(* Status of the PPU as the board sees it. *)

ExAttr(m) == m.exram_mode = 1
SprFetch(m) == m.fetch_count \in SprFetchStart..(SprFetchEnd - 1)

LoadMmc5(cart) ==
  LET rom == NewBanks(4, cart.prg)
      regs == [prg_mode |-> 3, chr_mode |-> 3, exram_mode |-> 0, select |-> <<0, 0, 0, 0>>,
               prg_banks |-> [r \in 0..4 |-> IF r = 4 THEN 128 + LastPage(rom) ELSE 0],
               spr_banks |-> [w \in 0..7 |-> 0], bg_banks |-> [w \in 0..3 |-> 0], chr_hi |-> 0,
               irq_scanline |-> 0, irq_enabled |-> FALSE, protect |-> <<0, 0>>]
      status == [fetch_count |-> 0, prev_addr |-> NoCell, prev_match |-> 0, tall |-> FALSE,
                 rendering |-> FALSE, scanline |-> 0, in_frame |-> FALSE]
      board == [kind |-> "Exrom", mirroring |-> cart.mirroring, irq_pending |-> FALSE,
                tile_cache |-> NoCell, chr |-> NewBanks(8, cart.chr), prg |-> rom,
                ram |-> NewBanks(5, cart.ram)]
      all == DOMAIN regs \cup DOMAIN status \cup DOMAIN board
  IN UpdatePrg([f \in all |-> IF f \in DOMAIN regs THEN regs[f]
                              ELSE IF f \in DOMAIN status THEN status[f] ELSE board[f]])

(* The line that is recognised: the first in the frame or the next one.    *)
NextLine(m) ==
  IF m.in_frame
  THEN [m EXCEPT !.scanline = @ + 1, !.irq_pending = @ \/ m.scanline + 1 = m.irq_scanline,
                 !.fetch_count = 0]
  ELSE [m EXCEPT !.in_frame = TRUE, !.scanline = 0, !.fetch_count = 0]

(* Mutant: two equal fetches are enough. *)
DetectsEarly(m, r) ==
  LET matched == ~r.attr /\ r.cell = m.prev_addr
      counted == [m EXCEPT !.prev_match = IF matched THEN @ + 1 ELSE 0]
  IN [(IF matched /\ m.prev_match < 2 THEN NextLine(counted) ELSE counted) EXCEPT !.prev_addr = r.cell]

Detects(m, r) ==
  LET matched == ~r.attr /\ r.cell = m.prev_addr
      counted == [m EXCEPT !.prev_match = IF matched THEN @ + 1 ELSE 0]
  IN [(IF matched /\ m.prev_match = 1 THEN NextLine(counted) ELSE counted) EXCEPT !.prev_addr = r.cell]

FetchScreen(m, r) ==
  Detects(IF ExAttr(m) /\ ~r.attr /\ ~SprFetch(m) THEN [m EXCEPT !.tile_cache = r.cell] ELSE m, r)

(* Tall sprites have banks of their own.  Counts beyond the sprites' are   *)
(* all alike.                                                              *)
FetchPattern(m) ==
  LET counted == [m EXCEPT !.fetch_count = IF @ > SprFetchEnd THEN @ ELSE @ + 1]
  IN CASE m.tall /\ counted.fetch_count = SprFetchStart -> UpdateChr(counted, "Spr")
       [] m.tall /\ counted.fetch_count = SprFetchEnd   -> UpdateChr(counted, "Bg")
       [] OTHER -> counted

(* The page that a pattern is then read from: of a cell of the extended    *)
(* RAM, in the mode that gives every cell a bank of its own, or that of a  *)
(* window.                                                                 *)
PatternSource(m, table) ==
  IF ExAttr(m) /\ ~SprFetch(m) THEN m.tile_cache ELSE <<"page", m.chr.page[4 * table]>>

(* Three clocks without a fetch of the nametables, and the program's reads *)
(* of the NMI vector, end the frame.                                       *)
LeaveFrame(m) == [m EXCEPT !.in_frame = FALSE, !.prev_addr = NoCell]

-----------------------------------------------------------------------------
(* PPUCTRL and PPUMASK, seen on the CPU's bus. *)
SeesCtrl(m, tall) == [m EXCEPT !.tall = tall]
SeesMask(m, rendering) ==
  IF rendering THEN [m EXCEPT !.rendering = TRUE]
               ELSE LeaveFrame([m EXCEPT !.rendering = FALSE])

Select(val) == [q \in 1..4 |-> (val \div 4^(q - 1)) % 4]

MirroringOf(val) ==
  CASE val = \h50 -> "Horizontal"    [] val = \h44 -> "Vertical"
    [] val = \h00 -> "SingleScreenA" [] val = \h55 -> "SingleScreenB"
    [] OTHER      -> "FourScreen"

(* last_chr_write, which a change of the mode updates, is always the       *)
(* sprites'.                                                               *)
WriteMmc5(m, addr, val) ==
  CASE addr = \h5100 -> UpdatePrg([m EXCEPT !.prg_mode = val % 4])
    [] addr = \h5101 -> UpdateChr([m EXCEPT !.chr_mode = IF ExAttr(m) THEN 1 ELSE val % 4], "Spr")
    [] addr \in {\h5102, \h5103} -> [m EXCEPT !.protect[addr - \h5101] = val % 4]
    [] addr = \h5104 -> [m EXCEPT !.exram_mode = val % 4]
    [] addr = \h5105 -> [m EXCEPT !.select = Select(val), !.mirroring = MirroringOf(val)]
    [] addr \in \h5113..\h5117 -> UpdatePrg([m EXCEPT !.prg_banks[addr - \h5113] = val])
    [] addr \in \h5120..\h5127 -> UpdateChr([m EXCEPT !.spr_banks[addr - \h5120] = val], "Spr")
    [] addr \in \h5128..\h512B -> UpdateChr([m EXCEPT !.bg_banks[addr - \h5128] = val], "Bg")
    [] addr = \h5130 -> [m EXCEPT !.chr_hi = 256 * (val % 4)]
    [] addr = \h5203 -> [m EXCEPT !.irq_scanline = val]
    [] addr = \h5204 -> [m EXCEPT !.irq_enabled = Bit(val, 7)]
    [] OTHER -> m

(* $5204 tells the IRQ and clears it. *)
ReadIrqStatus(m) == [m EXCEPT !.irq_pending = FALSE]

(* A reset sets the two modes; the banks follow with the next write.       *)
ResetMmc5(m) == [m EXCEPT !.prg_mode = 3, !.chr_mode = 3]
=============================================================================
