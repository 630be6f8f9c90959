------------------------------- MODULE Scroll -------------------------------
(***************************************************************************)
(* The background: the registers $2000, $2005 and $2006 that scroll it     *)
(* (src/src/ppu/scroll.rs), the fetches of its tiles and palettes dot by   *)
(* dot, the shift registers that they fill and the pixels that come out    *)
(* (src/src/ppu.rs: tick, fetch_background, pixel_color), through the      *)
(* mirroring of the nametables (src/src/ppu/bus.rs: ciram_mirror).         *)
(*                                                                         *)
(* The program uses the registers between any two dots.  What is in memory *)
(* is left out: the byte read at a place is known by the place, a pixel by *)
(* the row of the tile it is from and its position there, a palette by the *)
(* block of two by two tiles it is for.  A tile is TileWidth dots wide, as *)
(* many as its fetches need when the two bytes of its row are fetched at   *)
(* once and the idle dots are left out; the fetches for sprites take the   *)
(* time of one tile.                                                       *)
(***************************************************************************)
EXTENDS Integers, Sequences

CONSTANTS
  Cols, Rows,      (* Columns and rows of a nametable: 32 and 32, of which  *)
                   (* the last two rows hold its palettes.                  *)
  FineRows,        (* Rows of pixels in a tile: 8.                          *)
  TileWidth,       (* Dots of a tile: 8.                                    *)
  Height,          (* Lines of the picture: 240.                            *)
  Mirrorings,      (* Mirroring modes of the cartridge.                     *)
  Corners,         (* Where the picture may begin at first: a set of        *)
                   (* records with the fields nt, x and y.                  *)
  Tables,          (* Nametables that the program writes to $2000 ...       *)
  XScrolls,        (* ... columns and ...                                   *)
  YScrolls,        (* ... rows of pixels, to $2005 ...                      *)
  HiBytes,         (* ... and the halves of addresses, to $2006.            *)
  LoBytes,
  MaxAccesses      (* Bound: accesses to the registers, before a reset.     *)

ASSUME ScrollAssumption ==
  /\ Cols \in Nat /\ Cols >= 2 /\ Rows \in Nat /\ Rows >= 4 /\ Rows % 2 = 0
  /\ FineRows \in Nat /\ FineRows >= 8 /\ FineRows % 8 = 0
  /\ TileWidth \in Nat /\ TileWidth >= 4
  /\ Height \in Nat \ {0} /\ Height <= Rows * FineRows
  /\ Mirrorings \subseteq {"Vertical", "Horizontal", "SingleScreenA", "SingleScreenB"}
  /\ Corners \subseteq [nt : 0..3, x : 0..(Cols * TileWidth - 1), y : 0..(Rows * FineRows - 1)]
  /\ Tables \subseteq 0..3
  /\ XScrolls \subseteq 0..(Cols * TileWidth - 1) /\ YScrolls \subseteq 0..(Rows * FineRows - 1)
  /\ HiBytes \subseteq Nat /\ LoBytes \subseteq Nat
  /\ MaxAccesses \in Nat

VARIABLES
  mirroring,       (* PpuBus::mirror_shift, by name.                        *)
  line, dot,       (* Ppu::scanline and Ppu::cycle.                         *)
  reset_signal,
  rendering,       (* rendering_enabled(), by means of the background.      *)
  v, t, x,         (* PpuScroll                                             *)
  write_latch,
  tile_addr, tile, (* The row of a tile to be fetched, and fetched last.    *)
  tile_shift,      (* The shift registers: of every position the pixels     *)
                   (* that were put there, one over the other.              *)
  prev_palette, curr_palette, next_palette,
  pixel            (* What render_pixel drew at this dot.                   *)

VARIABLES          (* History, for the properties only. *)
  want,            (* Where the program asked the picture to begin.         *)
  second,          (* It wrote $2005 or $2006 once, and the half is due.    *)
  column, top,     (* Where this line and this picture began.               *)
  steady,          (* Since this picture began, nobody moved the PPU on.    *)
  accesses         (* Accesses and resets so far.                           *)

beam      == <<line, dot>>
registers == <<v, t, x, write_latch>>
fetches   == <<tile_addr, tile, tile_shift, prev_palette, curr_palette, next_palette>>
asked     == <<want, second, column, top, steady>>
vars == <<mirroring, beam, reset_signal, rendering, registers, fetches, pixel, asked, accesses>>

(* The dots of a line. *)
VisibleEnd    == Cols * TileWidth
SprFetchStart == VisibleEnd + 1
SprFetchEnd   == VisibleEnd + TileWidth
PrefetchStart == SprFetchEnd + 1
PrefetchEnd   == SprFetchEnd + 2 * TileWidth
CycleEnd      == PrefetchEnd + 2

(* The lines: those of the picture, one for VBL and those around it, and   *)
(* the prerender line.                                                     *)
Prerender == Height + 1

-----------------------------------------------------------------------------
(* An address of video memory as PpuScroll sees it.                        *)

Cells      == Cols * Rows
CoarseX(a) == a % Cols
CoarseY(a) == (a \div Cols) % Rows
NtX(a)     == (a \div Cells) % 2
NtY(a)     == (a \div (2 * Cells)) % 2
FineY(a)   == a \div (4 * Cells)

Addr(fine_y, nt_y, nt_x, coarse_y, coarse_x) ==
  coarse_x + Cols * (coarse_y + Rows * (nt_x + 2 * (nt_y + 2 * fine_y)))

(* ADDR_MIRROR drops the topmost bit. *)
AddrMirror(a) == a % (2 * FineRows * Cells)

Increment(a) == AddrMirror(a + 1)

IncrementX(a) ==
  IF CoarseX(a) = Cols - 1 THEN Addr(FineY(a), NtY(a), 1 - NtX(a), CoarseY(a), 0) ELSE a + 1

(* Mutant: the rows of palettes switch to the next nametable as well. *)
IncrementYOver(a) ==
  IF FineY(a) < FineRows - 1 THEN a + 4 * Cells
  ELSE IF CoarseY(a) \in {Rows - 3, Rows - 1} THEN Addr(0, 1 - NtY(a), NtX(a), 0, CoarseX(a))
  ELSE Addr(0, NtY(a), NtX(a), CoarseY(a) + 1, CoarseX(a))

IncrementY(a) ==
  IF FineY(a) < FineRows - 1 THEN a + 4 * Cells
  ELSE IF CoarseY(a) = Rows - 3 THEN Addr(0, 1 - NtY(a), NtX(a), 0, CoarseX(a))
  ELSE IF CoarseY(a) = Rows - 1 THEN Addr(0, NtY(a), NtX(a), 0, CoarseX(a))
  ELSE Addr(0, NtY(a), NtX(a), CoarseY(a) + 1, CoarseX(a))

CopyX(a) == Addr(FineY(a), NtY(a), NtX(t), CoarseY(a), CoarseX(t))
CopyY(a) == Addr(FineY(t), NtY(t), NtX(a), CoarseY(t), CoarseX(a))

(* The page of CIRAM that the nametables of an address are in.             *)
Page(nt_x, nt_y) ==
  CASE mirroring = "Vertical"      -> nt_x
    [] mirroring = "Horizontal"    -> nt_y
    [] mirroring = "SingleScreenA" -> 0
    [] mirroring = "SingleScreenB" -> 1

(* The row of a tile that v selects, by way of the byte of its nametable,  *)
(* and its palette, by way of the attribute byte and the shift.            *)
TileRow == [page |-> Page(NtX(v), NtY(v)), row |-> CoarseY(v), col |-> CoarseX(v), fine_y |-> FineY(v)]
Palette == [page |-> Page(NtX(v), NtY(v)), row |-> CoarseY(v) \div 2, col |-> CoarseX(v) \div 2]

-----------------------------------------------------------------------------
(* One dot: Ppu::tick. *)

RenderLine == line < Height \/ line = Prerender

Shows(d)    == d \in 1..VisibleEnd
Fetches(d)  == Shows(d) \/ d \in PrefetchStart..PrefetchEnd
SprDot(d)   == d \in SprFetchStart..SprFetchEnd
DummyDot(d) == d > PrefetchEnd

(* fetch_bg_nt_byte, which also puts the tile fetched before into the low  *)
(* half of the shift registers. *)
FetchesNt(d) == ((Fetches(d) \/ SprDot(d)) /\ d % TileWidth = 1) \/ DummyDot(d)

FetchesAttr(d) == (Fetches(d) \/ SprDot(d)) /\ d % TileWidth = 2
FetchesTile(d) == Fetches(d) /\ d % TileWidth = 3

Loaded(shift) ==
  [i \in 1..(2 * TileWidth) |->
     IF i <= TileWidth THEN shift[i] ELSE shift[i] \union {<<tile, i - TileWidth - 1>>}]

Shifted(shift) == Append(Tail(shift), {})

(* pixel_color, of a background without clipping. *)
Pixel(d, shift, prev, curr) ==
  [pattern |-> shift[x + 1], palette |-> IF x + ((d - 1) % TileWidth) < TileWidth THEN prev ELSE curr]

(* What becomes of v: Coarse X goes on after every tile and Y after the    *)
(* line; then X is copied, and on the prerender line Y as well.            *)
MovedX(d) == IF Fetches(d) /\ d % TileWidth = 0 THEN IncrementX(v) ELSE v

CopiesX(d) == d = SprFetchStart

CopiesY(d) == line = Prerender /\ d \in (SprFetchStart + 1)..(SprFetchEnd - 1)

Moved(d) ==
  IF d = VisibleEnd THEN IncrementY(MovedX(d))
  ELSE IF CopiesX(d) THEN CopyX(v)
  ELSE IF CopiesY(d) THEN CopyY(v)
  ELSE MovedX(d)

Begins(d) ==
  /\ column' = IF CopiesX(d) THEN [nt |-> want.nt, x |-> want.x] ELSE column
  /\ top'    = IF CopiesY(d) THEN [nt |-> want.nt, y |-> want.y] ELSE top
  /\ steady' = IF line = Prerender /\ CopiesX(d) THEN TRUE ELSE steady

(* What rendering does at dot d. *)
Render(d) ==
  LET working == rendering /\ RenderLine
      nt    == working /\ FetchesNt(d)
      shift == IF nt THEN Loaded(tile_shift) ELSE tile_shift
      prev  == IF nt THEN curr_palette ELSE prev_palette
      curr  == IF nt THEN next_palette ELSE curr_palette
  IN /\ tile_addr'    = IF nt THEN TileRow ELSE tile_addr
     /\ prev_palette' = prev
     /\ curr_palette' = curr
     /\ next_palette' = IF working /\ FetchesAttr(d) THEN Palette ELSE next_palette
     /\ tile'         = IF working /\ FetchesTile(d) THEN tile_addr ELSE tile
     /\ pixel'        = IF Shows(d) /\ line < Height THEN {Pixel(d, shift, prev, curr)} ELSE {}
     /\ tile_shift'   = IF Fetches(d) THEN Shifted(shift) ELSE shift
     /\ v'            = IF working THEN Moved(d) ELSE v
     /\ IF working THEN Begins(d) ELSE UNCHANGED <<column, top, steady>>

(* Every other picture of an NTSC PPU lacks the last dot of the prerender  *)
(* line.                                                                   *)
SkipsLast == line = Prerender /\ rendering /\ dot + 1 = CycleEnd - 1

Dot ==
  /\ dot < CycleEnd
  /\ \/ dot' = dot + 1
     \/ SkipsLast /\ dot' = CycleEnd
  /\ Render(dot + 1)
  /\ reset_signal' = (reset_signal /\ ~(line = Prerender /\ dot = 0))
  /\ UNCHANGED <<mirroring, line, rendering, t, x, write_latch, want, second, accesses>>

NextLine ==
  /\ dot = CycleEnd
  /\ dot' = 0
  /\ line' = IF line = Prerender THEN 0 ELSE line + 1
  /\ pixel' = {}
  /\ UNCHANGED <<mirroring, reset_signal, rendering, registers, fetches, asked, accesses>>

-----------------------------------------------------------------------------
(* The registers. *)

Access == accesses < MaxAccesses /\ accesses' = accesses + 1

Unknown == -1
Forgotten == [nt |-> Unknown, x |-> Unknown, y |-> Unknown]

(* $2000: write_ctrl, write_nametable_select. *)
WriteCtrl(nt) ==
  /\ Access
  /\ ~reset_signal
  /\ t' = Addr(FineY(t), nt \div 2, nt % 2, CoarseY(t), CoarseX(t))
  /\ want' = [want EXCEPT !.nt = nt]
  /\ pixel' = {}
  /\ UNCHANGED <<mirroring, beam, reset_signal, rendering, v, x, write_latch, fetches,
                 second, column, top, steady>>

(* $2001: write_mask.  Switching rendering back on is not bounded. *)
WriteMask ==
  /\ IF rendering THEN Access ELSE UNCHANGED accesses
  /\ ~reset_signal
  /\ rendering' = ~rendering
  /\ steady' = FALSE
  /\ pixel' = {}
  /\ UNCHANGED <<mirroring, beam, reset_signal, registers, fetches, want, second, column, top>>

(* $2002: read_status, reset_latch. *)
ReadStatus ==
  /\ Access
  /\ write_latch' = FALSE
  /\ second' = FALSE
  /\ pixel' = {}
  /\ UNCHANGED <<mirroring, beam, reset_signal, rendering, v, t, x, fetches, want, column, top, steady>>

(* $2005: write_scroll, PpuScroll::write.  The byte is a column of pixels  *)
(* if the latch is off, and a row of them otherwise.                       *)
WriteX(val) ==
  /\ t' = Addr(FineY(t), NtY(t), NtX(t), CoarseY(t), val \div TileWidth)
  /\ x' = val % TileWidth

WriteY(val) ==
  /\ t' = Addr(val % FineRows, NtY(t), NtX(t), (val \div FineRows) % Rows, CoarseX(t))
  /\ UNCHANGED x

WriteScroll(val) ==
  /\ Access
  /\ ~reset_signal
  /\ IF write_latch THEN val \in YScrolls /\ WriteY(val) ELSE val \in XScrolls /\ WriteX(val)
  /\ write_latch' = ~write_latch
  /\ want' = IF second THEN [want EXCEPT !.y = val] ELSE [want EXCEPT !.x = val]
  /\ second' = ~second
  /\ pixel' = {}
  /\ UNCHANGED <<mirroring, beam, reset_signal, rendering, v, fetches, column, top, steady>>

(* $2006: write_addr, PpuScroll::write_addr. *)
LoValues == Cells \div 4
HiPart(val) == LoValues * val + (t % LoValues)
LoPart(val) == LoValues * (t \div LoValues) + val

WriteAddr(val) ==
  /\ Access
  /\ ~reset_signal
  /\ IF write_latch
     THEN val \in LoBytes /\ t' = LoPart(val) /\ v' = AddrMirror(LoPart(val))
     ELSE val \in HiBytes /\ t' = HiPart(val) /\ UNCHANGED v
  /\ write_latch' = ~write_latch
  /\ second' = ~second
  /\ want' = Forgotten
  /\ steady' = (steady /\ ~second)
  /\ pixel' = {}
  /\ UNCHANGED <<mirroring, beam, reset_signal, rendering, x, fetches, column, top>>

(* $2007: read_data and write_data, increment_vram_addr. *)
AccessData ==
  /\ Access
  /\ v' = IF rendering /\ RenderLine THEN IncrementY(IncrementX(v)) ELSE Increment(v)
  /\ steady' = FALSE
  /\ pixel' = {}
  /\ UNCHANGED <<mirroring, beam, reset_signal, rendering, t, x, write_latch, fetches,
                 want, second, column, top>>

(* Ppu::reset.  A soft reset leaves v and the registers for fetches alone. *)
(* Bound: none of the accesses left is made after it.                      *)
Reset(hard) ==
  /\ accesses < MaxAccesses /\ accesses' = MaxAccesses
  /\ line' = 0 /\ dot' = 0
  /\ reset_signal' = TRUE
  /\ rendering' = FALSE
  /\ v' = IF hard THEN 0 ELSE v
  /\ t' = 0 /\ x' = 0 /\ write_latch' = FALSE
  /\ pixel' = {}
  /\ want' = [nt |-> 0, x |-> 0, y |-> 0]
  /\ second' = FALSE /\ steady' = FALSE
  /\ UNCHANGED <<mirroring, fetches, column, top>>

-----------------------------------------------------------------------------
(* The program has set a corner of the picture and switched rendering on,  *)
(* and the PPU is about to begin a picture.                                *)
CornerAddr(c) ==
  Addr(c.y % FineRows, c.nt \div 2, c.nt % 2, c.y \div FineRows, c.x \div TileWidth)

NoTile == [page |-> 0, row |-> 0, col |-> 0, fine_y |-> 0]
NoPalette == [page |-> 0, row |-> 0, col |-> 0]

Init ==
  /\ mirroring \in Mirrorings
  /\ line = Prerender /\ dot = 0 /\ reset_signal = FALSE /\ rendering = TRUE
  /\ \E c \in Corners :
       /\ want = c /\ t = CornerAddr(c) /\ x = c.x % TileWidth
  /\ v = 0 /\ write_latch \in BOOLEAN /\ second = write_latch
  /\ tile_addr = NoTile /\ tile = NoTile
  /\ tile_shift = [i \in 1..(2 * TileWidth) |-> {}]
  /\ prev_palette = NoPalette /\ curr_palette = NoPalette /\ next_palette = NoPalette
  /\ pixel = {}
  /\ steady = FALSE /\ accesses = 0
  /\ column = [nt |-> 0, x |-> 0] /\ top = [nt |-> 0, y |-> 0]

Next ==
  \/ Dot \/ NextLine
  \/ \E nt \in Tables : WriteCtrl(nt)
  \/ WriteMask
  \/ ReadStatus
  \/ \E val \in XScrolls \union YScrolls : WriteScroll(val)
  \/ \E val \in HiBytes \union LoBytes : WriteAddr(val)
  \/ AccessData
  \/ \E hard \in BOOLEAN : Reset(hard)

Spec == Init /\ [][Next]_vars

-----------------------------------------------------------------------------
(* The world that the program scrolls over: two by two screens, repeated   *)
(* without end, below each of which hide its palettes, as rows that show   *)
(* only if the picture begins in them.                                     *)
ScreenRows == (Rows - 2) * FineRows

Row(n) ==
  LET y == top.y + n
      nt_y == top.nt \div 2
      below(p) == [nt_y |-> (nt_y + p \div ScreenRows) % 2, y |-> p % ScreenRows]
  IN IF top.y < ScreenRows THEN below(y)
     ELSE IF y < Rows * FineRows THEN [nt_y |-> nt_y, y |-> y]
     ELSE below(y - Rows * FineRows)

Column(d) ==
  LET p == TileWidth * (column.x \div TileWidth) + x + d - 1
  IN [nt_x |-> (column.nt + p \div VisibleEnd) % 2, x |-> p % VisibleEnd]

Judged == steady /\ pixel # {} /\ column.nt # Unknown /\ column.x # Unknown /\ top.nt # Unknown /\ top.y # Unknown

PatternInPlace ==
  Judged =>
    LET c == Column(dot)
        r == Row(line)
    IN \A p \in pixel :
         p.pattern = {<<[page   |-> Page(c.nt_x, r.nt_y),
                         row    |-> r.y \div FineRows,
                         col    |-> c.x \div TileWidth,
                         fine_y |-> r.y % FineRows], c.x % TileWidth>>}

PaletteInPlace ==
  Judged =>
    LET first == x + dot - 1 < TileWidth
        c == Column(IF first THEN dot + TileWidth ELSE dot)
        r == Row(line)
    IN \A p \in pixel :
         p.palette = [page |-> Page(c.nt_x, r.nt_y),
                      row  |-> (r.y \div FineRows) \div 2,
                      col  |-> (c.x \div TileWidth) \div 2]

(* As long as the program leaves v and rendering alone, every pixel of the *)
(* picture is that of the world at its place: right of the column that the *)
(* program had last set when the line began, below the row it had set when *)
(* the picture began, across the edges of the screens, and on the page     *)
(* that the mirroring gives.  A fine scroll takes effect at once.  It has  *)
(* the palette of its block as well, except in the first tile of the line, *)
(* which the code draws with the palette of the second (Ppu::tick and      *)
(* pixel_color over PpuScroll).                                            *)
PictureInPlace == PatternInPlace /\ PaletteInPlace

=============================================================================
