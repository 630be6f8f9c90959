------------------------------- MODULE Boards -------------------------------
(***************************************************************************)
(* The boards of the cartridges between the CPU's bus and the PPU's        *)
(* (src/src/mapper.rs, bus.rs, ppu/bus.rs, cart.rs): the program writes to *)
(* the registers of the board, one CPU cycle at a time, and the PPU        *)
(* fetches a picture through it, one tile or sprite at a time.             *)
(*                                                                         *)
(* A line of the picture is a number of steps: the tiles of the            *)
(* background, the sprites of the next line, the first two tiles of the    *)
(* next line, and the fetches at the end that serve nothing but to be      *)
(* recognised.  The lines that show nothing are one step.                  *)
(*                                                                         *)
(* Left out: what the memory behind the pages holds, the RAM's protection, *)
(* and accesses to $2007 while a picture is fetched.                       *)
(***************************************************************************)
EXTENDS Discrete, Mmc1, Mmc2, Mmc3, Mmc5, Vrc6, Sequences, FiniteSets

CONSTANTS
  Carts,           (* Cartridges: records of the kind of the board, the     *)
                   (* pages of its chips, its variant, and what its program *)
                   (* does: writes, pairs of an address and a value; the    *)
                   (* settings of the PPU that it uses; and what it uses:   *)
                   (* a subset of "picture", "vram", "palettes".            *)
  Values,          (* MMC1: the values that programs shift in.              *)
  Cols, Slots,     (* Tiles and sprites of a line: 32 and 8.                *)
  Lines            (* Lines of the picture: 240.                            *)

BoardKinds == {"Nrom", "Uxrom", "Cnrom", "Axrom", "Gxrom", "Bf909x", "Sxrom", "Pxrom", "Txrom", "Exrom", "Vrc6"}

ASSUME BoardsAssumption ==
  /\ Cols \in Nat \ {0} /\ Slots \in Nat \ {0} /\ Lines \in Nat \ {0}
  /\ SprFetchStart = 2 * Cols /\ SprFetchEnd = SprFetchStart + 2 * Slots + 1
  /\ \A c \in Carts :
       /\ c.kind \in BoardKinds /\ c.prg \in Nat \ {0} /\ c.chr \in Nat
       /\ c.writes \subseteq Nat \X (0..255)
       /\ \A s \in c.settings : s.bg \in {0, 1} /\ s.spr \in {0, 1} /\ s.tall \in BOOLEAN
       /\ c.kind = "Sxrom" => \A w \in c.writes : Block(w[1]) \in 8..15
       (* Of the MMC3's addresses only those that the board tells apart. *)
       /\ c.kind = "Txrom" => \A w \in c.writes : w[1] \in {\h8000, \h8001, \hA000, \hA001, \hC000, \hC001, \hE000, \hE001}
       (* Chips come in powers of two.  Headers count patterns in 8 KB; the *)
       (* boards with ranges of windows have programs of 32 KB at least.    *)
       /\ c.kind \in {"Sxrom", "Txrom", "Vrc6"} => c.chr > 0 /\ c.chr % 2 = 0
       /\ c.kind \in {"Sxrom", "Vrc6"} => c.prg % 2 = 0
       /\ c.kind = "Vrc6" => c.prg >= 4 /\ c.chr >= 8

VARIABLES
  program,         (* The cartridge.                                        *)
  mapper,          (* Mapper: the board's record.                           *)
  mirror_shift,    (* The mirroring in use, by name.                        *)
  ppu,             (* The tables of the background and of the sprites, the  *)
                   (* size of the sprites, rendering_enabled(), whether v   *)
                   (* lies in the rows that hold palettes, reset_signal.    *)
  line, step       (* Where the PPU is.                                     *)

VARIABLES          (* History, for the properties only. *)
  fresh,           (* Switched on or reset, and nothing written since.      *)
  sent, wrote,     (* MMC1: the bits sent for the next value, the values    *)
  just,            (*   sent, and whether this cycle follows a write.       *)
  calm,            (* Ends of fetched lines, 2 or more as 2, since the      *)
                   (*   program last changed a setting of the picture.      *)
  whole,           (* It changed none since this picture began.             *)
  lines,           (* MMC3: lines since the counter was to be reloaded, or  *)
                   (*   Uncounted.                                            *)
  seen,            (* MMC2: the special tile seen last in each table.       *)
  drawn            (* The pages that a tile's two bytes were read from, and *)
                   (*   the one that they should come from.                 *)

serial  == <<sent, wrote, just>>
picture == <<line, step>>
history == <<fresh, serial, calm, whole, lines, seen, drawn>>
board_vars == <<program, mapper, mirror_shift, ppu, picture, history>>

(* The steps of a line, and the lines. *)
FirstSprite == Cols
Prefetch    == Cols + Slots
Dummy       == Prefetch + 2
Vblank      == Lines
Prerender   == Lines + 1
RenderLine  == line # Vblank
Fetching    == ppu.rendering /\ RenderLine

Uncounted == 1000
NoPage  == <<"none", 0>>
Nothing == [shown |-> FALSE, lo |-> NoPage, hi |-> NoPage, want |-> NoPage]

-----------------------------------------------------------------------------
(* Dispatch to the boards.                                                 *)

Load(cart) ==
  CASE cart.kind = "Nrom"   -> LoadNrom(cart)  [] cart.kind = "Uxrom"  -> LoadUxrom(cart)
    [] cart.kind = "Cnrom"  -> LoadCnrom(cart) [] cart.kind = "Axrom"  -> LoadAxrom(cart)
    [] cart.kind = "Gxrom"  -> LoadGxrom(cart) [] cart.kind = "Bf909x" -> LoadBf909x(cart)
    [] cart.kind = "Sxrom"  -> LoadMmc1(cart)  [] cart.kind = "Pxrom"  -> LoadMmc2(cart)
    [] cart.kind = "Txrom"  -> LoadMmc3(cart)  [] cart.kind = "Exrom"  -> LoadMmc5(cart)
    [] cart.kind = "Vrc6"   -> LoadVrc6(cart)

MapWrite(m, addr, val) ==
  CASE m.kind = "Nrom"   -> m
    [] m.kind = "Uxrom"  -> WriteUxrom(m, val)
    [] m.kind = "Cnrom"  -> WriteCnrom(m, val)
    [] m.kind = "Axrom"  -> WriteAxrom(m, val)
    [] m.kind = "Gxrom"  -> WriteGxrom(m, val)
    [] m.kind = "Bf909x" -> WriteBf909x(m, addr, val)
    [] m.kind = "Sxrom"  -> WriteMmc1(m, addr, val)
    [] m.kind = "Pxrom"  -> WriteMmc2(m, addr, val)
    [] m.kind = "Txrom"  -> WriteMmc3(m, addr, val)
    [] m.kind = "Exrom"  -> WriteMmc5(m, addr, val)
    [] m.kind = "Vrc6"   -> WriteVrc6(m, addr, val)

(* The boards that take notice of the PPU's fetches or registers, with a   *)
(* program that shows a picture.                                           *)
Watches(m) == m.kind \in {"Pxrom", "Txrom", "Exrom"} /\ "picture" \in program.uses

(* map_read of an address of the nametables and of the patterns. *)
ReadScreen(m, cell, attr) ==
  IF m.kind = "Exrom" THEN FetchScreen(m, [cell |-> cell, attr |-> attr]) ELSE m

ReadPattern(m, r) ==
  CASE m.kind = "Pxrom" -> FetchMmc2(m, r)
    [] m.kind = "Txrom" -> ClockIrq(m, r.table)
    [] m.kind = "Exrom" -> FetchPattern(m)

(* The page that the byte comes from. *)
Source(m, r) ==
  CASE m.kind = "Pxrom" -> <<"page", m.chr.page[r.table]>>
    [] m.kind = "Txrom" -> <<"page", m.chr.page[4 * r.table]>>
    [] m.kind = "Exrom" -> PatternSource(ReadPattern(m, r), r.table)

ClockBoard(m) == IF m.kind = "Sxrom" THEN ClockMmc1(m) ELSE m

ResetBoard(m, hard) ==
  CASE m.kind = "Sxrom" -> ResetMmc1(m, hard)
    [] m.kind = "Pxrom" -> ResetMmc2(m)
    [] m.kind = "Txrom" -> ResetMmc3(m)
    [] m.kind = "Exrom" -> ResetMmc5(m)
    [] OTHER            -> m

-----------------------------------------------------------------------------
(* The PPU.                                                                *)

Cell(c)   == <<"cell", c>>
Palettes  == <<"palettes", 0>>

(* The bank that a tile should come from: of its table and the special     *)
(* tile before it; of its cell, or of the set of the background or of the  *)
(* sprites, where the sprites are tall.                                    *)
Wanted(set, cell, r) ==
  LET m == mapper
  IN CASE m.kind = "Pxrom" ->
            <<"page", m.latch_banks[2 * r.table + (seen[r.table] - \hFD)] % m.chr.pages>>
       [] m.kind = "Exrom" /\ set = "Bg" /\ ExAttr(m) -> cell
       [] m.kind = "Exrom" /\ ppu.tall /\ ~(set = "Bg" /\ ExAttr(m)) ->
            <<"page", UpdateChr(m, set).chr.page[4 * r.table]>>
       [] OTHER -> NoPage

(* A tile: its cell, its palette and the two bytes of its pattern. *)
FetchTile(set, cell, r, shown) ==
  LET lo == [table |-> r.table, tile |-> r.tile, row |-> r.row, hi |-> FALSE]
      hi == [table |-> r.table, tile |-> r.tile, row |-> r.row, hi |-> TRUE]
      m2 == ReadScreen(ReadScreen(mapper, cell, ppu.attr_rows), Palettes, TRUE)
      m3 == ReadPattern(m2, lo)
      want == Wanted(set, cell, r)
  IN /\ mapper' = ReadPattern(m3, hi)
     /\ drawn' = [shown |-> shown /\ want # NoPage,
                  lo |-> Source(m2, lo), hi |-> Source(m3, hi), want |-> want]
     /\ seen' = IF mapper.kind = "Pxrom" /\ r.tile # 0 /\ (r.table = 1 \/ r.row = 0)
                THEN [seen EXCEPT ![r.table] = r.tile] ELSE seen

(* The tiles that matter to the board, and the rows of them. *)
Tiles(table) ==
  [table : {table}, tile : IF mapper.kind = "Pxrom" THEN {0, \hFD, \hFE} ELSE {0},
   row : IF mapper.kind = "Pxrom" THEN {0, 1} ELSE {0}]

(* The last of the tiles fetched during a line is never shown. *)
Background ==
  /\ step < FirstSprite
  /\ \E r \in Tiles(ppu.bg) : FetchTile("Bg", Cell(step + 2), r, step < Cols - 1)

(* Tall sprites name their table; where there is no sprite, tile $FF is    *)
(* fetched.                                                                *)
SpriteTables ==
  IF ~ppu.tall THEN {ppu.spr} ELSE IF line = Prerender THEN {1} ELSE {0, 1}

Sprites ==
  /\ step \in FirstSprite..(Prefetch - 1)
  /\ \E table \in SpriteTables : \E r \in Tiles(table) : FetchTile("Spr", Cell(0), r, TRUE)

(* The board still takes the first of these tiles for a sprite when its    *)
(* cell is fetched.                                                        *)
PrefetchTile ==
  /\ step \in Prefetch..(Dummy - 1)
  /\ \E r \in Tiles(ppu.bg) :
       FetchTile("Bg", Cell(step - Prefetch), r, ~(mapper.kind = "Exrom" /\ ExAttr(mapper) /\ step = Prefetch))

DummyFetches ==
  LET Again(m) == ReadScreen(m, Cell(2), ppu.attr_rows)
  IN /\ step = Dummy
     /\ mapper' = Again(Again(Again(Again(mapper))))
     /\ UNCHANGED <<drawn, seen>>

(* The step of a line in which the line to the board rises or falls. *)
EdgeStep ==
  IF (ppu.bg = 0) = (mapper.revision # "Acc") THEN FirstSprite ELSE Prefetch

AtEdge == mapper.kind = "Txrom" /\ Fetching /\ step = EdgeStep

(* One line further, if the lines are counted. *)
CountLine ==
  lines' = IF AtEdge /\ lines # Uncounted /\ lines <= mapper.irq_latch THEN lines + 1 ELSE lines

NoFetches ==
  /\ mapper' = IF mapper.kind = "Exrom" THEN LeaveFrame(mapper) ELSE mapper
  /\ drawn' = Nothing /\ UNCHANGED seen

EndOfLine == step = Dummy \/ ~RenderLine

(* Ppu::tick, eight dots or a line of them. *)
PpuStep ==
  /\ Watches(mapper)
  /\ IF Fetching THEN Background \/ Sprites \/ PrefetchTile \/ DummyFetches ELSE NoFetches
  /\ CountLine
  /\ step' = IF EndOfLine THEN 0 ELSE step + 1
  /\ line' = IF EndOfLine THEN (line + 1) % (Lines + 2) ELSE line
  /\ calm' = CASE ~RenderLine \/ step # Dummy -> calm
               [] RenderLine /\ step = Dummy /\ ~ppu.rendering -> 0
               [] RenderLine /\ step = Dummy /\ ppu.rendering -> IF calm = 2 THEN 2 ELSE calm + 1
  /\ whole' = CASE ~RenderLine -> FALSE
                [] RenderLine /\ line = Prerender /\ step = Dummy -> ppu.rendering
                [] OTHER -> whole
  /\ ppu' = IF line = Vblank THEN [ppu EXCEPT !.reset_signal = FALSE] ELSE ppu
  /\ UNCHANGED <<program, mirror_shift, fresh, serial>>

-----------------------------------------------------------------------------
(* The program.                                                            *)

(* A setting of the picture has changed. *)
Disturbed == calm' = 0 /\ whole' = FALSE /\ lines' = Uncounted

(* MMC1: the value of the bits sent, the lowest first. *)
ValueOf(bits) == LET at(k) == IF k <= Len(bits) THEN bits[k] * 2^(k - 1) ELSE 0
                 IN at(1) + at(2) + at(3) + at(4) + at(5)

SerialPort(addr) ==
  CASE Block(addr) \in 8..9   -> "control" [] Block(addr) \in 10..11 -> "chr0"
    [] Block(addr) \in 12..13 -> "chr1"    [] Block(addr) \in 14..15 -> "prg"

(* The program sends only members of Values; the write in the cycle after  *)
(* another one is the second write of an instruction.                      *)
SendBit(addr, val) ==
  LET bits == Append(sent, val % 2)
  IN CASE just \/ mapper.kind # "Sxrom" -> just' = FALSE /\ UNCHANGED <<sent, wrote>>
       [] ~just /\ mapper.kind = "Sxrom" /\ Bit(val, 7) ->
            /\ sent' = <<>> /\ just' = TRUE
            /\ wrote' = [wrote EXCEPT !.control = (@ % 4) + 12 + 16 * Bits(@, 4, 1)]
       [] OTHER ->
            /\ \E v \in Values : v % 2^Len(bits) = ValueOf(bits)
            /\ just' = TRUE
            /\ IF Len(bits) = 5
               THEN sent' = <<>> /\ wrote' = [wrote EXCEPT ![SerialPort(addr)] = ValueOf(bits)]
               ELSE sent' = bits /\ UNCHANGED wrote

(* MMC3: lines are counted from a write to $C001 on, if the tables differ  *)
(* and the lines before were undisturbed, until the program interferes.    *)
Recount(addr) ==
  CASE addr = \hC001 ->
         IF calm = 2 /\ ppu.bg # ppu.spr /\ ~ppu.tall /\ ppu.rendering /\ ~mapper.irq_pending
         THEN 0 ELSE Uncounted
    [] addr \in {\hC000, \hE000} -> Uncounted
    [] addr = \hE001 /\ lines > mapper.irq_latch -> Uncounted
    [] OTHER -> lines

Repaints(m, addr) == m.kind = "Exrom" /\ addr \in {\h5101, \h5104, \h5130} \cup (\h5120..\h512B)

(* Bus::write to the cartridge, one CPU cycle. *)
CpuWrite ==
  \E w \in program.writes :
    /\ mapper' = MapWrite(ClockBoard(mapper), w[1], w[2])
    /\ mirror_shift' = mapper'.mirroring
    /\ fresh' = FALSE
    /\ SendBit(w[1], w[2])
    /\ lines' = IF mapper.kind = "Txrom" THEN Recount(w[1]) ELSE lines
    /\ calm' = IF Repaints(mapper, w[1]) THEN 0 ELSE calm
    /\ UNCHANGED <<program, ppu, picture, whole, seen, drawn>>

(* A CPU cycle that does not write to the cartridge. *)
IdleCycle ==
  /\ mapper.kind = "Sxrom"
  /\ mapper' = ClockBoard(mapper) /\ just' = FALSE
  /\ UNCHANGED <<program, mirror_shift, ppu, picture, fresh, sent, wrote, calm, whole, lines, seen, drawn>>

(* Bus::write to $2000 and $2001.  The board sees it too, even while the   *)
(* PPU ignores it after a reset.                                           *)
WriteCtrl ==
  /\ Watches(mapper)
  /\ \E s \in program.settings :
       /\ ppu' = IF ppu.reset_signal THEN ppu
                 ELSE [ppu EXCEPT !.bg = s.bg, !.spr = s.spr, !.tall = s.tall]
       /\ mapper' = IF mapper.kind = "Exrom" THEN SeesCtrl(mapper, s.tall) ELSE mapper
  /\ Disturbed
  /\ UNCHANGED <<program, mirror_shift, picture, fresh, serial, seen, drawn>>

WriteMask ==
  /\ Watches(mapper)
  /\ \E rendering \in BOOLEAN :
       /\ ppu' = IF ppu.reset_signal THEN ppu ELSE [ppu EXCEPT !.rendering = rendering]
       /\ mapper' = IF mapper.kind = "Exrom" THEN SeesMask(mapper, rendering) ELSE mapper
  /\ Disturbed
  /\ UNCHANGED <<program, mirror_shift, picture, fresh, serial, seen, drawn>>

(* A scroll into or out of the rows that hold palettes. *)
ScrollRows ==
  /\ mapper.kind = "Exrom" /\ "palettes" \in program.uses
  /\ ppu' = [ppu EXCEPT !.attr_rows = ~@]
  /\ Disturbed
  /\ UNCHANGED <<program, mapper, mirror_shift, picture, fresh, serial, seen, drawn>>

(* An address of the patterns comes onto the PPU's bus by $2006 or $2007:   *)
(* for the MMC2 and the MMC5 a read.                                       *)
TouchVram ==
  /\ Watches(mapper) /\ "vram" \in program.uses /\ ~Fetching
  /\ \E table \in 0..1, hi \in BOOLEAN : \E t \in Tiles(table) :
       LET r == [table |-> table, tile |-> t.tile, row |-> t.row, hi |-> hi]
       IN /\ mapper' = ReadPattern(mapper, r)
          /\ seen' = IF hi /\ t.tile # 0 /\ (table = 1 \/ t.row = 0)
                     THEN [seen EXCEPT ![table] = t.tile] ELSE seen
  /\ Disturbed
  /\ UNCHANGED <<program, mirror_shift, ppu, picture, fresh, serial, drawn>>

(* A read of $5204; if no IRQ is pending, it changes nothing. *)
ReadStatus ==
  /\ mapper.kind = "Exrom" /\ mapper.irq_pending
  /\ mapper' = ReadIrqStatus(mapper)
  /\ UNCHANGED <<program, mirror_shift, ppu, picture, history>>

ResetPpu ==
  [bg |-> 0, spr |-> 0, tall |-> FALSE, rendering |-> FALSE, attr_rows |-> FALSE, reset_signal |-> TRUE]

NothingSeen == [table \in 0..1 |-> \hFD]

(* Bus::reset.  The PPU is not told of a mirroring that the reset changes. *)
Reset ==
  /\ ~fresh
  /\ \E hard \in BOOLEAN :
       /\ mapper' = ResetBoard(mapper, hard) /\ just' = (just /\ ~hard)
       /\ ppu' = [ResetPpu EXCEPT !.attr_rows = ppu.attr_rows /\ ~hard]
  /\ line' = 0 /\ step' = 0
  /\ fresh' = TRUE
  /\ sent' = <<>> /\ wrote' = [wrote EXCEPT !.control = DefaultPrgMode, !.prg = PrgRamDisabled]
  /\ seen' = NothingSeen /\ drawn' = Nothing
  /\ Disturbed
  /\ UNCHANGED <<program, mirror_shift>>

-----------------------------------------------------------------------------
(* The state after load_cart and the hard reset that follows. *)
BoardInit(cart) ==
  /\ program = cart
  /\ mapper = ResetBoard(Load(cart), TRUE)
  /\ mirror_shift = Load(cart).mirroring
  /\ ppu = ResetPpu
  /\ line = 0 /\ step = 0
  /\ fresh = TRUE
  /\ sent = <<>> /\ just = FALSE
  /\ wrote = [control |-> DefaultPrgMode, chr0 |-> 0, chr1 |-> 0, prg |-> PrgRamDisabled]
  /\ calm = 0 /\ whole = FALSE /\ lines = Uncounted
  /\ seen = NothingSeen /\ drawn = Nothing

BoardNext ==
  \/ CpuWrite \/ IdleCycle \/ WriteCtrl \/ WriteMask \/ ScrollRows \/ TouchVram
  \/ ReadStatus \/ Reset \/ PpuStep

-----------------------------------------------------------------------------
(* What the boards promise.                                                *)

(* Whatever the program writes to a board other than the MMC5, every       *)
(* window of the program and of the patterns shows a page that the chip    *)
(* has (MemBanks::set and set_range, which the boards give any value).     *)
PagesExist ==
  mapper.kind # "Exrom" =>
    /\ WithinChip(mapper.prg)
    /\ mapper.kind \in {"Cnrom", "Gxrom", "Sxrom", "Pxrom", "Txrom", "Vrc6"} => WithinChip(mapper.chr)

(* When the console starts or is reset, whatever the program had mapped,   *)
(* the last window shows the last page of the program, where the vectors   *)
(* are, on the boards that promise it (load and reset of the boards).      *)
ResetVectorThere ==
  /\ fresh
  /\ mapper.kind \in {"Uxrom", "Bf909x", "Pxrom", "Txrom", "Vrc6", "Sxrom"}
  /\ mapper.kind = "Sxrom" => mapper.submapper # 5
  => mapper.prg.page[Cardinality(DOMAIN mapper.prg.page) - 1] = LastPage(mapper.prg)

(* MMC1: what the program sends through the one-bit port arrives in the    *)
(* register that the fifth write names, whatever instructions write twice, *)
(* and whatever resets of the port lie between (Sxrom::map_write).         *)
SerialWriteArrives ==
  mapper.kind = "Sxrom" =>
    /\ mapper.shift = 2^(4 - Len(sent)) * (1 + 2 * ValueOf(sent))
    /\ [control |-> mapper.control, chr0 |-> mapper.chr0, chr1 |-> mapper.chr1,
        prg |-> mapper.prg_reg] = wrote

(* MMC3: once the program has asked for a reload, the IRQ is there after   *)
(* one line more than the latch says and not before (Txrom::clock_irq).    *)
IrqAfterLatchLines ==
  mapper.kind = "Txrom" /\ lines # Uncounted /\ mapper.irq_enabled =>
    (mapper.irq_pending <=> lines > mapper.irq_latch)

(* MMC5: in a picture that the program leaves alone, the board knows that  *)
(* it is in the frame and in which line, from the fetches alone            *)
(* (Exrom::map_read and the fetches of Ppu::tick).                         *)
ScanlineKept ==
  mapper.kind = "Exrom" /\ whole /\ line < Lines /\ ~ppu.attr_rows =>
    mapper.in_frame /\ mapper.scanline = line

(* Both bytes of a tile come from one page, the one meant for it: with the *)
(* MMC2, that of the special tile seen last in its table, whenever the     *)
(* program writes; with the MMC5, that of its cell, or of the set of the   *)
(* background or of the sprites, once the lines are undisturbed            *)
(* (Pxrom::map_read, Exrom::map_read).                                     *)
TilesOfTheirBanks ==
  drawn.shown /\ (mapper.kind = "Exrom" => calm = 2 /\ ~ppu.attr_rows) =>
    drawn.lo = drawn.want /\ drawn.hi = drawn.want
=============================================================================
