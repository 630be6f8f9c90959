----------------------------- MODULE SpriteEval -----------------------------
(***************************************************************************)
(* Sprite evaluation (src/src/ppu.rs): while a visible line is drawn, the  *)
(* PPU walks over the sprites of OAM, copies those on the line to its      *)
(* secondary OAM, and sets the overflow flag in the way the hardware does. *)
(* Meanwhile the program may switch rendering off and on and use the OAM   *)
(* registers, between any two dots.                                        *)
(*                                                                         *)
(* A byte of OAM is known by its index; of its value only matters whether, *)
(* taken for a y, it puts a sprite on the current line.  The dots of a     *)
(* line that differ in nothing are one dot: all that clear the secondary   *)
(* OAM, all that fetch the sprites, and all after those.  The extra        *)
(* evaluation of a PAL PPU during VBL is left out.                         *)
(***************************************************************************)
EXTENDS Integers, FiniteSets

CONSTANTS
  Sprites,         (* Sprites in OAM: 64.                                  *)
  Slots,           (* Sprites of the secondary OAM: 8.                     *)
  Bytes,           (* Bytes of a sprite: 4.                                *)
  EvalDots,        (* Dots of the evaluation: 192.                         *)
  MaxAccesses      (* Bound: accesses of the program to the registers.     *)

ASSUME SpriteEvalAssumption ==
  /\ Sprites \in Nat \ {0} /\ Slots \in Nat \ {0} /\ Bytes \in Nat /\ Bytes >= 2
  /\ EvalDots \in Nat /\ EvalDots % 2 = 0
  /\ EvalDots >= 2 * (Sprites + (Slots + 1) * (Bytes - 1) + 1)
  /\ MaxAccesses \in Nat

OamLen       == Sprites * Bytes
SecondaryLen == Slots * Bytes
Oam          == 0..(OamLen - 1)
Cleared      == OamLen      (* The byte $FF, which puts no sprite on a line. *)

(* The dots of a line. *)
ClearDot == 0
FetchDot == EvalDots + 1
LastDot  == EvalDots + 2

VARIABLES
  line,            (* "visible", "prerender", or any "other".              *)
  dot,             (* The dot that comes next.                             *)
  rendering,       (* rendering_enabled()                                  *)
  on_line,         (* The bytes of OAM that put a sprite on this line.     *)
  oamaddr, oamaddr_hi, oamaddr_lo,
  secondary_oamaddr, secondary_oamdata,
  oam_fetch, oam_eval_done, overflow_count,
  spr_in_range, spr_zero_in_range, spr_zero_visible, spr_count,
  spr_overflow

VARIABLES          (* History, for the properties only. *)
  clean,           (* Nobody interfered with this line, from OAM's start.  *)
  overflowed,      (* The overflow flag at the start of the line.          *)
  accesses         (* The accesses of the program so far.                  *)

beam      == <<line, dot>>
walk      == <<oamaddr, oamaddr_hi, oamaddr_lo, oam_fetch, oam_eval_done, overflow_count,
               spr_in_range>>
secondary == <<secondary_oamaddr, secondary_oamdata>>
found     == <<spr_zero_in_range, spr_zero_visible, spr_count>>
history   == <<clean, overflowed>>
vars == <<beam, rendering, on_line, walk, secondary, found, spr_overflow, history, accesses>>

-----------------------------------------------------------------------------
(* evaluate_sprites. *)

Evaluates == rendering /\ line = "visible"

Advance ==
  /\ dot < LastDot
  /\ dot' = dot + 1
  /\ UNCHANGED <<line, rendering, on_line, accesses>>

(* The first dots of a line. *)
Clear ==
  /\ dot = ClearDot /\ Evaluates
  /\ Advance
  /\ oam_fetch' = Cleared
  /\ secondary_oamdata' = [i \in 0..(SecondaryLen - 1) |-> Cleared]
  /\ clean' = (oamaddr = 0)
  /\ overflowed' = spr_overflow
  /\ UNCHANGED <<oamaddr, oamaddr_hi, oamaddr_lo, oam_eval_done, overflow_count, spr_in_range,
                 secondary_oamaddr, found, spr_overflow>>

(* Mutant: the evaluation goes on where the last one ended. *)
StartEvalKeepsDone ==
  /\ spr_in_range' = FALSE /\ spr_zero_in_range' = FALSE
  /\ secondary_oamaddr' = 0
  /\ oamaddr_hi' = oamaddr \div Bytes
  /\ oamaddr_lo' = oamaddr % Bytes
  /\ UNCHANGED oam_eval_done

StartEval ==
  /\ spr_in_range' = FALSE /\ spr_zero_in_range' = FALSE
  /\ secondary_oamaddr' = 0
  /\ oam_eval_done' = FALSE
  /\ oamaddr_hi' = oamaddr \div Bytes
  /\ oamaddr_lo' = oamaddr % Bytes

(* An odd dot reads OAM. *)
ReadDot ==
  /\ dot \in 1..EvalDots /\ dot % 2 = 1 /\ Evaluates
  /\ Advance
  /\ IF dot = 1 THEN StartEval
     ELSE UNCHANGED <<spr_in_range, spr_zero_in_range, secondary_oamaddr, oam_eval_done,
                      oamaddr_hi, oamaddr_lo>>
  /\ oam_fetch' = oamaddr
  /\ UNCHANGED <<oamaddr, overflow_count, secondary_oamdata, spr_zero_visible, spr_count,
                 spr_overflow, history>>

NextSprite == (oamaddr_hi + 1) % Sprites

(* What the secondary OAM gives when it is full. *)
FetchSecondary == secondary_oamdata[secondary_oamaddr % SecondaryLen]

(* An even dot, when all sprites were seen. *)
IdleOn ==
  /\ oam_eval_done
  /\ oamaddr_hi' = NextSprite
  /\ oam_fetch' = IF secondary_oamaddr >= SecondaryLen THEN FetchSecondary ELSE oam_fetch
  /\ UNCHANGED <<oamaddr_lo, oam_eval_done, overflow_count, spr_in_range, secondary,
                 spr_zero_in_range, spr_overflow>>

(* A byte that is taken for a y may begin a sprite of the line. *)
InRange == spr_in_range \/ oam_fetch \in on_line

(* When there is room, a byte on the line is kept, with those after it;    *)
(* any other is overwritten next.                                          *)
Keep ==
  /\ ~oam_eval_done /\ secondary_oamaddr < SecondaryLen /\ InRange
  /\ secondary_oamdata' = [secondary_oamdata EXCEPT ![secondary_oamaddr] = oam_fetch]
  /\ secondary_oamaddr' = secondary_oamaddr + 1
  /\ spr_zero_in_range' = (spr_zero_in_range \/ oamaddr_hi = 0)
  /\ LET last == oamaddr_lo = Bytes - 1
     IN  /\ spr_in_range' = ~last
         /\ oamaddr_lo' = IF last THEN 0 ELSE oamaddr_lo + 1
         /\ oamaddr_hi' = IF last THEN NextSprite ELSE oamaddr_hi
         /\ oam_eval_done' = (last /\ NextSprite = 0)
  /\ UNCHANGED <<oam_fetch, overflow_count, spr_overflow>>

Pass ==
  /\ ~oam_eval_done /\ secondary_oamaddr < SecondaryLen /\ ~InRange
  /\ secondary_oamdata' = [secondary_oamdata EXCEPT ![secondary_oamaddr] = oam_fetch]
  /\ oamaddr_hi' = NextSprite
  /\ oam_eval_done' = (NextSprite = 0)
  /\ UNCHANGED <<oamaddr_lo, secondary_oamaddr, oam_fetch, overflow_count, spr_in_range,
                 spr_zero_in_range, spr_overflow>>

(* The count of the bytes that are still read after an overflow. *)
OverflowBytes == Bytes - 1

(* When there is none, a byte on the line is an overflow. *)
Overflow ==
  /\ ~oam_eval_done /\ secondary_oamaddr >= SecondaryLen /\ InRange
  /\ spr_overflow' = TRUE
  /\ spr_in_range' = TRUE
  /\ oam_fetch' = FetchSecondary
  /\ LET last == oamaddr_lo = Bytes - 1
         over == overflow_count = 1
     IN  /\ oamaddr_lo' = IF last \/ over THEN 0 ELSE oamaddr_lo + 1
         /\ oamaddr_hi' = IF last THEN NextSprite ELSE oamaddr_hi
         /\ oam_eval_done' = over
  /\ overflow_count' = IF overflow_count = 0 THEN OverflowBytes ELSE overflow_count - 1
  /\ UNCHANGED <<secondary, spr_zero_in_range>>

(* Mutant: the hardware's mistake is mended. *)
MissStraight ==
  /\ ~oam_eval_done /\ secondary_oamaddr >= SecondaryLen /\ ~InRange
  /\ oam_fetch' = FetchSecondary
  /\ oamaddr_hi' = NextSprite
  /\ oam_eval_done' = (NextSprite = 0)
  /\ UNCHANGED <<oamaddr_lo, overflow_count, spr_in_range, secondary, spr_zero_in_range, spr_overflow>>

(* Otherwise the search goes on, askew: with the next byte of the next     *)
(* sprite.                                                                 *)
Miss ==
  /\ ~oam_eval_done /\ secondary_oamaddr >= SecondaryLen /\ ~InRange
  /\ oam_fetch' = FetchSecondary
  /\ oamaddr_hi' = NextSprite
  /\ oamaddr_lo' = (oamaddr_lo + 1) % Bytes
  /\ oam_eval_done' = (NextSprite = 0)
  /\ UNCHANGED <<overflow_count, spr_in_range, secondary, spr_zero_in_range, spr_overflow>>

(* Mutant: the zeroth sprite is taken over a line late. *)
EndEvalLate ==
  /\ spr_zero_visible' = IF dot = 2 THEN spr_zero_in_range ELSE spr_zero_visible
  /\ spr_count' = IF dot = EvalDots THEN secondary_oamaddr \div Bytes ELSE spr_count

EndEval ==
  IF dot = EvalDots
  THEN spr_zero_visible' = spr_zero_in_range /\ spr_count' = secondary_oamaddr \div Bytes
  ELSE UNCHANGED <<spr_zero_visible, spr_count>>

WriteDot ==
  /\ dot \in 1..EvalDots /\ dot % 2 = 0 /\ Evaluates
  /\ Advance
  /\ IdleOn \/ Keep \/ Pass \/ Overflow \/ Miss
  /\ oamaddr' = oamaddr_hi' * Bytes + oamaddr_lo'
  /\ EndEval
  /\ UNCHANGED history

-----------------------------------------------------------------------------
(* The rest of the line: tick's sprite fetches, which put OAMADDR back,    *)
(* and the dots where OAM's first byte is on the bus.                      *)

Renders == rendering /\ line \in {"visible", "prerender"}

FetchSprites ==
  /\ dot = FetchDot /\ Renders
  /\ Advance
  /\ oamaddr' = 0
  /\ spr_count' = IF line = "prerender" THEN 0 ELSE spr_count
  /\ UNCHANGED <<oamaddr_hi, oamaddr_lo, oam_fetch, oam_eval_done, overflow_count, spr_in_range,
                 secondary, spr_zero_in_range, spr_zero_visible, spr_overflow, history>>

(* A dot at which the evaluation has nothing to do; on the prerender line  *)
(* the flag goes and, when rendering, the count.                           *)
PassDot ==
  /\ (dot < FetchDot /\ ~Evaluates) \/ (dot = FetchDot /\ ~Renders)
  /\ Advance
  /\ spr_overflow' = (spr_overflow /\ line # "prerender")
  /\ spr_count' = IF line = "prerender" /\ rendering THEN 0 ELSE spr_count
  /\ clean' = FALSE /\ overflowed' = FALSE
  /\ UNCHANGED <<walk, secondary, spr_zero_in_range, spr_zero_visible>>

(* The next line may have any sprites: what it shows depends on its number, *)
(* and on the bytes that tick copies to OAM's start on the prerender line. *)
EndLine ==
  /\ dot = LastDot
  /\ dot' = 0
  /\ line' \in CASE line = "visible"   -> {"visible", "other"}
                 [] line = "other"     -> {"other", "prerender"}
                 [] line = "prerender" -> {"visible"}
  /\ on_line' \in SUBSET Oam
  /\ oam_fetch' = IF Renders THEN secondary_oamdata[0] ELSE oam_fetch
  /\ clean' = FALSE /\ overflowed' = FALSE
  /\ UNCHANGED <<rendering, accesses, oamaddr, oamaddr_hi, oamaddr_lo, oam_eval_done, overflow_count,
                 spr_in_range, secondary, found, spr_overflow>>

-----------------------------------------------------------------------------
(* The registers. *)

Access == accesses < MaxAccesses /\ accesses' = accesses + 1

(* $2001: write_mask.  Switching rendering back on is not bounded. *)
WriteMask ==
  /\ IF rendering THEN Access ELSE UNCHANGED accesses
  /\ rendering' = ~rendering
  /\ clean' = FALSE
  /\ UNCHANGED <<beam, on_line, walk, secondary, found, spr_overflow, overflowed>>

(* $2003: write_oamaddr *)
WriteOamAddr(val) ==
  /\ Access
  /\ oamaddr' = val
  /\ clean' = FALSE
  /\ UNCHANGED <<beam, rendering, on_line, oamaddr_hi, oamaddr_lo, oam_fetch, oam_eval_done,
                 overflow_count, spr_in_range, secondary, found, spr_overflow, overflowed>>

(* $2004: write_oamdata.  A rendering PPU moves to the next sprite instead *)
(* of storing the byte, which may be one for this line or not.             *)
WriteOamData ==
  /\ Access
  /\ IF Renders
     THEN oamaddr' = (oamaddr + Bytes) % OamLen /\ UNCHANGED on_line
     ELSE oamaddr' = (oamaddr + 1) % OamLen /\ on_line' \in {on_line \union {oamaddr}, on_line \ {oamaddr}}
  /\ clean' = FALSE
  /\ UNCHANGED <<beam, rendering, oamaddr_hi, oamaddr_lo, oam_fetch, oam_eval_done,
                 overflow_count, spr_in_range, secondary, found, spr_overflow, overflowed>>

-----------------------------------------------------------------------------
Init ==
  /\ line = "visible" /\ dot = 0
  /\ rendering \in BOOLEAN /\ accesses = 0
  /\ on_line \in SUBSET Oam
  /\ oamaddr = 0 /\ oamaddr_hi = 0 /\ oamaddr_lo = 0
  /\ secondary_oamaddr = 0 /\ secondary_oamdata = [i \in 0..(SecondaryLen - 1) |-> Cleared]
  /\ oam_fetch = Cleared /\ oam_eval_done = FALSE /\ overflow_count = 0
  /\ spr_in_range = FALSE /\ spr_zero_in_range = FALSE /\ spr_zero_visible = FALSE
  /\ spr_count = 0 /\ spr_overflow = FALSE
  /\ clean = FALSE /\ overflowed = FALSE

Tick == Clear \/ ReadDot \/ WriteDot \/ FetchSprites \/ PassDot \/ EndLine

Next ==
  \/ Tick
  \/ WriteMask
  \/ \E val \in Oam : WriteOamAddr(val)
  \/ WriteOamData

Spec == Init /\ [][Next]_vars

-----------------------------------------------------------------------------
(* What the evaluation of a line is for: its sprites, in OAM's order. *)
Y(s)   == s * Bytes
Shown  == {s \in 0..(Sprites - 1) : Y(s) \in on_line}
Rank(s) == Cardinality({t \in Shown : t < s})
Kept   == {s \in Shown : Rank(s) < Slots}

Evaluated == clean /\ dot > EvalDots /\ line = "visible"

(* A line that nobody interferes with shows the first eight of its sprites *)
(* in OAM's order, each with all of its bytes, whatever happened on the    *)
(* lines before.                                                           *)
FirstSpritesShown ==
  Evaluated =>
    /\ spr_count = Cardinality(Kept)
    /\ \A s \in Kept, b \in 0..(Bytes - 1) :
         secondary_oamdata[Rank(s) * Bytes + b] = Y(s) + b

(* Sprite zero counts as visible exactly when it is one of them, and then  *)
(* it is the first, as pixel_color takes it to be.                         *)
SpriteZero ==
  Evaluated =>
    /\ spr_zero_visible <=> 0 \in Shown
    /\ spr_zero_visible => secondary_oamdata[0] = Y(0)

(* The hardware's search for a ninth sprite: of those after the eighth,    *)
(* the first is judged by its first byte, the second by its second, and so *)
(* on (docs/ppu/sprite_overflow_readme.txt, 04-obscure).                   *)
Ninth ==
  \E last \in Kept :
    /\ Rank(last) = Slots - 1
    /\ \E s \in (last + 1)..(Sprites - 1) : Y(s) + ((s - last - 1) % Bytes) \in on_line

(* The overflow flag is set by exactly the lines the hardware sets it by.  *)
OverflowAsHardware == Evaluated => (spr_overflow <=> overflowed \/ Ninth)

=============================================================================
