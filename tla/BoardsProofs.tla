---------------------------- MODULE BoardsProofs ----------------------------
(***************************************************************************)
(* Proofs about Boards, for any cartridges that the assumption describes   *)
(* and a picture of any size: that a board starts within, and that no step *)
(* leaves, an invariant of these parts:                                    *)
(*   BoardTyped  every board has its fields, and its windows show pages    *)
(*               that its chips have;                                      *)
(*   PortInv     MMC1: the shift register is the bits that were sent, and  *)
(*               the registers are the values;                             *)
(*   LineInv     MMC5: its line is the one of the picture;                 *)
(*   CalmInv     undisturbed lines are lines of a picture;                 *)
(*   ExTilesInv  MMC5: the fetches counted in an undisturbed line, and the *)
(*               set of banks that they chose;                             *)
(*   LatchInv    MMC2: the latches are set by the special tiles seen last; *)
(*   PlainInv    the other boards promise no tile;                         *)
(*   IrqInv      MMC3: the counter is down by the lines since the reload.  *)
(***************************************************************************)
EXTENDS Boards, FiniteSetTheorems, SequenceTheorems, TLAPS

-----------------------------------------------------------------------------
(* Banks of pages (Banks) and the boards that only switch them (Discrete). *)

(* Banks of these windows, all of which show pages that the chip has.      *)
Windows(b, w) == {"pages", "page"} \subseteq DOMAIN b /\ b.pages \in Nat \ {0} /\ DOMAIN b.page = w
OnChip(b, w)  == Windows(b, w) /\ \A i \in w : b.page[i] \in Nat /\ b.page[i] < b.pages

LEMMA Powers ==
  /\ 2^0 = 1 /\ 2^1 = 2 /\ 2^2 = 4 /\ 2^3 = 8 /\ 2^4 = 16 /\ 2^5 = 32 /\ 2^6 = 64 /\ 2^7 = 128 /\ 2^8 = 256
  /\ 2^14 = 16384 /\ 2^16 = 65536
OBVIOUS

LEMMA Remainder ==
  ASSUME NEW n \in Int, NEW k \in Nat \ {0}
  PROVE  n % k \in Nat /\ n % k < k
OBVIOUS

One   == {0}
Two   == {0, 1}
Four  == {0, 1, 2, 3}
Eight == {0, 1, 2, 3, 4, 5, 6, 7}

LEMMA Numbers ==
  /\ 0 \in One /\ 0 \in Two /\ 1 \in Two /\ \A i \in 0..3 : i \in Four
  /\ \A i \in 0..7 : i \in Eight
  /\ One \in SUBSET Int /\ Two \in SUBSET Int /\ Four \in SUBSET Int /\ Eight \in SUBSET Int
BY DEF One, Two, Four, Eight

(* FreshBanks banks, and banks of which one window is set. *)
FreshBanks(b, w, pages) ==
  /\ Windows(b, w) /\ b.pages = IF pages = 0 THEN 1 ELSE pages
  /\ \A i \in w : b.page[i] = i

OneSet(b, c, w, slot, page) ==
  /\ Windows(c, w) /\ c.pages = b.pages
  /\ c.page[slot] = page /\ page \in Nat /\ page < b.pages
  /\ \A i \in w : i # slot => c.page[i] = b.page[i]

LEMMA NewWindows ==
  ASSUME NEW pages \in Nat, NEW b
  PROVE  /\ b = NewBanks(1, pages) => FreshBanks(b, One, pages)
         /\ b = NewBanks(2, pages) => FreshBanks(b, Two, pages)
         /\ b = NewBanks(4, pages) => FreshBanks(b, Four, pages)
         /\ b = NewBanks(8, pages) => FreshBanks(b, Eight, pages)
<1>1. 0..(1 - 1) = One /\ 0..(2 - 1) = Two /\ 0..(4 - 1) = Four /\ 0..(8 - 1) = Eight
  BY DEF One, Two, Four, Eight
<1>2. ASSUME NEW n, NEW w, w = 0..(n - 1)
      PROVE  b = NewBanks(n, pages) => FreshBanks(b, w, pages)
  BY <1>2 DEF NewBanks, Windows, FreshBanks
<1> QED BY <1>1, <1>2

LEMMA ABankSet ==
  ASSUME NEW b, NEW w, Windows(b, w), NEW slot \in Int, slot \in w, NEW bank \in Int, NEW c
  PROVE  c = SetBank(b, slot, bank) => OneSet(b, c, w, slot, bank % b.pages)
<1> SUFFICES ASSUME c = SetBank(b, slot, bank) PROVE OneSet(b, c, w, slot, bank % b.pages)
  OBVIOUS
<1>1. /\ {"pages", "page"} \subseteq DOMAIN c /\ c.pages = b.pages
      /\ c.page = [b.page EXCEPT ![slot] = bank % b.pages]
  BY DEF SetBank, Windows
<1>2. bank % b.pages \in Nat /\ bank % b.pages < b.pages
  BY Remainder DEF Windows
<1> QED BY <1>1, <1>2 DEF Windows, OneSet

LEMMA BankStays ==
  ASSUME NEW b, NEW w, OnChip(b, w), NEW slot \in Int, slot \in w, NEW bank \in Int, NEW c
  PROVE  c = SetBank(b, slot, bank) => OnChip(c, w) /\ OneSet(b, c, w, slot, bank % b.pages)
<1>1. Windows(b, w)
  BY DEF OnChip
<1>2. c = SetBank(b, slot, bank) => OneSet(b, c, w, slot, bank % b.pages)
  BY <1>1, ABankSet
<1>3. OneSet(b, c, w, slot, bank % b.pages) => OnChip(c, w)
  BY DEF OnChip, OneSet
<1> QED BY <1>2, <1>3

(* A range of two windows, that begins with an even page. *)
Ranged(b, c, w, first) ==
  /\ Windows(c, w) /\ c.pages = b.pages
  /\ c.page[first] \in Nat /\ c.page[first] < b.pages
  /\ c.page[first + 1] \in Nat /\ c.page[first + 1] < b.pages
  /\ \A i \in w : i # first /\ i # first + 1 => c.page[i] = b.page[i]

LEMMA ARangeSet ==
  ASSUME NEW b, NEW w \in SUBSET Int, Windows(b, w), NEW first \in Int, first \in w, first + 1 \in w,
         b.pages % 2 = 0, NEW bank \in Int, bank % 2 = 0, NEW c
  PROVE  c = SetRange(b, first, first + 1, bank) => Ranged(b, c, w, first)
<1> SUFFICES ASSUME c = SetRange(b, first, first + 1, bank)
             PROVE  Ranged(b, c, w, first)
  OBVIOUS
<1>1. PICK at : at = bank % b.pages
  OBVIOUS
<1>2. /\ {"pages", "page"} \subseteq DOMAIN c /\ c.pages = b.pages
      /\ c.page = [i \in w |-> IF i \in first..(first + 1) THEN at + (i - first) ELSE b.page[i]]
  BY <1>1 DEF SetRange, Windows
<1>3. at \in Nat /\ at + 1 < b.pages
  <2>1. PICK n \in Nat \ {0} : b.pages = n
    BY DEF Windows
  <2>2. at \in Nat /\ at < n
    BY <1>1, <2>1, Remainder
  <2>3. PICK half \in Int : n = 2 * half
    BY <2>1, b.pages % 2 = 0
  <2>4. PICK q \in Int : q = bank \div n
    BY <2>1
  <2>5. bank = q * n + at
    BY <1>1, <2>1, <2>4
  <2>6. bank = 2 * (q * half) + at
    <3>1. q * (2 * half) = 2 * (q * half)
      BY <2>3, <2>4
    <3>2. q * n = q * (2 * half)
      BY <2>3
    <3> QED BY <2>5, <3>1, <3>2
  <2>7. at % 2 = 0
    <3>1. PICK k \in Int : k = q * half
      BY <2>3, <2>4
    <3> QED BY <2>2, <2>6, <3>1
  <2> QED BY <2>1, <2>2, <2>3, <2>7
<1>4. \A i \in w : c.page[i] = IF i = first \/ i = first + 1 THEN at + (i - first) ELSE b.page[i]
  BY <1>2
<1>5. c.page[first] = at /\ c.page[first + 1] = at + 1
  BY <1>3, <1>4
<1> QED BY <1>2, <1>3, <1>4, <1>5 DEF Windows, Ranged

LEMMA RangeStays ==
  ASSUME NEW b, NEW w \in SUBSET Int, OnChip(b, w), NEW first \in Int, first \in w, first + 1 \in w,
         b.pages % 2 = 0, NEW bank \in Int, bank % 2 = 0, NEW c
  PROVE  c = SetRange(b, first, first + 1, bank) => OnChip(c, w) /\ Ranged(b, c, w, first)
<1>1. Windows(b, w)
  BY DEF OnChip
<1>2. c = SetRange(b, first, first + 1, bank) => Ranged(b, c, w, first)
  BY <1>1, ARangeSet
<1> QED BY <1>2 DEF OnChip, Ranged

LEMMA EvenIs == \A n \in Nat : Even(n) \in Nat /\ Even(n) % 2 = 0
BY DEF Even

PrgKept(m, w) == "prg" \in DOMAIN m /\ OnChip(m.prg, w)
ChrKept(m, w) == "chr" \in DOMAIN m /\ OnChip(m.chr, w)
LastShown(m, i) == m.prg.page[i] = LastPage(m.prg)

Fixed == {"Nrom", "Uxrom", "Cnrom", "Axrom", "Gxrom", "Bf909x"}

DiscreteKept(m) ==
  /\ {"kind", "mirroring"} \subseteq DOMAIN m /\ m.kind \in Fixed
  /\ m.kind \in {"Nrom", "Cnrom", "Uxrom", "Bf909x"} => PrgKept(m, Two)
  /\ m.kind \in {"Axrom", "Gxrom"} => PrgKept(m, One)
  /\ m.kind \in {"Cnrom", "Gxrom"} => ChrKept(m, One)
  /\ m.kind \in {"Uxrom", "Bf909x"} => LastShown(m, 1)
  /\ m.kind = "Bf909x" => "bf9097" \in DOMAIN m

LEMMA OneWindow ==
  ASSUME NEW pages \in Nat, NEW b, b = NewBanks(1, pages)
  PROVE  OnChip(b, One)
<1>1. FreshBanks(b, One, pages)
  BY NewWindows
<1> QED BY <1>1 DEF OnChip, One, FreshBanks

LEMMA TwoWindows ==
  ASSUME NEW pages \in Nat \ {0}, NEW b, b = NewBanks(2, pages), NEW c, c = SetBank(b, 1, LastPage(b))
  PROVE  OnChip(c, Two) /\ c.page[1] = LastPage(c)
<1>1. FreshBanks(b, Two, pages)
  BY NewWindows
<1>2. PICK last \in Nat : last = pages - 1
  OBVIOUS
<1>3. LastPage(b) = last
  BY <1>1, <1>2 DEF LastPage, FreshBanks
<1>4. OneSet(b, c, Two, 1, last % b.pages)
  BY <1>1, <1>3, ABankSet, Numbers DEF FreshBanks
<1>5. last % b.pages = last /\ b.pages = pages
  BY <1>1, <1>2 DEF FreshBanks
<1> QED BY <1>1, <1>2, <1>4, <1>5 DEF OnChip, LastPage, Two, FreshBanks, OneSet

LEMMA FixedWindows ==
  ASSUME NEW cart, cart.prg \in Nat \ {0}, NEW b, b = FixedProgram(cart)
  PROVE  OnChip(b, Two)
BY DEF FixedProgram, OnChip, Windows, Two

LEMMA DiscreteLoad ==
  ASSUME NEW cart, cart.prg \in Nat \ {0}, cart.chr \in Nat, cart.kind \in Fixed, NEW new
  PROVE  new = Load(cart) => DiscreteKept(new) /\ new.kind = cart.kind
<1> SUFFICES ASSUME new = Load(cart) PROVE DiscreteKept(new) /\ new.kind = cart.kind
  OBVIOUS
<1>1. CASE cart.kind = "Nrom"
  <2>1. /\ {"kind", "mirroring", "prg"} \subseteq DOMAIN new /\ new.kind = "Nrom"
        /\ new.prg = FixedProgram(cart)
    BY <1>1 DEF Load, LoadNrom
  <2> QED BY <1>1, <2>1, FixedWindows DEF DiscreteKept, Fixed, PrgKept
<1>2. CASE cart.kind = "Cnrom"
  <2>1. /\ {"kind", "mirroring", "prg", "chr"} \subseteq DOMAIN new /\ new.kind = "Cnrom"
        /\ new.prg = FixedProgram(cart) /\ new.chr = NewBanks(1, cart.chr)
    BY <1>2 DEF Load, LoadCnrom
  <2> QED BY <1>2, <2>1, FixedWindows, OneWindow DEF DiscreteKept, Fixed, PrgKept, ChrKept
<1>3. CASE cart.kind = "Axrom"
  <2>1. /\ {"kind", "mirroring", "prg"} \subseteq DOMAIN new /\ new.kind = "Axrom"
        /\ new.prg = NewBanks(1, cart.prg)
    BY <1>3 DEF Load, LoadAxrom
  <2> QED BY <1>3, <2>1, OneWindow DEF DiscreteKept, Fixed, PrgKept
<1>4. CASE cart.kind = "Gxrom"
  <2>1. /\ {"kind", "mirroring", "prg", "chr"} \subseteq DOMAIN new /\ new.kind = "Gxrom"
        /\ new.prg = NewBanks(1, cart.prg) /\ new.chr = NewBanks(1, cart.chr)
    BY <1>4 DEF Load, LoadGxrom
  <2> QED BY <1>4, <2>1, OneWindow DEF DiscreteKept, Fixed, PrgKept, ChrKept
<1>5. CASE cart.kind \in {"Uxrom", "Bf909x"}
  <2>1. PICK b : b = NewBanks(2, cart.prg)
    OBVIOUS
  <2>2. PICK c : c = SetBank(b, 1, LastPage(b))
    OBVIOUS
  <2>3. /\ {"kind", "mirroring", "prg"} \subseteq DOMAIN new /\ new.kind = cart.kind /\ new.prg = c
        /\ new.kind = "Bf909x" => "bf9097" \in DOMAIN new
    BY <1>5, <2>1, <2>2 DEF Load, LoadUxrom, LoadBf909x
  <2>4. OnChip(c, Two) /\ c.page[1] = LastPage(c)
    BY <2>1, <2>2, TwoWindows
  <2> QED BY <1>5, <2>3, <2>4 DEF DiscreteKept, Fixed, PrgKept, LastShown
<1> QED BY <1>1, <1>2, <1>3, <1>4, <1>5 DEF Fixed

LEMMA DiscreteWrite ==
  ASSUME NEW m, DiscreteKept(m), NEW addr \in Nat, NEW val \in Nat, val < 256, NEW new
  PROVE  new = MapWrite(m, addr, val) => DiscreteKept(new) /\ new.kind = m.kind
<1> SUFFICES ASSUME new = MapWrite(m, addr, val) PROVE DiscreteKept(new) /\ new.kind = m.kind
  OBVIOUS
<1>0. Bits(val, 0, 4) \in Nat /\ Bits(val, 4, 2) \in Nat
  BY Powers DEF Bits
<1>1. CASE m.kind = "Nrom"
  BY <1>1 DEF MapWrite, DiscreteKept
<1>2. CASE m.kind = "Cnrom"
  <2>1. PICK b : b = SetBank(m.chr, 0, val)
    OBVIOUS
  <2>2. new = [m EXCEPT !.chr = b]
    BY <1>2, <2>1 DEF MapWrite, WriteCnrom
  <2>3. OnChip(b, One)
    BY <1>2, <2>1, BankStays, Numbers DEF DiscreteKept, ChrKept
  <2> QED BY <1>2, <2>2, <2>3 DEF DiscreteKept, ChrKept, PrgKept
<1>3. CASE m.kind = "Axrom"
  <2>1. PICK b : b = SetBank(m.prg, 0, Bits(val, 0, 4))
    OBVIOUS
  <2>2. PICK name : new = [m EXCEPT !.prg = b, !.mirroring = name]
    BY <1>3, <2>1 DEF MapWrite, WriteAxrom
  <2>3. OnChip(b, One)
    BY <1>0, <1>3, <2>1, BankStays, Numbers DEF DiscreteKept, PrgKept
  <2> QED BY <1>3, <2>2, <2>3 DEF DiscreteKept, PrgKept
<1>4. CASE m.kind = "Gxrom"
  <2>1. PICK b : b = SetBank(m.prg, 0, Bits(val, 4, 2))
    OBVIOUS
  <2>2. PICK c : c = SetBank(m.chr, 0, Bits(val, 0, 4))
    OBVIOUS
  <2>3. new = [m EXCEPT !.chr = c, !.prg = b]
    BY <1>4, <2>1, <2>2 DEF MapWrite, WriteGxrom
  <2>4. OnChip(b, One)
    BY <1>0, <1>4, <2>1, BankStays, Numbers DEF DiscreteKept, PrgKept
  <2>5. OnChip(c, One)
    BY <1>0, <1>4, <2>2, BankStays, Numbers DEF DiscreteKept, ChrKept
  <2> QED BY <1>4, <2>3, <2>4, <2>5 DEF DiscreteKept, PrgKept, ChrKept
<1>5. CASE m.kind \in {"Uxrom", "Bf909x"}
  <2>1. PICK b : b = SetBank(m.prg, 0, val)
    OBVIOUS
  <2>2. OnChip(b, Two) /\ OneSet(m.prg, b, Two, 0, val % m.prg.pages)
    <3>1. OnChip(m.prg, Two)
      BY <1>5 DEF DiscreteKept, PrgKept
    <3>2. 0 \in Int /\ 0 \in Two /\ val \in Int
      BY DEF Two
    <3> QED BY <2>1, <3>1, <3>2, BankStays
  <2>4. b.page[1] = LastPage(b)
    BY <1>5, <2>2, Numbers DEF DiscreteKept, LastShown, LastPage, OneSet
  <2>5. /\ {"kind", "mirroring", "prg"} \subseteq DOMAIN new /\ new.kind = m.kind
        /\ new.prg = b \/ new.prg = m.prg
        /\ new.kind = "Bf909x" => "bf9097" \in DOMAIN new
    <3>1. CASE m.kind = "Uxrom"
      BY <2>1, <3>1 DEF MapWrite, WriteUxrom, DiscreteKept, PrgKept
    <3>2. CASE m.kind = "Bf909x"
      <4> DEFINE known == m.bf9097 \/ addr = \h9000
                 name  == IF Bit(val, 4) THEN "SingleScreenA" ELSE "SingleScreenB"
      <4>1. new = WriteBf909x(m, addr, val)
        BY <3>2 DEF MapWrite
      <4>2. new = IF addr >= \hC000 \/ ~known THEN [m EXCEPT !.bf9097 = known, !.prg = SetBank(m.prg, 0, val)]
                  ELSE [m EXCEPT !.bf9097 = known, !.mirroring = name]
        BY <4>1 DEF WriteBf909x
      <4>3. \/ new = [m EXCEPT !.bf9097 = known, !.prg = b]
            \/ new = [m EXCEPT !.bf9097 = known, !.mirroring = name]
        BY <2>1, <4>2
      <4> HIDE DEF known, name
      <4>4. {"kind", "mirroring", "prg", "bf9097"} \subseteq DOMAIN m
        BY <3>2 DEF DiscreteKept, PrgKept
      <4>5. CASE new = [m EXCEPT !.bf9097 = known, !.prg = b]
        BY <3>2, <4>4, <4>5
      <4>6. CASE new = [m EXCEPT !.bf9097 = known, !.mirroring = name]
        BY <3>2, <4>4, <4>6
      <4> QED BY <4>3, <4>5, <4>6
    <3> QED BY <1>5, <3>1, <3>2
  <2> QED BY <1>5, <2>2, <2>4, <2>5 DEF DiscreteKept, PrgKept, LastShown
<1> QED BY <1>1, <1>2, <1>3, <1>4, <1>5 DEF DiscreteKept, Fixed

-----------------------------------------------------------------------------
(* MMC1. *)

(* The MMC1, before and after its banks follow the registers. *)
SxromBase(m) ==
  /\ {"kind", "mirroring", "write_just_occurred", "shift", "control", "chr0", "chr1", "prg_reg",
      "submapper", "chr_select", "chr", "prg"} \subseteq DOMAIN m
  /\ m.kind = "Sxrom"
  /\ m.control \in Nat /\ m.chr0 \in Nat /\ m.chr1 \in Nat /\ m.prg_reg \in Nat
  /\ m.shift \in Nat /\ m.write_just_occurred \in Nat
  /\ Windows(m.prg, Two) /\ m.prg.pages % 2 = 0
  /\ Windows(m.chr, Two) /\ m.chr.pages % 2 = 0

SxromKept(m) == SxromBase(m) /\ OnChip(m.prg, Two) /\ OnChip(m.chr, Two)

SameRegisters(m, n) ==
  /\ n.shift = m.shift /\ n.write_just_occurred = m.write_just_occurred /\ n.submapper = m.submapper
  /\ n.control = m.control /\ n.chr0 = m.chr0 /\ n.chr1 = m.chr1 /\ n.prg_reg = m.prg_reg

LEMMA ModeBits == \A n \in Nat : Bits(n, 2, 2) \in 0..3 /\ Bits(n, 4, 1) \in 0..1
BY Powers DEF Bits

(* Two banks that are set one by one. *)
LEMMA BothSet ==
  ASSUME NEW b, Windows(b, Two), NEW x \in Int, NEW y \in Int, NEW c
  PROVE  c = SetBank(SetBank(b, 0, x), 1, y) =>
           OnChip(c, Two) /\ c.pages = b.pages /\ c.page[0] = x % b.pages /\ c.page[1] = y % b.pages
<1> SUFFICES ASSUME c = SetBank(SetBank(b, 0, x), 1, y)
             PROVE  OnChip(c, Two) /\ c.pages = b.pages /\ c.page[0] = x % b.pages /\ c.page[1] = y % b.pages
  OBVIOUS
<1>1. PICK a : a = SetBank(b, 0, x)
  OBVIOUS
<1>2. c = SetBank(a, 1, y)
  BY <1>1
<1>3. OneSet(b, a, Two, 0, x % b.pages)
  BY <1>1, ABankSet, Numbers
<1>4. Windows(a, Two)
  BY <1>3 DEF OneSet
<1>5. OneSet(a, c, Two, 1, y % a.pages)
  BY <1>2, <1>4, ABankSet, Numbers
<1> QED BY <1>3, <1>5 DEF OneSet, OnChip, Two

LEMMA MappedMmc1 ==
  ASSUME NEW m, SxromBase(m), NEW addr \in Nat, NEW c
  PROVE  c = MappedPrg(m, addr) =>
           /\ OnChip(c, Two) /\ c.pages = m.prg.pages
           /\ PrgMode(m) = 3 /\ m.submapper # 5 => c.page[1] = LastPage(c)
<1> SUFFICES ASSUME c = MappedPrg(m, addr)
             PROVE  /\ OnChip(c, Two) /\ c.pages = m.prg.pages
                    /\ PrgMode(m) = 3 /\ m.submapper # 5 => c.page[1] = LastPage(c)
  OBVIOUS
<1>1. PICK half \in {0, 16} : half = HalfSelect(m, addr)
  BY DEF HalfSelect
<1>2. PICK bank \in Nat : bank = m.prg_reg % 16
  BY DEF SxromBase
<1>3. PrgMode(m) \in 0..3
  BY ModeBits DEF SxromBase, PrgMode
<1>4. PICK pages \in Nat \ {0} : m.prg.pages = pages /\ pages % 2 = 0
  BY DEF SxromBase, Windows
<1>5. Even(bank) \in Nat /\ Even(bank) % 2 = 0 /\ (half + Even(bank)) % 2 = 0
  <2>1. PICK e \in Nat : e = Even(bank) /\ e % 2 = 0
    BY EvenIs
  <2>2. (half + e) % 2 = 0
    BY <2>1
  <2> QED BY <2>1, <2>2
<1>6. CASE m.submapper = 5 \/ PrgMode(m) \in {0, 1}
  <2>1. PICK at \in Int : at % 2 = 0 /\ c = SetRange(m.prg, 0, 1, at)
    <3>1. CASE m.submapper = 5
      <4>1. c = SetRange(m.prg, 0, 1, 0)
        BY <3>1 DEF MappedPrg
      <4> QED BY <4>1
    <3>2. CASE m.submapper # 5
      <4>1. c = SetRange(m.prg, 0, 1, half + Even(bank))
        BY <1>1, <1>2, <1>6, <3>2 DEF MappedPrg
      <4>2. half + Even(bank) \in Int
        BY <1>5
      <4> QED BY <1>5, <4>1, <4>2
    <3> QED BY <3>1, <3>2
  <2>2. 0 + 1 = 1 /\ 0 + 1 \in Two
    BY Numbers
  <2>3. c = SetRange(m.prg, 0, 0 + 1, at)
    BY <2>1, <2>2
  <2>4. Ranged(m.prg, c, Two, 0)
    BY <1>4, <2>1, <2>2, <2>3, ARangeSet, Numbers DEF SxromBase
  <2> QED BY <1>6, <2>4 DEF Ranged, OnChip, Two
<1>7. CASE m.submapper # 5 /\ PrgMode(m) = 2
  <2>1. c = SetBank(SetBank(m.prg, 0, half), 1, half + bank)
    BY <1>1, <1>2, <1>7 DEF MappedPrg
  <2>2. half \in Int /\ half + bank \in Int
    BY <1>1
  <2> QED BY <1>7, <2>1, <2>2, BothSet DEF SxromBase
<1>8. CASE m.submapper # 5 /\ PrgMode(m) = 3
  <2>1. PICK last \in Nat : last = pages - 1
    BY <1>4
  <2>2. c = SetBank(SetBank(m.prg, 0, half + bank), 1, last)
    BY <1>1, <1>2, <1>4, <1>8, <2>1 DEF MappedPrg, LastPage
  <2>3. half + bank \in Int
    BY <1>1
  <2>4. OnChip(c, Two) /\ c.pages = m.prg.pages /\ c.page[1] = last % m.prg.pages
    BY <2>2, <2>3, BothSet DEF SxromBase
  <2>5. last % pages = last
    BY <2>1
  <2> QED BY <1>4, <2>1, <2>4, <2>5 DEF LastPage
<1> QED BY <1>3, <1>6, <1>7, <1>8

LEMMA PatternsMmc1 ==
  ASSUME NEW m, SxromBase(m), NEW c
  PROVE  c = MappedChr(m) => OnChip(c, Two) /\ c.pages = m.chr.pages
<1> SUFFICES ASSUME c = MappedChr(m) PROVE OnChip(c, Two) /\ c.pages = m.chr.pages
  OBVIOUS
<1>1. CASE Chr4k(m)
  <2>1. c = SetBank(SetBank(m.chr, 0, m.chr0), 1, m.chr1)
    BY <1>1 DEF MappedChr
  <2> QED BY <2>1, BothSet DEF SxromBase
<1>2. CASE ~Chr4k(m)
  <2>1. PICK at \in Int : at = Even(m.chr0) /\ at % 2 = 0
    BY EvenIs DEF SxromBase
  <2>2. 0 + 1 = 1 /\ 0 + 1 \in Two
    BY Numbers
  <2>3. c = SetRange(m.chr, 0, 0 + 1, at)
    BY <1>2, <2>1, <2>2 DEF MappedChr
  <2>4. Ranged(m.chr, c, Two, 0)
    BY <2>1, <2>2, <2>3, ARangeSet, Numbers DEF SxromBase
  <2> QED BY <2>4 DEF Ranged, OnChip, Two
<1> QED BY <1>1, <1>2

LEMMA UpdatedMmc1 ==
  ASSUME NEW m, SxromBase(m), NEW addr \in Nat, NEW new
  PROVE  new = UpdateMmc1(m, addr) =>
           /\ SxromKept(new) /\ SameRegisters(m, new)
           /\ PrgMode(m) = 3 /\ m.submapper # 5 => LastShown(new, 1)
<1> SUFFICES ASSUME new = UpdateMmc1(m, addr)
             PROVE  /\ SxromKept(new) /\ SameRegisters(m, new)
                    /\ PrgMode(m) = 3 /\ m.submapper # 5 => LastShown(new, 1)
  OBVIOUS
<1>1. PICK name, b, c : name = ControlMirroring(m) /\ b = MappedPrg(m, addr) /\ c = MappedChr(m)
  OBVIOUS
<1>2. new = [m EXCEPT !.mirroring = name, !.chr = c, !.prg = b]
  BY <1>1 DEF UpdateMmc1
<1>3. /\ OnChip(b, Two) /\ b.pages = m.prg.pages
      /\ PrgMode(m) = 3 /\ m.submapper # 5 => b.page[1] = LastPage(b)
  BY <1>1, MappedMmc1
<1>4. OnChip(c, Two) /\ c.pages = m.chr.pages
  BY <1>1, PatternsMmc1
<1>5. /\ DOMAIN new = DOMAIN m /\ new.kind = m.kind /\ new.prg = b /\ new.chr = c
      /\ SameRegisters(m, new)
  BY <1>2 DEF SxromBase, SameRegisters
<1>6. SxromBase(new)
  BY <1>3, <1>4, <1>5 DEF SxromBase, SameRegisters, OnChip
<1> QED BY <1>3, <1>4, <1>5, <1>6 DEF SxromKept, LastShown

ShiftOf(n, value) == 2^(4 - n) * (1 + 2 * value)

LEMMA BitsSent ==
  ASSUME NEW bits \in Seq({0, 1}), Len(bits) <= 4, NEW b \in {0, 1}, NEW more, more = Append(bits, b)
  PROVE  /\ more \in Seq({0, 1}) /\ Len(more) = Len(bits) + 1
         /\ ValueOf(bits) \in Nat /\ ValueOf(more) = ValueOf(bits) + b * 2^Len(bits)
<1>1. /\ more \in Seq({0, 1}) /\ Len(more) = Len(bits) + 1 /\ more[Len(bits) + 1] = b
      /\ \A k \in 1..Len(bits) : more[k] = bits[k]
  OBVIOUS
<1>2. 2^(1 - 1) = 1 /\ 2^(2 - 1) = 2 /\ 2^(3 - 1) = 4 /\ 2^(4 - 1) = 8 /\ 2^(5 - 1) = 16
  OBVIOUS
<1>3. ASSUME NEW s
      PROVE  ValueOf(s) = (IF 1 <= Len(s) THEN s[1] * 1 ELSE 0) + (IF 2 <= Len(s) THEN s[2] * 2 ELSE 0)
                        + (IF 3 <= Len(s) THEN s[3] * 4 ELSE 0) + (IF 4 <= Len(s) THEN s[4] * 8 ELSE 0)
                        + (IF 5 <= Len(s) THEN s[5] * 16 ELSE 0)
  BY <1>2 DEF ValueOf
<1>4. \A k \in 1..Len(bits) : bits[k] \in Nat
  OBVIOUS
<1>5. Len(bits) \in Nat /\ (Len(bits) = 0 \/ Len(bits) = 1 \/ Len(bits) = 2 \/ Len(bits) = 3 \/ Len(bits) = 4)
  <2>1. PICK n \in Nat : n = Len(bits)
    OBVIOUS
  <2>2. n <= 4
    BY <2>1
  <2> QED BY <2>1, <2>2
<1>6. ValueOf(bits) = (IF 1 <= Len(bits) THEN bits[1] * 1 ELSE 0) + (IF 2 <= Len(bits) THEN bits[2] * 2 ELSE 0)
                    + (IF 3 <= Len(bits) THEN bits[3] * 4 ELSE 0) + (IF 4 <= Len(bits) THEN bits[4] * 8 ELSE 0)
                    + (IF 5 <= Len(bits) THEN bits[5] * 16 ELSE 0)
  BY <1>3
<1>7. ValueOf(more) = (IF 1 <= Len(more) THEN more[1] * 1 ELSE 0) + (IF 2 <= Len(more) THEN more[2] * 2 ELSE 0)
                    + (IF 3 <= Len(more) THEN more[3] * 4 ELSE 0) + (IF 4 <= Len(more) THEN more[4] * 8 ELSE 0)
                    + (IF 5 <= Len(more) THEN more[5] * 16 ELSE 0)
  BY <1>3
<1>0. PICK e \in Nat : e = b
  OBVIOUS
<1>8. CASE Len(bits) = 0
  <2>2. Len(more) = 1 /\ more[1] = e
    BY <1>0, <1>1, <1>8
  <2>3. ValueOf(bits) = 0
    BY <1>6, <1>8
  <2>4. ValueOf(more) = 0 + e * 1
    <3>1. 1 <= Len(more) /\ ~(2 <= Len(more)) /\ ~(3 <= Len(more)) /\ ~(4 <= Len(more)) /\ ~(5 <= Len(more))
      BY <2>2
    <3> QED BY <1>0, <1>7, <2>2, <3>1
  <2>5. ValueOf(bits) \in Nat /\ ValueOf(more) = ValueOf(bits) + e * 1
    BY <2>3, <2>4
  <2>6. 2^Len(bits) = 1
    BY <1>8, Powers
  <2> QED BY <1>0, <1>1, <2>5, <2>6
<1>9. CASE Len(bits) = 1
  <2>1. PICK d1 \in Nat : d1 = bits[1]
    BY <1>4, <1>9
  <2>2. Len(more) = 2 /\ more[2] = e /\ more[1] = d1
    BY <1>0, <1>1, <1>9, <2>1
  <2>0. PICK p \in Nat : p = d1 * 1
    BY <2>1
  <2>3. ValueOf(bits) = p
    BY <1>6, <1>9, <2>0, <2>1
  <2>4. ValueOf(more) = p + e * 2
    <3>1. 1 <= Len(more) /\ 2 <= Len(more) /\ ~(3 <= Len(more)) /\ ~(4 <= Len(more)) /\ ~(5 <= Len(more))
      BY <2>2
    <3> QED BY <1>0, <1>7, <2>2, <3>1, <2>0, <2>1
  <2>5. ValueOf(bits) \in Nat /\ ValueOf(more) = ValueOf(bits) + e * 2
    BY <2>0, <2>3, <2>4
  <2>6. 2^Len(bits) = 2
    BY <1>9, Powers
  <2> QED BY <1>0, <1>1, <2>5, <2>6
<1>10. CASE Len(bits) = 2
  <2>1. PICK d1, d2 \in Nat : d1 = bits[1] /\ d2 = bits[2]
    BY <1>4, <1>10
  <2>2. Len(more) = 3 /\ more[3] = e /\ more[1] = d1 /\ more[2] = d2
    BY <1>0, <1>1, <1>10, <2>1
  <2>0. PICK p \in Nat : p = d1 * 1 + d2 * 2
    BY <2>1
  <2>3. ValueOf(bits) = p
    BY <1>6, <1>10, <2>0, <2>1
  <2>4. ValueOf(more) = p + e * 4
    <3>1. 1 <= Len(more) /\ 2 <= Len(more) /\ 3 <= Len(more) /\ ~(4 <= Len(more)) /\ ~(5 <= Len(more))
      BY <2>2
    <3> QED BY <1>0, <1>7, <2>2, <3>1, <2>0, <2>1
  <2>5. ValueOf(bits) \in Nat /\ ValueOf(more) = ValueOf(bits) + e * 4
    BY <2>0, <2>3, <2>4
  <2>6. 2^Len(bits) = 4
    BY <1>10, Powers
  <2> QED BY <1>0, <1>1, <2>5, <2>6
<1>11. CASE Len(bits) = 3
  <2>1. PICK d1, d2, d3 \in Nat : d1 = bits[1] /\ d2 = bits[2] /\ d3 = bits[3]
    BY <1>4, <1>11
  <2>2. Len(more) = 4 /\ more[4] = e /\ more[1] = d1 /\ more[2] = d2 /\ more[3] = d3
    BY <1>0, <1>1, <1>11, <2>1
  <2>0. PICK p \in Nat : p = d1 * 1 + d2 * 2 + d3 * 4
    <3>1. PICK p2 \in Nat : p2 = d1 * 1 + d2 * 2
      BY <2>1, SMTT(30)
    <3>2. PICK p3 \in Nat : p3 = p2 + d3 * 4
      BY <2>1
    <3> QED BY <3>1, <3>2
  <2>3. ValueOf(bits) = p
    BY <1>6, <1>11, <2>0, <2>1
  <2>4. ValueOf(more) = p + e * 8
    <3>1. 1 <= Len(more) /\ 2 <= Len(more) /\ 3 <= Len(more) /\ 4 <= Len(more) /\ ~(5 <= Len(more))
      BY <2>2
    <3> QED BY <1>0, <1>7, <2>2, <3>1, <2>0, <2>1
  <2>5. ValueOf(bits) \in Nat /\ ValueOf(more) = ValueOf(bits) + e * 8
    BY <2>0, <2>3, <2>4
  <2>6. 2^Len(bits) = 8
    BY <1>11, Powers
  <2> QED BY <1>0, <1>1, <2>5, <2>6
<1>12. CASE Len(bits) = 4
  <2>1. PICK d1, d2, d3, d4 \in Nat : d1 = bits[1] /\ d2 = bits[2] /\ d3 = bits[3] /\ d4 = bits[4]
    BY <1>4, <1>12
  <2>2. Len(more) = 5 /\ more[5] = e /\ more[1] = d1 /\ more[2] = d2 /\ more[3] = d3 /\ more[4] = d4
    BY <1>0, <1>1, <1>12, <2>1
  <2>0. PICK p \in Nat : p = d1 * 1 + d2 * 2 + d3 * 4 + d4 * 8
    <3>1. PICK p2 \in Nat : p2 = d1 * 1 + d2 * 2
      BY <2>1
    <3>2. PICK p3 \in Nat : p3 = p2 + d3 * 4
      BY <2>1
    <3>3. PICK p4 \in Nat : p4 = p3 + d4 * 8
      BY <2>1
    <3> QED BY <3>1, <3>2, <3>3
  <2>3. ValueOf(bits) = p
    BY <1>6, <1>12, <2>0, <2>1
  <2>4. ValueOf(more) = p + e * 16
    <3>1. 1 <= Len(more) /\ 2 <= Len(more) /\ 3 <= Len(more) /\ 4 <= Len(more) /\ 5 <= Len(more)
      BY <2>2
    <3> QED BY <1>0, <1>7, <2>2, <3>1, <2>0, <2>1
  <2>5. ValueOf(bits) \in Nat /\ ValueOf(more) = ValueOf(bits) + e * 16
    BY <2>0, <2>3, <2>4
  <2>6. 2^Len(bits) = 16
    BY <1>12, Powers
  <2> QED BY <1>0, <1>1, <2>5, <2>6
<1> QED BY <1>5, <1>8, <1>9, <1>10, <1>11, <1>12

(* A bit shifted in, in front of the 1 or behind it. *)
ShiftedIn(s, n, value, b) ==
  /\ n < 4 => s % 2 = 0 /\ (s \div 2) + 16 * b = ShiftOf(n + 1, value + b * 2^n)
  /\ n = 4 => s % 2 = 1 /\ (s \div 2) + 16 * b = value + b * 2^n

LEMMA BitShifted ==
  ASSUME NEW n \in 0..4, NEW value \in Nat, NEW b \in {0, 1}, NEW s, s = ShiftOf(n, value)
  PROVE  ShiftedIn(s, n, value, b)
<1> SUFFICES
         /\ n < 4 => s % 2 = 0 /\ (s \div 2) + 16 * b = ShiftOf(n + 1, value + b * 2^n)
         /\ n = 4 => s % 2 = 1 /\ (s \div 2) + 16 * b = value + b * 2^n
  BY DEF ShiftedIn
<1>0. 2^(4 - 0) = 16 /\ 2^(4 - 1) = 8 /\ 2^(4 - 2) = 4 /\ 2^(4 - 3) = 2 /\ 2^(4 - 4) = 1
  OBVIOUS
<1>1. CASE n = 0
  BY <1>0, <1>1, Powers DEF ShiftOf
<1>2. CASE n = 1
  BY <1>0, <1>2, Powers DEF ShiftOf
<1>3. CASE n = 2
  BY <1>0, <1>3, Powers DEF ShiftOf
<1>4. CASE n = 3
  BY <1>0, <1>4, Powers DEF ShiftOf
<1>5. CASE n = 4
  BY <1>0, <1>5, Powers DEF ShiftOf
<1> QED BY <1>1, <1>2, <1>3, <1>4, <1>5

Registered(m) == [control |-> m.control, chr0 |-> m.chr0, chr1 |-> m.chr1, prg |-> m.prg_reg]
PortReset(n) == (n % 4) + 12 + 16 * Bits(n, 4, 1)

LEMMA ClockedMmc1 ==
  ASSUME NEW m, SxromKept(m), NEW new, new = ClockMmc1(m)
  PROVE  /\ SxromKept(new) /\ Registered(new) = Registered(m) /\ new.shift = m.shift
         /\ new.prg = m.prg /\ new.submapper = m.submapper
         /\ new.write_just_occurred = IF m.write_just_occurred > 0 THEN m.write_just_occurred - 1 ELSE 0
<1>1. PICK n \in Nat : n = IF m.write_just_occurred > 0 THEN m.write_just_occurred - 1 ELSE 0
  BY DEF SxromKept, SxromBase
<1>2. new = [m EXCEPT !.write_just_occurred = n]
  BY <1>1 DEF ClockMmc1
<1>3. /\ DOMAIN new = DOMAIN m /\ new.kind = m.kind /\ new.prg = m.prg /\ new.chr = m.chr
      /\ new.shift = m.shift /\ new.submapper = m.submapper /\ new.write_just_occurred = n
      /\ new.control = m.control /\ new.chr0 = m.chr0 /\ new.chr1 = m.chr1 /\ new.prg_reg = m.prg_reg
  BY <1>2 DEF SxromKept, SxromBase
<1>4. SxromKept(new)
  BY <1>3 DEF SxromKept, SxromBase
<1>5. Registered(new) = Registered(m)
  BY <1>3 DEF Registered
<1> QED BY <1>1, <1>3, <1>4, <1>5

LEMMA ResetRegisters ==
  ASSUME NEW m, SxromBase(m), NEW hard \in BOOLEAN, NEW new
  PROVE  new = ResetMmc1(m, hard) =>
           /\ SxromKept(new) /\ new.shift = DefaultShift
           /\ new.control = DefaultPrgMode /\ new.prg_reg = PrgRamDisabled
           /\ new.chr0 = m.chr0 /\ new.chr1 = m.chr1
           /\ new.submapper # 5 => LastShown(new, 1)
           /\ new.write_just_occurred = IF hard THEN 0 ELSE m.write_just_occurred
<1> SUFFICES ASSUME new = ResetMmc1(m, hard)
             PROVE  /\ SxromKept(new) /\ new.shift = DefaultShift
                    /\ new.control = DefaultPrgMode /\ new.prg_reg = PrgRamDisabled
                    /\ new.chr0 = m.chr0 /\ new.chr1 = m.chr1
                    /\ new.submapper # 5 => LastShown(new, 1)
                    /\ new.write_just_occurred = IF hard THEN 0 ELSE m.write_just_occurred
  OBVIOUS
<1>1. PICK r : r = [m EXCEPT !.shift = DefaultShift, !.control = DefaultPrgMode, !.prg_reg = PrgRamDisabled]
  OBVIOUS
<1>2. PICK u : u = UpdateMmc1(r, 0)
  OBVIOUS
<1>3. new = [u EXCEPT !.write_just_occurred = IF hard THEN 0 ELSE @]
  BY <1>1, <1>2 DEF ResetMmc1
<1>4. DefaultShift = 16 /\ DefaultPrgMode = 12 /\ PrgRamDisabled = 16
  BY DEF DefaultShift, DefaultPrgMode, PrgRamDisabled
<1>5. /\ DOMAIN r = DOMAIN m /\ r.kind = m.kind /\ r.prg = m.prg /\ r.chr = m.chr /\ r.chr0 = m.chr0
      /\ r.chr1 = m.chr1 /\ r.write_just_occurred = m.write_just_occurred /\ r.submapper = m.submapper
      /\ r.shift = DefaultShift /\ r.control = DefaultPrgMode /\ r.prg_reg = PrgRamDisabled
  BY <1>1 DEF SxromBase
<1>6. SxromBase(r)
  BY <1>4, <1>5 DEF SxromBase
<1>7. PrgMode(r) = 3
  <2>1. (12 \div 4) % 4 = 3
    OBVIOUS
  <2> QED BY <1>4, <1>5, <2>1, Powers DEF PrgMode, Bits
<1>8. SxromKept(u) /\ SameRegisters(r, u) /\ (r.submapper # 5 => LastShown(u, 1))
  BY <1>2, <1>6, <1>7, UpdatedMmc1
<1>9. PICK n \in Nat : n = IF hard THEN 0 ELSE m.write_just_occurred
  BY DEF SxromBase
<1>10. u.write_just_occurred = m.write_just_occurred
  BY <1>5, <1>8 DEF SameRegisters
<1>11. new = [u EXCEPT !.write_just_occurred = n]
  BY <1>3, <1>9, <1>10
<1>12. /\ DOMAIN new = DOMAIN u /\ new.kind = u.kind /\ new.prg = u.prg /\ new.chr = u.chr
       /\ new.shift = u.shift /\ new.submapper = u.submapper /\ new.write_just_occurred = n
       /\ new.control = u.control /\ new.chr0 = u.chr0 /\ new.chr1 = u.chr1 /\ new.prg_reg = u.prg_reg
  BY <1>8, <1>11 DEF SxromKept, SxromBase
<1>13. SxromKept(new)
  BY <1>8, <1>12 DEF SxromKept, SxromBase
<1>14. /\ new.control = DefaultPrgMode /\ new.prg_reg = PrgRamDisabled
       /\ new.chr0 = m.chr0 /\ new.chr1 = m.chr1
  BY <1>5, <1>8, <1>12 DEF SameRegisters
<1>15. new.shift = DefaultShift
  BY <1>5, <1>8, <1>12 DEF SameRegisters
<1>16. new.submapper # 5 => LastShown(new, 1)
  BY <1>8, <1>12 DEF SameRegisters, LastShown
<1> QED BY <1>9, <1>12, <1>13, <1>14, <1>15, <1>16

LEMMA LoadedMmc1 ==
  ASSUME NEW cart, cart.prg \in Nat \ {0}, cart.prg % 2 = 0, cart.chr \in Nat \ {0}, cart.chr % 2 = 0, NEW new
  PROVE  new = LoadMmc1(cart) =>
           /\ SxromKept(new) /\ new.submapper = cart.submapper /\ new.chr0 = 0 /\ new.chr1 = 0
           /\ new.write_just_occurred = 0
<1> SUFFICES ASSUME new = LoadMmc1(cart)
             PROVE  /\ SxromKept(new) /\ new.submapper = cart.submapper /\ new.chr0 = 0 /\ new.chr1 = 0
                    /\ new.write_just_occurred = 0
  OBVIOUS
<1>1. PICK p, c : p = NewBanks(2, cart.prg) /\ c = NewBanks(2, cart.chr)
  OBVIOUS
<1>2. PICK r : r = [kind |-> "Sxrom", mirroring |-> "SingleScreenA",
              write_just_occurred |-> 0, shift |-> DefaultShift, control |-> DefaultPrgMode,
              chr0 |-> 0, chr1 |-> 0, prg_reg |-> 0, revision |-> cart.revision,
              submapper |-> cart.submapper, chr_select |-> cart.prg = 32, chr |-> c, prg |-> p]
  OBVIOUS
<1>3. new = UpdateMmc1(r, 0)
  BY <1>1, <1>2 DEF LoadMmc1
<1>4. DefaultShift = 16 /\ DefaultPrgMode = 12
  BY DEF DefaultShift, DefaultPrgMode
<1>5. FreshBanks(p, Two, cart.prg) /\ FreshBanks(c, Two, cart.chr)
  BY <1>1, NewWindows
<1>6. Windows(p, Two) /\ p.pages % 2 = 0 /\ Windows(c, Two) /\ c.pages % 2 = 0
  BY <1>5 DEF FreshBanks
<1>7. SxromBase(r)
  BY <1>2, <1>4, <1>6 DEF SxromBase
<1>8. SxromKept(new) /\ SameRegisters(r, new)
  BY <1>3, <1>7, UpdatedMmc1
<1> QED BY <1>2, <1>8 DEF SameRegisters

LEMMA PortNames == \A addr \in Nat : Block(addr) \in 8..15 => SerialPort(addr) \in {"control", "chr0", "chr1", "prg"}
<1> SUFFICES ASSUME NEW addr \in Nat, NEW k \in Nat, k = Block(addr), k \in 8..15
             PROVE  SerialPort(addr) \in {"control", "chr0", "chr1", "prg"}
  BY DEF Block
<1> QED BY DEF SerialPort

(* What a write does to the port: an ignored write, a reset, one bit more, *)
(* or the fifth bit.                                                       *)
Sent(m, new, b) ==
  /\ m.shift % 2 = 0 /\ new.shift = (m.shift \div 2) + 16 * b
  /\ new.control = m.control /\ new.chr0 = m.chr0 /\ new.chr1 = m.chr1 /\ new.prg_reg = m.prg_reg

Arrived(m, new, addr, b) ==
  LET value == (m.shift \div 2) + 16 * b
  IN /\ m.shift % 2 = 1 /\ new.shift = DefaultShift
     /\ new.control = IF SerialPort(addr) = "control" THEN value ELSE m.control
     /\ new.chr0 = IF SerialPort(addr) = "chr0" THEN value ELSE m.chr0
     /\ new.chr1 = IF SerialPort(addr) = "chr1" THEN value ELSE m.chr1
     /\ new.prg_reg = IF SerialPort(addr) = "prg" THEN value ELSE m.prg_reg

TakesBit(m, new, addr, b) == Sent(m, new, b) \/ Arrived(m, new, addr, b)

LEMMA RegisterLoaded ==
  ASSUME NEW m, SxromBase(m), NEW addr \in Nat, Block(addr) \in 8..15, NEW value \in Nat, NEW new
  PROVE  new = Mmc1Register(m, addr, value) =>
           /\ SxromBase(new) /\ new.shift = m.shift /\ new.write_just_occurred = m.write_just_occurred
           /\ new.submapper = m.submapper
           /\ new.control = IF SerialPort(addr) = "control" THEN value ELSE m.control
           /\ new.chr0 = IF SerialPort(addr) = "chr0" THEN value ELSE m.chr0
           /\ new.chr1 = IF SerialPort(addr) = "chr1" THEN value ELSE m.chr1
           /\ new.prg_reg = IF SerialPort(addr) = "prg" THEN value ELSE m.prg_reg
<1> SUFFICES ASSUME new = Mmc1Register(m, addr, value)
             PROVE  /\ SxromBase(new) /\ new.shift = m.shift /\ new.write_just_occurred = m.write_just_occurred
                    /\ new.submapper = m.submapper
                    /\ new.control = IF SerialPort(addr) = "control" THEN value ELSE m.control
                    /\ new.chr0 = IF SerialPort(addr) = "chr0" THEN value ELSE m.chr0
                    /\ new.chr1 = IF SerialPort(addr) = "chr1" THEN value ELSE m.chr1
                    /\ new.prg_reg = IF SerialPort(addr) = "prg" THEN value ELSE m.prg_reg
  OBVIOUS
<1>1. PICK k \in Nat : k = Block(addr)
  BY DEF Block
<1>2. k \in 8..15
  BY <1>1
<1>3. CASE k \in 8..9
  <2>1. new = [m EXCEPT !.control = value] /\ SerialPort(addr) = "control"
    BY <1>1, <1>3 DEF Mmc1Register, SerialPort
  <2> QED BY <2>1 DEF SxromBase
<1>4. CASE k \in 10..11
  <2>1. new = [m EXCEPT !.chr0 = value] /\ SerialPort(addr) = "chr0"
    BY <1>1, <1>4 DEF Mmc1Register, SerialPort
  <2> QED BY <2>1 DEF SxromBase
<1>5. CASE k \in 12..13
  <2>1. new = [m EXCEPT !.chr1 = value] /\ SerialPort(addr) = "chr1"
    BY <1>1, <1>5 DEF Mmc1Register, SerialPort
  <2> QED BY <2>1 DEF SxromBase
<1>6. CASE k \in 14..15
  <2>1. new = [m EXCEPT !.prg_reg = value] /\ SerialPort(addr) = "prg"
    BY <1>1, <1>6 DEF Mmc1Register, SerialPort
  <2> QED BY <2>1 DEF SxromBase
<1> QED BY <1>2, <1>3, <1>4, <1>5, <1>6

LEMMA PortResets ==
  ASSUME NEW m, SxromKept(m), NEW new
  PROVE  new = ResetShift(m) =>
           /\ SxromKept(new) /\ new.shift = DefaultShift /\ new.control = PortReset(m.control)
           /\ new.chr0 = m.chr0 /\ new.chr1 = m.chr1 /\ new.prg_reg = m.prg_reg
           /\ new.write_just_occurred = m.write_just_occurred /\ new.submapper = m.submapper
<1> SUFFICES ASSUME new = ResetShift(m)
             PROVE  /\ SxromKept(new) /\ new.shift = DefaultShift /\ new.control = PortReset(m.control)
                    /\ new.chr0 = m.chr0 /\ new.chr1 = m.chr1 /\ new.prg_reg = m.prg_reg
                    /\ new.write_just_occurred = m.write_just_occurred /\ new.submapper = m.submapper
  OBVIOUS
<1>1. PICK c \in Nat : c = PortReset(m.control)
  <2>1. m.control \in Nat /\ Bits(m.control, 4, 1) \in 0..1
    BY ModeBits DEF SxromKept, SxromBase
  <2> QED BY <2>1 DEF PortReset
<1>2. PICK s \in Nat : s = DefaultShift
  BY DEF DefaultShift
<1>3. new = [m EXCEPT !.shift = s, !.control = c]
  BY <1>1, <1>2 DEF ResetShift, PortReset
<1>4. /\ DOMAIN new = DOMAIN m /\ new.kind = m.kind /\ new.prg = m.prg /\ new.chr = m.chr
      /\ new.shift = s /\ new.control = c /\ new.submapper = m.submapper
      /\ new.chr0 = m.chr0 /\ new.chr1 = m.chr1 /\ new.prg_reg = m.prg_reg
      /\ new.write_just_occurred = m.write_just_occurred
  BY <1>3 DEF SxromKept, SxromBase
<1>5. SxromKept(new)
  BY <1>4 DEF SxromKept, SxromBase
<1> QED BY <1>1, <1>2, <1>4, <1>5

AsBefore(m, new) == new.write_just_occurred = m.write_just_occurred /\ new.submapper = m.submapper

LEMMA BitArrives ==
  ASSUME NEW m, SxromKept(m), NEW addr \in Nat, Block(addr) \in 8..15, NEW val \in Nat, val < 256, NEW new
  PROVE  new = ShiftIn(m, addr, val) =>
           /\ SxromKept(new) /\ TakesBit(m, new, addr, val % 2)
           /\ AsBefore(m, new)
<1> SUFFICES ASSUME new = ShiftIn(m, addr, val)
             PROVE  /\ SxromKept(new) /\ TakesBit(m, new, addr, val % 2)
                    /\ AsBefore(m, new)
  OBVIOUS
<1>1. PICK b \in {0, 1} : b = val % 2
  OBVIOUS
<1>2. m.shift \in Nat
  BY DEF SxromKept, SxromBase
<1>3. PICK value \in Nat : value = (m.shift \div 2) + 16 * b
  BY <1>2
<1>4. CASE m.shift % 2 = 1
  <2>1. PICK e : e = [m EXCEPT !.shift = DefaultShift]
    OBVIOUS
  <2>2. PICK r : r = Mmc1Register(e, addr, value)
    OBVIOUS
  <2>3. new = UpdateMmc1(r, addr)
    BY <1>1, <1>3, <1>4, <2>1, <2>2 DEF ShiftIn
  <2>4. /\ DOMAIN e = DOMAIN m /\ e.kind = m.kind /\ e.prg = m.prg /\ e.chr = m.chr
        /\ e.shift = DefaultShift /\ e.submapper = m.submapper /\ e.control = m.control
        /\ e.chr0 = m.chr0 /\ e.chr1 = m.chr1 /\ e.prg_reg = m.prg_reg
        /\ e.write_just_occurred = m.write_just_occurred
    BY <2>1 DEF SxromKept, SxromBase
  <2>5. DefaultShift \in Nat
    BY DEF DefaultShift
  <2>6. SxromBase(e)
    BY <2>4, <2>5 DEF SxromKept, SxromBase
  <2>7. /\ SxromBase(r) /\ r.shift = e.shift /\ r.write_just_occurred = e.write_just_occurred
        /\ r.submapper = e.submapper
        /\ r.control = IF SerialPort(addr) = "control" THEN value ELSE e.control
        /\ r.chr0 = IF SerialPort(addr) = "chr0" THEN value ELSE e.chr0
        /\ r.chr1 = IF SerialPort(addr) = "chr1" THEN value ELSE e.chr1
        /\ r.prg_reg = IF SerialPort(addr) = "prg" THEN value ELSE e.prg_reg
    BY <2>2, <2>6, RegisterLoaded
  <2>8. SxromKept(new) /\ SameRegisters(r, new)
    BY <2>3, <2>7, UpdatedMmc1
  <2>9. Arrived(m, new, addr, b)
    BY <1>3, <1>4, <2>4, <2>7, <2>8 DEF Arrived, SameRegisters
  <2> QED BY <1>1, <2>4, <2>7, <2>8, <2>9 DEF SameRegisters, TakesBit, AsBefore
<1>5. CASE m.shift % 2 # 1
  <2>1. new = [m EXCEPT !.shift = value]
    BY <1>1, <1>3, <1>5 DEF ShiftIn
  <2>2. /\ DOMAIN new = DOMAIN m /\ new.kind = m.kind /\ new.prg = m.prg /\ new.chr = m.chr
        /\ new.shift = value /\ new.submapper = m.submapper /\ new.control = m.control
        /\ new.chr0 = m.chr0 /\ new.chr1 = m.chr1 /\ new.prg_reg = m.prg_reg
        /\ new.write_just_occurred = m.write_just_occurred
    BY <2>1 DEF SxromKept, SxromBase
  <2>3. SxromKept(new)
    BY <2>2 DEF SxromKept, SxromBase
  <2>4. m.shift % 2 = 0
    BY <1>2, <1>5
  <2>5. Sent(m, new, b)
    BY <1>3, <2>2, <2>4 DEF Sent
  <2> QED BY <1>1, <2>2, <2>3, <2>5 DEF TakesBit, AsBefore
<1> QED BY <1>4, <1>5

(* A write of the program, after the clock of its cycle. *)
Port(m, new, addr, val) ==
  /\ m.write_just_occurred > 0 => new = m
  /\ m.write_just_occurred = 0 => new.write_just_occurred = 2
  /\ m.write_just_occurred = 0 /\ Bit(val, 7) =>
       /\ new.shift = DefaultShift /\ new.control = PortReset(m.control)
       /\ new.chr0 = m.chr0 /\ new.chr1 = m.chr1 /\ new.prg_reg = m.prg_reg
  /\ m.write_just_occurred = 0 /\ ~Bit(val, 7) => TakesBit(m, new, addr, val % 2)

LEMMA WrittenMmc1 ==
  ASSUME NEW m, SxromKept(m), NEW addr \in Nat, Block(addr) \in 8..15, NEW val \in Nat, val < 256, NEW new
  PROVE  new = WriteMmc1(m, addr, val) =>
           SxromKept(new) /\ new.submapper = m.submapper /\ Port(m, new, addr, val)
<1> SUFFICES ASSUME new = WriteMmc1(m, addr, val)
             PROVE  SxromKept(new) /\ new.submapper = m.submapper /\ Port(m, new, addr, val)
  OBVIOUS
<1>1. m.write_just_occurred \in Nat
  BY DEF SxromKept, SxromBase
<1>2. CASE m.write_just_occurred > 0
  <2>1. new = m
    BY <1>2 DEF WriteMmc1
  <2>2. Port(m, m, addr, val)
    BY <1>1, <1>2 DEF Port
  <2> QED BY <2>1, <2>2
<1>3. CASE m.write_just_occurred = 0
  <2>1. PICK w : w = [m EXCEPT !.write_just_occurred = 2]
    OBVIOUS
  <2>2. /\ DOMAIN w = DOMAIN m /\ w.kind = m.kind /\ w.prg = m.prg /\ w.chr = m.chr
        /\ w.shift = m.shift /\ w.submapper = m.submapper /\ w.control = m.control
        /\ w.chr0 = m.chr0 /\ w.chr1 = m.chr1 /\ w.prg_reg = m.prg_reg
        /\ w.write_just_occurred = 2
    BY <2>1 DEF SxromKept, SxromBase
  <2>3. SxromKept(w)
    BY <2>2 DEF SxromKept, SxromBase
  <2>4. new = IF Bit(val, 7) THEN ResetShift(w) ELSE ShiftIn(w, addr, val)
    BY <1>3, <2>1 DEF WriteMmc1
  <2>5. CASE Bit(val, 7)
    <3>1. new = ResetShift(w)
      BY <2>4, <2>5
    <3>2. /\ SxromKept(new) /\ new.shift = DefaultShift /\ new.control = PortReset(w.control)
          /\ new.chr0 = w.chr0 /\ new.chr1 = w.chr1 /\ new.prg_reg = w.prg_reg
          /\ new.write_just_occurred = w.write_just_occurred /\ new.submapper = w.submapper
      BY <2>3, <3>1, PortResets
    <3> QED BY <1>3, <2>2, <2>5, <3>2 DEF Port
  <2>6. CASE ~Bit(val, 7)
    <3>1. new = ShiftIn(w, addr, val)
      BY <2>4, <2>6
    <3>2. SxromKept(new) /\ TakesBit(w, new, addr, val % 2)
      BY <2>3, <3>1, BitArrives
    <3>4. AsBefore(w, new)
      BY <2>3, <3>1, BitArrives
    <3>3. TakesBit(m, new, addr, val % 2)
      BY <2>2, <3>2 DEF TakesBit, Sent, Arrived
    <3> QED BY <1>3, <2>2, <2>6, <3>2, <3>3, <3>4 DEF Port, AsBefore
  <2> QED BY <2>5, <2>6
<1> QED BY <1>1, <1>2, <1>3

-----------------------------------------------------------------------------
(* MMC2. *)

PxromBase(m) ==
  /\ {"kind", "mirroring", "latch", "latch_banks", "chr", "prg"} \subseteq DOMAIN m
  /\ m.kind = "Pxrom"
  /\ DOMAIN m.latch = Two /\ m.latch[0] \in {0, 1} /\ m.latch[1] \in {0, 1}
  /\ DOMAIN m.latch_banks = Four /\ \A i \in Four : m.latch_banks[i] \in Nat
  /\ OnChip(m.prg, Four) /\ LastShown(m, 3)
  /\ Windows(m.chr, Two)

(* Each table shows the bank that its latch chooses. *)
PxromKept(m) ==
  /\ PxromBase(m) /\ OnChip(m.chr, Two)
  /\ m.chr.page[0] = m.latch_banks[m.latch[0]] % m.chr.pages
  /\ m.chr.page[1] = m.latch_banks[m.latch[1] + 2] % m.chr.pages

LEMMA UpdatedMmc2 ==
  ASSUME NEW m, PxromBase(m), NEW new
  PROVE  new = UpdateMmc2(m) => PxromKept(new) /\ new.latch = m.latch
<1> SUFFICES ASSUME new = UpdateMmc2(m) PROVE PxromKept(new) /\ new.latch = m.latch
  OBVIOUS
<1>1. m.latch[0] \in Four /\ m.latch[1] + 2 \in Four
  BY DEF PxromBase, Four
<1>2. PICK x, y \in Nat : x = m.latch_banks[m.latch[0]] /\ y = m.latch_banks[m.latch[1] + 2]
  BY <1>1 DEF PxromBase
<1>3. PICK c : c = SetBank(SetBank(m.chr, 0, x), 1, y)
  OBVIOUS
<1>4. new = [m EXCEPT !.chr = c]
  BY <1>2, <1>3 DEF UpdateMmc2
<1>5. Windows(m.chr, Two)
  BY DEF PxromBase
<1>6. OnChip(c, Two) /\ c.pages = m.chr.pages /\ c.page[0] = x % m.chr.pages /\ c.page[1] = y % m.chr.pages
  BY <1>3, <1>5, BothSet
<1>7. /\ DOMAIN new = DOMAIN m /\ new.kind = m.kind /\ new.latch = m.latch /\ new.chr = c
      /\ new.latch_banks = m.latch_banks /\ new.prg = m.prg
  BY <1>4 DEF PxromBase
<1>8. PxromBase(new)
  BY <1>6, <1>7 DEF PxromBase, LastShown, OnChip
<1> QED BY <1>2, <1>6, <1>7, <1>8 DEF PxromKept

Fetch(r) == r.table \in {0, 1} /\ r.tile \in {0, \hFD, \hFE}

LEMMA FetchedMmc2 ==
  ASSUME NEW m, PxromKept(m), NEW r, Fetch(r), NEW new
  PROVE  new = FetchMmc2(m, r) =>
           /\ PxromKept(new)
           /\ SetsLatch(r) => new.latch = [m.latch EXCEPT ![r.table] = r.tile - \hFD] /\ r.tile - \hFD \in {0, 1}
           /\ ~SetsLatch(r) => new = m
<1> SUFFICES ASSUME new = FetchMmc2(m, r)
             PROVE  /\ PxromKept(new)
                    /\ SetsLatch(r) => new.latch = [m.latch EXCEPT ![r.table] = r.tile - \hFD] /\ r.tile - \hFD \in {0, 1}
                    /\ ~SetsLatch(r) => new = m
  OBVIOUS
<1>1. CASE SetsLatch(r)
  <2>1. PICK k \in {0, 1} : k = r.tile - \hFD
    BY <1>1 DEF SetsLatch
  <2>2. PICK n : n = [m EXCEPT !.latch = [m.latch EXCEPT ![r.table] = k]]
    OBVIOUS
  <2>3. [m EXCEPT !.latch[r.table] = k] = [m EXCEPT !.latch = [m.latch EXCEPT ![r.table] = k]]
    BY Zenon DEF PxromKept, PxromBase
  <2>4. new = UpdateMmc2(n)
    BY <1>1, <2>1, <2>2, <2>3 DEF FetchMmc2
  <2>5. /\ DOMAIN n = DOMAIN m /\ n.kind = m.kind /\ n.chr = m.chr /\ n.prg = m.prg
        /\ n.latch_banks = m.latch_banks /\ n.latch = [m.latch EXCEPT ![r.table] = k]
    BY <2>2 DEF PxromKept, PxromBase
  <2>6. DOMAIN n.latch = Two /\ n.latch[0] \in {0, 1} /\ n.latch[1] \in {0, 1}
    BY <2>5, Numbers DEF PxromKept, PxromBase
  <2>7. PxromBase(n)
    BY <2>5, <2>6 DEF PxromKept, PxromBase, LastShown
  <2>8. PxromKept(new) /\ new.latch = n.latch
    BY <2>4, <2>7, UpdatedMmc2
  <2> QED BY <1>1, <2>1, <2>5, <2>8
<1>2. CASE ~SetsLatch(r)
  BY <1>2 DEF FetchMmc2
<1> QED BY <1>1, <1>2

LEMMA WrittenMmc2 ==
  ASSUME NEW m, PxromKept(m), NEW addr \in Nat, NEW val \in Nat, val < 256, NEW new
  PROVE  new = WriteMmc2(m, addr, val) => PxromKept(new) /\ new.latch = m.latch
<1> SUFFICES ASSUME new = WriteMmc2(m, addr, val) PROVE PxromKept(new) /\ new.latch = m.latch
  OBVIOUS
<1>1. PICK k \in Nat : k = Block(addr)
  BY DEF Block
<1>2. PICK x \in Nat, y \in Nat : x = val % 16 /\ y = val % 32
  OBVIOUS
<1>3. CASE k = 10
  <2>1. PICK b : b = SetBank(m.prg, 0, x)
    OBVIOUS
  <2>2. new = [m EXCEPT !.prg = b]
    BY <1>1, <1>2, <1>3, <2>1 DEF WriteMmc2
  <2>3. OnChip(m.prg, Four) /\ 0 \in Four
    BY Numbers DEF PxromKept, PxromBase
  <2>4. OnChip(b, Four) /\ OneSet(m.prg, b, Four, 0, x % m.prg.pages)
    BY <2>1, <2>3, BankStays
  <2>5. b.page[3] = LastPage(b)
    BY <2>4 DEF PxromKept, PxromBase, LastShown, LastPage, OneSet, Four
  <2>6. /\ DOMAIN new = DOMAIN m /\ new.kind = m.kind /\ new.latch = m.latch /\ new.chr = m.chr
        /\ new.latch_banks = m.latch_banks /\ new.prg = b
    BY <2>2 DEF PxromKept, PxromBase
  <2> QED BY <2>4, <2>5, <2>6 DEF PxromKept, PxromBase, LastShown
<1>4. CASE k \in 11..14
  <2>1. PICK i \in 0..3 : i = k - 11
    BY <1>4
  <2>2. PICK banks : banks = [m.latch_banks EXCEPT ![i] = y]
    OBVIOUS
  <2>3. PICK n : n = [m EXCEPT !.latch_banks = banks]
    OBVIOUS
  <2>4. [m EXCEPT !.latch_banks[i] = y] = [m EXCEPT !.latch_banks = [m.latch_banks EXCEPT ![i] = y]]
    BY Zenon DEF PxromKept, PxromBase
  <2>5. new = UpdateMmc2(n)
    BY <1>1, <1>2, <1>4, <2>1, <2>2, <2>3, <2>4 DEF WriteMmc2
  <2>6. /\ DOMAIN n = DOMAIN m /\ n.kind = m.kind /\ n.chr = m.chr /\ n.prg = m.prg
        /\ n.latch = m.latch /\ n.latch_banks = banks
    BY <2>3 DEF PxromKept, PxromBase
  <2>7. DOMAIN banks = Four /\ \A j \in Four : banks[j] \in Nat
    BY <2>2 DEF PxromKept, PxromBase
  <2>8. PxromBase(n)
    BY <2>6, <2>7 DEF PxromKept, PxromBase, LastShown
  <2>9. PxromKept(new) /\ new.latch = n.latch
    BY <2>5, <2>8, UpdatedMmc2
  <2> QED BY <2>6, <2>9
<1>5. CASE k = 15
  <2>0. PICK name : name = IF val % 2 = 0 THEN "Vertical" ELSE "Horizontal"
    OBVIOUS
  <2>1. new = [m EXCEPT !.mirroring = name]
    BY <1>1, <1>5, <2>0 DEF WriteMmc2
  <2>2. /\ DOMAIN new = DOMAIN m /\ new.kind = m.kind /\ new.latch = m.latch /\ new.chr = m.chr
        /\ new.latch_banks = m.latch_banks /\ new.prg = m.prg
    BY <2>1 DEF PxromKept, PxromBase
  <2> QED BY <2>2 DEF PxromKept, PxromBase, LastShown
<1>6. CASE k # 10 /\ k \notin 11..14 /\ k # 15
  BY <1>1, <1>6 DEF WriteMmc2
<1> QED BY <1>3, <1>4, <1>5, <1>6

LEMMA ResetLatches ==
  ASSUME NEW m, PxromBase(m), NEW new
  PROVE  new = ResetMmc2(m) => PxromKept(new) /\ new.latch = [t \in 0..1 |-> 0]
<1> SUFFICES ASSUME new = ResetMmc2(m) PROVE PxromKept(new) /\ new.latch = [t \in 0..1 |-> 0]
  OBVIOUS
<1>1. PICK latch, banks : latch = [t \in 0..1 |-> 0] /\ banks = [i \in 0..3 |-> 0]
  OBVIOUS
<1>2. PICK n : n = [m EXCEPT !.latch = latch, !.latch_banks = banks]
  OBVIOUS
<1>3. new = UpdateMmc2(n)
  BY <1>1, <1>2 DEF ResetMmc2
<1>4. /\ DOMAIN n = DOMAIN m /\ n.kind = m.kind /\ n.chr = m.chr /\ n.prg = m.prg
      /\ n.latch = latch /\ n.latch_banks = banks
  BY <1>2 DEF PxromBase
<1>5. DOMAIN latch = Two /\ latch[0] = 0 /\ latch[1] = 0 /\ DOMAIN banks = Four /\ \A i \in Four : banks[i] = 0
  BY <1>1 DEF Two, Four
<1>6. PxromBase(n)
  BY <1>4, <1>5 DEF PxromBase, LastShown
<1>7. PxromKept(new) /\ new.latch = n.latch
  BY <1>3, <1>6, UpdatedMmc2
<1> QED BY <1>1, <1>4, <1>7

LEMMA LoadedMmc2 ==
  ASSUME NEW cart, cart.prg \in Nat \ {0}, cart.chr \in Nat, NEW new
  PROVE  new = LoadMmc2(cart) => PxromBase(new)
<1> SUFFICES ASSUME new = LoadMmc2(cart) PROVE PxromBase(new)
  OBVIOUS
<1>1. PICK rom, c : rom = NewBanks(4, cart.prg) /\ c = NewBanks(2, cart.chr)
  OBVIOUS
<1>2. FreshBanks(rom, Four, cart.prg) /\ FreshBanks(c, Two, cart.chr)
  BY <1>1, NewWindows
<1>3. PICK last \in Nat : last = cart.prg - 1 /\ LastPage(rom) = last
  BY <1>2 DEF FreshBanks, LastPage
<1>4. PICK b1 : b1 = SetBank(rom, 1, last - 2)
  OBVIOUS
<1>5. PICK b2 : b2 = SetBank(b1, 2, last - 1)
  OBVIOUS
<1>6. PICK b3 : b3 = SetBank(b2, 3, last)
  OBVIOUS
<1>7. PICK latch, banks : latch = [t \in 0..1 |-> 0] /\ banks = [i \in 0..3 |-> 0]
  OBVIOUS
<1>8. new = [kind |-> "Pxrom", mirroring |-> cart.mirroring, latch |-> latch, latch_banks |-> banks,
             chr |-> c, prg |-> b3]
  BY <1>1, <1>3, <1>4, <1>5, <1>6, <1>7 DEF LoadMmc2
<1>9. last - 2 \in Int /\ last - 1 \in Int /\ 1 \in Four /\ 2 \in Four /\ 3 \in Four
  BY Numbers
<1>10. Windows(rom, Four)
  BY <1>2 DEF FreshBanks
<1>11. OneSet(rom, b1, Four, 1, (last - 2) % rom.pages)
  BY <1>4, <1>9, <1>10, ABankSet
<1>12. Windows(b1, Four)
  BY <1>11 DEF OneSet
<1>13. OneSet(b1, b2, Four, 2, (last - 1) % b1.pages)
  BY <1>5, <1>9, <1>12, ABankSet
<1>14. Windows(b2, Four)
  BY <1>13 DEF OneSet
<1>15. OneSet(b2, b3, Four, 3, last % b2.pages)
  BY <1>6, <1>9, <1>14, ABankSet
<1>16. b3.pages = cart.prg /\ b2.pages = cart.prg /\ b1.pages = cart.prg /\ rom.page[0] = 0
  BY <1>2, <1>11, <1>13, <1>15 DEF FreshBanks, OneSet, Four
<1>17. last % cart.prg = last
  BY <1>3
<1>18. OnChip(b3, Four)
  BY <1>11, <1>13, <1>15, <1>16 DEF OnChip, OneSet, Four
<1>19. b3.page[3] = LastPage(b3)
  BY <1>3, <1>15, <1>16, <1>17 DEF OneSet, LastPage
<1>20. DOMAIN latch = Two /\ latch[0] = 0 /\ latch[1] = 0 /\ DOMAIN banks = Four /\ \A i \in Four : banks[i] = 0
  BY <1>7 DEF Two, Four
<1>21. Windows(c, Two)
  BY <1>2 DEF FreshBanks
<1> QED BY <1>8, <1>18, <1>19, <1>20, <1>21 DEF PxromBase, LastShown

-----------------------------------------------------------------------------
(* MMC3. *)

TxromFields ==
  {"kind", "mirroring", "irq_pending", "revision", "chr", "prg", "bank_select", "bank_values", "irq_latch",
   "irq_counter", "irq_enabled", "irq_reload", "last_clock"}

TxromBase(m) ==
  /\ TxromFields \subseteq DOMAIN m /\ m.kind = "Txrom"
  /\ m.bank_select \in Nat /\ DOMAIN m.bank_values = Eight /\ \A i \in Eight : m.bank_values[i] \in Nat
  /\ m.irq_pending \in BOOLEAN /\ m.irq_enabled \in BOOLEAN /\ m.irq_reload \in BOOLEAN
  /\ m.irq_latch \in Nat /\ m.irq_latch < 256 /\ m.irq_counter \in Nat /\ m.last_clock \in {0, 1}
  /\ Windows(m.prg, Four)
  /\ Windows(m.chr, Eight) /\ m.chr.pages % 2 = 0

TxromKept(m) == TxromBase(m) /\ OnChip(m.prg, Four) /\ LastShown(m, 3) /\ OnChip(m.chr, Eight)

SameIrq(m, n) ==
  /\ n.irq_pending = m.irq_pending /\ n.irq_latch = m.irq_latch /\ n.irq_counter = m.irq_counter
  /\ n.irq_enabled = m.irq_enabled /\ n.irq_reload = m.irq_reload /\ n.last_clock = m.last_clock
  /\ n.revision = m.revision

(* The program's four windows. *)
ProgramSet(b, one, x, y, z) == SetBank(SetBank(SetBank(SetBank(b, one, x), 1, y), 2 - one, z), 3, LastPage(b))

LEMMA ProgramMmc3 ==
  ASSUME NEW b, Windows(b, Four), NEW one \in {0, 2}, NEW x \in Int, NEW y \in Int, NEW z \in Int, NEW c
  PROVE  c = ProgramSet(b, one, x, y, z) =>
           OnChip(c, Four) /\ c.page[3] = LastPage(c)
<1> SUFFICES ASSUME c = ProgramSet(b, one, x, y, z)
             PROVE  OnChip(c, Four) /\ c.page[3] = LastPage(c)
  OBVIOUS
<1>0. PICK other \in Int : other = 2 - one
  OBVIOUS
<1>1. PICK b1 : b1 = SetBank(b, one, x)
  OBVIOUS
<1>2. PICK b2 : b2 = SetBank(b1, 1, y)
  OBVIOUS
<1>3. PICK b3 : b3 = SetBank(b2, other, z)
  OBVIOUS
<1>4. PICK last \in Nat : last = b.pages - 1 /\ LastPage(b) = last
  BY DEF Windows, LastPage
<1>5. c = SetBank(b3, 3, last)
  BY <1>0, <1>1, <1>2, <1>3, <1>4 DEF ProgramSet
<1>6. one \in Int /\ one \in Four /\ 1 \in Four /\ other \in Four /\ 3 \in Four
  BY <1>0 DEF Four
<1>7. OneSet(b, b1, Four, one, x % b.pages)
  BY <1>1, <1>6, ABankSet
<1>8. Windows(b1, Four)
  BY <1>7 DEF OneSet
<1>9. OneSet(b1, b2, Four, 1, y % b1.pages)
  BY <1>2, <1>6, <1>8, ABankSet
<1>10. Windows(b2, Four)
  BY <1>9 DEF OneSet
<1>11. OneSet(b2, b3, Four, other, z % b2.pages)
  BY <1>3, <1>6, <1>10, ABankSet
<1>12. Windows(b3, Four)
  BY <1>11 DEF OneSet
<1>13. OneSet(b3, c, Four, 3, last % b3.pages)
  BY <1>5, <1>6, <1>12, ABankSet
<1>14. c.pages = b.pages /\ b3.pages = b.pages /\ b2.pages = b.pages /\ b1.pages = b.pages
  BY <1>7, <1>9, <1>11, <1>13 DEF OneSet
<1>15. last % b.pages = last
  <2>1. PICK n \in Nat \ {0} : n = b.pages
    BY DEF Windows
  <2> QED BY <1>4, <2>1
<1>16. c.page[3] = LastPage(c)
  BY <1>4, <1>13, <1>14, <1>15 DEF OneSet, LastPage
<1>17. \A i \in Four : c.page[i] \in Nat /\ c.page[i] < c.pages
  <2>1. c.page[3] \in Nat /\ c.page[3] < c.pages
    BY <1>13, <1>14 DEF OneSet
  <2>2. c.page[other] \in Nat /\ c.page[other] < c.pages
    BY <1>0, <1>6, <1>11, <1>13, <1>14 DEF OneSet
  <2>3. c.page[1] \in Nat /\ c.page[1] < c.pages
    BY <1>0, <1>6, <1>9, <1>11, <1>13, <1>14 DEF OneSet
  <2>4. c.page[one] \in Nat /\ c.page[one] < c.pages
    BY <1>0, <1>6, <1>7, <1>9, <1>11, <1>13, <1>14 DEF OneSet
  <2> QED BY <1>0, <2>1, <2>2, <2>3, <2>4 DEF Four
<1> QED BY <1>13, <1>16, <1>17 DEF OnChip, OneSet

(* The patterns' eight windows: two of 2 KB and four of 1 KB. *)
PatternsSet(b, two, v) ==
  LET b2 == SetRange(SetRange(b, two, two + 1, Even(v[0])), two + 2, two + 3, Even(v[1]))
  IN [b2 EXCEPT !.page = [w \in 0..7 |->
        IF w \div 4 = two \div 4 THEN b2.page[w] ELSE v[2 + (w % 4)] % b2.pages]]

LEMMA PatternsMmc3 ==
  ASSUME NEW b, Windows(b, Eight), b.pages % 2 = 0, NEW two \in {0, 4},
         NEW v, \A i \in Eight : v[i] \in Nat, NEW c
  PROVE  c = PatternsSet(b, two, v) => OnChip(c, Eight) /\ c.pages = b.pages
<1> SUFFICES ASSUME c = PatternsSet(b, two, v)
             PROVE  OnChip(c, Eight) /\ c.pages = b.pages
  OBVIOUS
<1>0. PICK b2 : b2 = SetRange(SetRange(b, two, two + 1, Even(v[0])), two + 2, two + 3, Even(v[1]))
  OBVIOUS
<1>1. PICK e0 \in Int : e0 = Even(v[0]) /\ e0 % 2 = 0
  BY EvenIs, Numbers
<1>2. PICK e1 \in Int : e1 = Even(v[1]) /\ e1 % 2 = 0
  BY EvenIs, Numbers
<1>3. PICK b1 : b1 = SetRange(b, two, two + 1, e0)
  OBVIOUS
<1>4. PICK third \in Int : third = two + 2
  OBVIOUS
<1>5. two + 3 = third + 1 /\ two \in Int /\ two \in Eight /\ two + 1 \in Eight /\ third \in Eight /\ third + 1 \in Eight
  BY <1>4 DEF Eight
<1>6. b2 = SetRange(b1, third, third + 1, e1)
  BY <1>0, <1>1, <1>2, <1>3, <1>4, <1>5
<1>7. Eight \in SUBSET Int
  BY Numbers
<1>8. Ranged(b, b1, Eight, two)
  BY <1>1, <1>3, <1>5, <1>7, ARangeSet
<1>9. Windows(b1, Eight) /\ b1.pages % 2 = 0
  BY <1>8 DEF Ranged
<1>10. Ranged(b1, b2, Eight, third)
  BY <1>2, <1>5, <1>6, <1>7, <1>9, ARangeSet
<1>11. /\ b2.pages = b.pages /\ Windows(b2, Eight)
       /\ \A i \in Eight : i = two \/ i = two + 1 \/ i = two + 2 \/ i = two + 3 =>
            b2.page[i] \in Nat /\ b2.page[i] < b.pages
  BY <1>4, <1>5, <1>8, <1>10 DEF Ranged
<1>12. PICK new : new = [w \in 0..7 |->
                 IF w \div 4 = two \div 4 THEN b2.page[w] ELSE v[2 + (w % 4)] % b2.pages]
  OBVIOUS
<1>13. /\ {"pages", "page"} \subseteq DOMAIN c /\ c.pages = b.pages /\ c.page = new
  <2>1. c = [b2 EXCEPT !.page = new]
    BY <1>0, <1>12 DEF PatternsSet
  <2> QED BY <1>11, <2>1 DEF Windows
<1>14. DOMAIN new = Eight
  BY <1>12 DEF Eight
<1>15. \A w \in Eight : new[w] \in Nat /\ new[w] < b.pages
  <2> SUFFICES ASSUME NEW w \in 0..7 PROVE new[w] \in Nat /\ new[w] < b.pages
    BY DEF Eight
  <2>0. w \in Eight /\ w \in Int
    BY DEF Eight
  <2>1. CASE w \div 4 = two \div 4
    <3>1. w = two \/ w = two + 1 \/ w = two + 2 \/ w = two + 3
      BY <2>1
    <3>2. new[w] = b2.page[w]
      BY <1>12, <2>1
    <3> QED BY <1>11, <2>0, <3>1, <3>2
  <2>2. CASE w \div 4 # two \div 4
    <3>1. PICK k \in 0..7 : k = 2 + (w % 4)
      OBVIOUS
    <3>2. k \in Eight
      BY DEF Eight
    <3>3. PICK x \in Nat : x = v[k]
      BY <3>2
    <3>4. new[w] = x % b2.pages
      BY <1>12, <2>2, <3>1, <3>3
    <3>5. b2.pages \in Nat \ {0}
      BY <1>11 DEF Windows
    <3> QED BY <1>11, <3>4, <3>5, Remainder
  <2> QED BY <2>1, <2>2
<1> QED BY <1>11, <1>13, <1>14, <1>15 DEF OnChip, Windows

LEMMA UpdatedMmc3 ==
  ASSUME NEW m, TxromBase(m), NEW new
  PROVE  new = UpdateMmc3(m) => TxromKept(new) /\ SameIrq(m, new)
<1> SUFFICES ASSUME new = UpdateMmc3(m) PROVE TxromKept(new) /\ SameIrq(m, new)
  OBVIOUS
<1>1. PICK one \in {0, 2} : one = IF Bit(m.bank_select, 6) THEN 0 ELSE 2
  OBVIOUS
<1>2. PICK two \in {0, 4} : two = IF Bit(m.bank_select, 7) THEN 4 ELSE 0
  OBVIOUS
<1>3. PICK v : v = m.bank_values
  OBVIOUS
<1>4. \A i \in Eight : v[i] \in Nat
  BY <1>3 DEF TxromBase
<1>5. Windows(m.prg, Four) /\ Windows(m.chr, Eight) /\ m.chr.pages % 2 = 0
  BY DEF TxromBase
<1>6. PICK last \in Nat : last = LastPage(m.prg)
  BY <1>5 DEF LastPage, Windows
<1>7. PICK x, y, z \in Int : x = last - 1 /\ y = v[7] /\ z = v[6]
  BY <1>4, Numbers
<1>8. PICK p : p = ProgramSet(m.prg, one, x, y, z)
  OBVIOUS
<1>9. PICK c : c = PatternsSet(m.chr, two, v)
  OBVIOUS
<1>10. new = [m EXCEPT !.prg = p, !.chr = c]
  BY <1>1, <1>2, <1>3, <1>6, <1>7, <1>8, <1>9, ZenonT(60) DEF UpdateMmc3, ProgramSet, PatternsSet
<1>12. OnChip(p, Four) /\ p.page[3] = LastPage(p)
  BY <1>5, <1>8, ProgramMmc3
<1>13. OnChip(c, Eight) /\ c.pages = m.chr.pages
  BY <1>4, <1>5, <1>9, PatternsMmc3
<1>14. /\ DOMAIN new = DOMAIN m /\ new.kind = m.kind /\ new.prg = p /\ new.chr = c
       /\ new.bank_select = m.bank_select /\ new.bank_values = m.bank_values
       /\ SameIrq(m, new)
  BY <1>10 DEF TxromBase, TxromFields, SameIrq
<1>15. TxromBase(new)
  BY <1>12, <1>13, <1>14 DEF TxromBase, SameIrq, OnChip
<1> QED BY <1>12, <1>13, <1>14, <1>15 DEF TxromKept, LastShown

TxromAddresses == {\h8000, \h8001, \hA000, \hA001, \hC000, \hC001, \hE000, \hE001}

(* The fetch of an address: an edge counts, the rest stays. *)
Clocked(m, new, a12) ==
  /\ new.last_clock = a12
  /\ new.irq_latch = m.irq_latch /\ new.irq_enabled = m.irq_enabled /\ new.revision = m.revision
  /\ Edge(m, a12) => /\ new.irq_counter = Counted(m) /\ (new.irq_pending <=> m.irq_pending \/ Trips(m))
                     /\ ~new.irq_reload
  /\ ~Edge(m, a12) => /\ new.irq_counter = m.irq_counter /\ new.irq_pending = m.irq_pending
                      /\ new.irq_reload = m.irq_reload

LEMMA CountedType == ASSUME NEW m, TxromBase(m) PROVE Counted(m) \in Nat /\ (Trips(m) \in BOOLEAN)
BY DEF Counted, Trips, TxromBase

LEMMA ClockedMmc3 ==
  ASSUME NEW m, TxromKept(m), NEW a12 \in {0, 1}, NEW new
  PROVE  new = ClockIrq(m, a12) => TxromKept(new) /\ Clocked(m, new, a12)
<1> SUFFICES ASSUME new = ClockIrq(m, a12) PROVE TxromKept(new) /\ Clocked(m, new, a12)
  OBVIOUS
<1>1. PICK counter \in Nat : counter = Counted(m)
  BY CountedType DEF TxromKept
<1>2. PICK tripped \in BOOLEAN : tripped <=> m.irq_pending \/ Trips(m)
  OBVIOUS
<1>3. CASE Edge(m, a12)
  <2>1. new = [[m EXCEPT !.irq_counter = Counted(m), !.irq_pending = @ \/ Trips(m), !.irq_reload = FALSE]
                 EXCEPT !.last_clock = a12]
    BY <1>3 DEF ClockIrq
  <2>2. [m EXCEPT !.irq_counter = Counted(m), !.irq_pending = @ \/ Trips(m), !.irq_reload = FALSE]
        = [m EXCEPT !.irq_counter = Counted(m), !.irq_pending = m.irq_pending \/ Trips(m), !.irq_reload = FALSE]
    BY DEF TxromKept, TxromBase, TxromFields
  <2>3. (m.irq_pending \/ Trips(m)) = tripped
    BY <1>2
  <2>4. new = [[m EXCEPT !.irq_counter = counter, !.irq_pending = tripped, !.irq_reload = FALSE]
                 EXCEPT !.last_clock = a12]
    BY <1>1, <2>1, <2>2, <2>3
  <2>5. /\ DOMAIN new = DOMAIN m /\ new.kind = m.kind /\ new.prg = m.prg /\ new.chr = m.chr
        /\ new.bank_select = m.bank_select /\ new.bank_values = m.bank_values
        /\ new.irq_latch = m.irq_latch /\ new.irq_enabled = m.irq_enabled /\ new.revision = m.revision
        /\ new.irq_counter = counter /\ new.irq_pending = tripped /\ new.irq_reload = FALSE
        /\ new.last_clock = a12
    BY <2>4 DEF TxromKept, TxromBase, TxromFields
  <2>6. TxromKept(new)
    BY <2>5 DEF TxromKept, TxromBase, LastShown
  <2> QED BY <1>1, <1>2, <1>3, <2>5, <2>6 DEF Clocked
<1>4. CASE ~Edge(m, a12)
  <2>1. new = [m EXCEPT !.last_clock = a12]
    BY <1>4 DEF ClockIrq
  <2>2. /\ DOMAIN new = DOMAIN m /\ new.kind = m.kind /\ new.prg = m.prg /\ new.chr = m.chr
        /\ new.bank_select = m.bank_select /\ new.bank_values = m.bank_values
        /\ new.irq_latch = m.irq_latch /\ new.irq_enabled = m.irq_enabled /\ new.revision = m.revision
        /\ new.irq_counter = m.irq_counter /\ new.irq_pending = m.irq_pending
        /\ new.irq_reload = m.irq_reload /\ new.last_clock = a12
    BY <2>1 DEF TxromKept, TxromBase, TxromFields
  <2>3. TxromKept(new)
    BY <2>2 DEF TxromKept, TxromBase, LastShown
  <2> QED BY <1>4, <2>2, <2>3 DEF Clocked
<1> QED BY <1>3, <1>4

(* A write of the program. *)
Commanded(m, new, addr) ==
  /\ new.last_clock = m.last_clock /\ new.revision = m.revision
  /\ addr = \hC001 => /\ new.irq_reload /\ new.irq_pending = m.irq_pending /\ new.irq_latch = m.irq_latch
                      /\ new.irq_enabled = m.irq_enabled
  /\ addr = \hE001 => /\ new.irq_reload = m.irq_reload /\ new.irq_pending = m.irq_pending
                      /\ new.irq_latch = m.irq_latch /\ new.irq_counter = m.irq_counter
  /\ addr = \hC000 => new.irq_counter = m.irq_counter
  /\ addr \notin {\hC000, \hC001, \hE000, \hE001} => SameIrq(m, new)

(* What the registers of the IRQ leave alone. *)
Pieces(m, n) ==
  /\ n.kind = m.kind /\ n.prg = m.prg /\ n.chr = m.chr
  /\ n.bank_select = m.bank_select /\ n.bank_values = m.bank_values
  /\ n.last_clock = m.last_clock /\ n.irq_counter = m.irq_counter /\ n.revision = m.revision

LEMMA WrittenMmc3 ==
  ASSUME NEW m, TxromKept(m), NEW addr \in TxromAddresses, NEW val \in Nat, val < 256, NEW new
  PROVE  new = WriteMmc3(m, addr, val) => TxromKept(new) /\ Commanded(m, new, addr)
<1> SUFFICES ASSUME new = WriteMmc3(m, addr, val) PROVE TxromKept(new) /\ Commanded(m, new, addr)
  OBVIOUS
<1>0. TxromFields \subseteq DOMAIN m
  BY DEF TxromKept, TxromBase
<1>1. CASE addr = \h8000
  <2>1. PICK n : n = [m EXCEPT !.bank_select = val]
    OBVIOUS
  <2>2. new = UpdateMmc3(n)
    BY <1>1, <2>1 DEF WriteMmc3
  <2>3. /\ DOMAIN n = DOMAIN m /\ n.kind = m.kind /\ n.prg = m.prg /\ n.chr = m.chr
        /\ n.bank_select = val /\ n.bank_values = m.bank_values /\ SameIrq(m, n)
    BY <1>0, <2>1 DEF TxromFields, SameIrq
  <2>4. TxromBase(n)
    BY <2>3 DEF TxromKept, TxromBase, SameIrq
  <2>5. TxromKept(new) /\ SameIrq(n, new)
    BY <2>2, <2>4, UpdatedMmc3
  <2> QED BY <1>1, <2>3, <2>5 DEF SameIrq, Commanded
<1>2. CASE addr = \h8001
  <2>0. PICK k : k = m.bank_select % 8
    OBVIOUS
  <2>1. PICK banks : banks = [m.bank_values EXCEPT ![k] = val]
    OBVIOUS
  <2>2. PICK n : n = [m EXCEPT !.bank_values = banks]
    OBVIOUS
  <2>3. [m EXCEPT !.bank_values[k] = val] = [m EXCEPT !.bank_values = [m.bank_values EXCEPT ![k] = val]]
    BY <1>0, Zenon DEF TxromFields
  <2>4. new = UpdateMmc3(n)
    BY <1>2, <2>0, <2>1, <2>2, <2>3 DEF WriteMmc3
  <2>5. /\ DOMAIN n = DOMAIN m /\ n.kind = m.kind /\ n.prg = m.prg /\ n.chr = m.chr
        /\ n.bank_select = m.bank_select /\ n.bank_values = banks /\ SameIrq(m, n)
    BY <1>0, <2>2 DEF TxromFields, SameIrq
  <2>6. DOMAIN banks = Eight /\ \A i \in Eight : banks[i] \in Nat
    BY <2>1 DEF TxromKept, TxromBase
  <2>7. TxromBase(n)
    BY <2>5, <2>6 DEF TxromKept, TxromBase, SameIrq
  <2>8. TxromKept(new) /\ SameIrq(n, new)
    BY <2>4, <2>7, UpdatedMmc3
  <2> QED BY <1>2, <2>5, <2>8 DEF SameIrq, Commanded
<1>3. CASE addr = \hA000
  <2>1. CASE m.mirroring = "FourScreen"
    BY <1>3, <2>1 DEF WriteMmc3, Commanded, SameIrq
  <2>2. CASE m.mirroring # "FourScreen"
    <3>1. PICK name : name = IF val % 2 = 0 THEN "Vertical" ELSE "Horizontal"
      OBVIOUS
    <3>2. PICK n : n = [m EXCEPT !.mirroring = name]
      OBVIOUS
    <3>3. new = UpdateMmc3(n)
      BY <1>3, <2>2, <3>1, <3>2 DEF WriteMmc3
    <3>4. /\ DOMAIN n = DOMAIN m /\ n.kind = m.kind /\ n.prg = m.prg /\ n.chr = m.chr
          /\ n.bank_select = m.bank_select /\ n.bank_values = m.bank_values /\ SameIrq(m, n)
      BY <1>0, <3>2 DEF TxromFields, SameIrq
    <3>5. TxromBase(n)
      BY <3>4 DEF TxromKept, TxromBase, SameIrq
    <3>6. TxromKept(new) /\ SameIrq(n, new)
      BY <3>3, <3>5, UpdatedMmc3
    <3> QED BY <1>3, <3>4, <3>6 DEF SameIrq, Commanded
  <2> QED BY <2>1, <2>2
<1>4. CASE addr = \hA001
  BY <1>4 DEF WriteMmc3, Commanded, SameIrq
<1>5. CASE addr = \hC000
  <2>1. new = [m EXCEPT !.irq_latch = val]
    BY <1>5 DEF WriteMmc3
  <2>2. /\ DOMAIN new = DOMAIN m /\ Pieces(m, new) /\ new.irq_latch = val
        /\ new.irq_reload = m.irq_reload /\ new.irq_pending = m.irq_pending /\ new.irq_enabled = m.irq_enabled
    BY <1>0, <2>1 DEF TxromFields, Pieces
  <2> QED BY <1>5, <2>2 DEF TxromKept, TxromBase, LastShown, Commanded, Pieces
<1>6. CASE addr = \hC001
  <2>1. new = [m EXCEPT !.irq_reload = TRUE]
    BY <1>6 DEF WriteMmc3
  <2>2. /\ DOMAIN new = DOMAIN m /\ Pieces(m, new) /\ new.irq_reload = TRUE
        /\ new.irq_latch = m.irq_latch /\ new.irq_pending = m.irq_pending /\ new.irq_enabled = m.irq_enabled
    BY <1>0, <2>1 DEF TxromFields, Pieces
  <2>3. TxromKept(new)
    BY <2>2 DEF TxromKept, TxromBase, LastShown, Pieces
  <2>4. Commanded(m, new, addr)
    BY <1>6, <2>2 DEF Commanded, Pieces
  <2> QED BY <2>3, <2>4
<1>7. CASE addr = \hE000
  <2>1. new = [m EXCEPT !.irq_pending = FALSE, !.irq_enabled = FALSE]
    BY <1>7 DEF WriteMmc3
  <2>2. /\ DOMAIN new = DOMAIN m /\ Pieces(m, new) /\ new.irq_pending = FALSE /\ new.irq_enabled = FALSE
        /\ new.irq_latch = m.irq_latch /\ new.irq_reload = m.irq_reload
    BY <1>0, <2>1 DEF TxromFields, Pieces
  <2>3. TxromKept(new)
    BY <2>2 DEF TxromKept, TxromBase, LastShown, Pieces
  <2>4. Commanded(m, new, addr)
    BY <1>7, <2>2 DEF Commanded, Pieces
  <2> QED BY <2>3, <2>4
<1>8. CASE addr = \hE001
  <2>1. new = [m EXCEPT !.irq_enabled = TRUE]
    BY <1>8 DEF WriteMmc3
  <2>2. /\ DOMAIN new = DOMAIN m /\ Pieces(m, new) /\ new.irq_enabled = TRUE
        /\ new.irq_latch = m.irq_latch /\ new.irq_pending = m.irq_pending /\ new.irq_reload = m.irq_reload
    BY <1>0, <2>1 DEF TxromFields, Pieces
  <2>3. TxromKept(new)
    BY <2>2 DEF TxromKept, TxromBase, LastShown, Pieces
  <2>4. Commanded(m, new, addr)
    BY <1>8, <2>2 DEF Commanded, Pieces
  <2> QED BY <2>3, <2>4
<1> QED BY <1>1, <1>2, <1>3, <1>4, <1>5, <1>6, <1>7, <1>8 DEF TxromAddresses

LEMMA NewRegisters ==
  /\ DOMAIN TxRegs = {"bank_select", "bank_values", "irq_latch", "irq_counter", "irq_enabled", "irq_reload", "last_clock"}
  /\ TxRegs.bank_select = 0 /\ TxRegs.irq_latch = 0 /\ TxRegs.irq_counter = 0 /\ TxRegs.irq_enabled = FALSE
  /\ TxRegs.irq_reload = FALSE /\ TxRegs.last_clock = 0
  /\ DOMAIN TxRegs.bank_values = Eight /\ \A i \in Eight : TxRegs.bank_values[i] = 0
BY DEF TxRegs, Eight

LEMMA ResetMmc3Kept ==
  ASSUME NEW m, TxromBase(m), NEW new
  PROVE  new = ResetMmc3(m) => TxromKept(new)
<1> SUFFICES ASSUME new = ResetMmc3(m) PROVE TxromKept(new)
  OBVIOUS
<1>1. PICK r : r = NewRegs(m)
  OBVIOUS
<1>2. PICK n : n = [r EXCEPT !.irq_pending = FALSE]
  OBVIOUS
<1>3. new = UpdateMmc3(n)
  BY <1>1, <1>2 DEF ResetMmc3
<1>4. PICK regs : regs = TxRegs
  OBVIOUS
<1>5. r = [x \in DOMAIN regs \cup DOMAIN m |-> IF x \in DOMAIN regs THEN regs[x] ELSE m[x]]
  BY <1>1, <1>4 DEF NewRegs
<1>6. DOMAIN r = DOMAIN regs \cup DOMAIN m /\ \A f \in DOMAIN r : r[f] = IF f \in DOMAIN regs THEN regs[f] ELSE m[f]
  BY <1>5
<1>7. TxromFields \subseteq DOMAIN m
  BY DEF TxromBase
<1>8. /\ DOMAIN regs = {"bank_select", "bank_values", "irq_latch", "irq_counter", "irq_enabled", "irq_reload", "last_clock"}
      /\ regs.bank_select = 0 /\ regs.irq_latch = 0 /\ regs.irq_counter = 0 /\ regs.irq_enabled = FALSE
      /\ regs.irq_reload = FALSE /\ regs.last_clock = 0
      /\ DOMAIN regs.bank_values = Eight /\ \A i \in Eight : regs.bank_values[i] = 0
  BY <1>4, NewRegisters
<1>9. /\ TxromFields \subseteq DOMAIN r /\ r.kind = m.kind /\ r.prg = m.prg /\ r.chr = m.chr
      /\ r.bank_select = 0 /\ r.bank_values = regs.bank_values /\ r.irq_latch = 0 /\ r.irq_counter = 0
      /\ r.irq_enabled = FALSE /\ r.irq_reload = FALSE /\ r.last_clock = 0
  BY <1>6, <1>7, <1>8 DEF TxromFields
<1>10. /\ TxromFields \subseteq DOMAIN n /\ n.kind = m.kind /\ n.prg = m.prg /\ n.chr = m.chr
       /\ n.bank_select = 0 /\ n.bank_values = regs.bank_values /\ n.irq_latch = 0 /\ n.irq_counter = 0
       /\ n.irq_enabled = FALSE /\ n.irq_reload = FALSE /\ n.last_clock = 0 /\ n.irq_pending = FALSE
  BY <1>2, <1>9 DEF TxromFields
<1>11. TxromBase(n)
  <2>1. PICK values : values = regs.bank_values
    OBVIOUS
  <2>2. DOMAIN values = Eight /\ \A i \in Eight : values[i] \in Nat
    BY <1>8, <2>1
  <2>3. n.bank_values = values
    BY <1>10, <2>1
  <2>4. n.irq_latch \in Nat /\ n.irq_latch < 256 /\ n.bank_select \in Nat /\ n.irq_counter \in Nat /\ n.last_clock \in {0, 1}
    BY <1>10
  <2> QED BY <1>10, <2>2, <2>3, <2>4 DEF TxromBase
<1> QED BY <1>3, <1>11, UpdatedMmc3

LEMMA LoadedMmc3 ==
  ASSUME NEW cart, cart.prg \in Nat \ {0}, cart.chr \in Nat \ {0}, cart.chr % 2 = 0, NEW new
  PROVE  new = LoadMmc3(cart) => TxromBase(new)
<1> SUFFICES ASSUME new = LoadMmc3(cart) PROVE TxromBase(new)
  OBVIOUS
<1>1. PICK rom, c : rom = NewBanks(4, cart.prg) /\ c = NewBanks(8, cart.chr)
  OBVIOUS
<1>2. FreshBanks(rom, Four, cart.prg) /\ FreshBanks(c, Eight, cart.chr)
  BY <1>1, NewWindows
<1>3. PICK last \in Nat : last = cart.prg - 1 /\ LastPage(rom) = last
  BY <1>2 DEF FreshBanks, LastPage
<1>4. PICK b1 : b1 = SetBank(rom, 2, last - 1)
  OBVIOUS
<1>5. PICK b2 : b2 = SetBank(b1, 3, last)
  OBVIOUS
<1>6. PICK rest : rest = [kind |-> "Txrom", mirroring |-> cart.mirroring, irq_pending |-> FALSE,
                          revision |-> cart.revision, chr |-> c, prg |-> b2]
  OBVIOUS
<1>7. PICK regs : regs = TxRegs
  OBVIOUS
<1>8. new = [x \in DOMAIN regs \cup DOMAIN rest |-> IF x \in DOMAIN regs THEN regs[x] ELSE rest[x]]
  <2>1. new = NewRegs(rest)
    BY <1>1, <1>3, <1>4, <1>5, <1>6 DEF LoadMmc3
  <2> QED BY <1>7, <2>1 DEF NewRegs
<1>9. /\ DOMAIN regs = {"bank_select", "bank_values", "irq_latch", "irq_counter", "irq_enabled", "irq_reload", "last_clock"}
      /\ regs.bank_select = 0 /\ regs.irq_latch = 0 /\ regs.irq_counter = 0 /\ regs.irq_enabled = FALSE
      /\ regs.irq_reload = FALSE /\ regs.last_clock = 0
      /\ DOMAIN regs.bank_values = Eight /\ \A i \in Eight : regs.bank_values[i] = 0
  BY <1>7, NewRegisters
<1>10. /\ DOMAIN rest = {"kind", "mirroring", "irq_pending", "revision", "chr", "prg"}
       /\ rest.kind = "Txrom" /\ rest.irq_pending = FALSE /\ rest.chr = c /\ rest.prg = b2
  BY <1>6
<1>11. /\ TxromFields \subseteq DOMAIN new /\ new.kind = "Txrom" /\ new.prg = b2 /\ new.chr = c
       /\ new.bank_select = 0 /\ new.bank_values = regs.bank_values /\ new.irq_latch = 0 /\ new.irq_counter = 0
       /\ new.irq_enabled = FALSE /\ new.irq_reload = FALSE /\ new.last_clock = 0 /\ new.irq_pending = FALSE
  BY <1>8, <1>9, <1>10 DEF TxromFields
<1>12. Windows(rom, Four) /\ last - 1 \in Int /\ 2 \in Four /\ 3 \in Four
  BY <1>2, Numbers DEF FreshBanks
<1>13. OneSet(rom, b1, Four, 2, (last - 1) % rom.pages)
  BY <1>4, <1>12, ABankSet
<1>14. Windows(b1, Four)
  BY <1>13 DEF OneSet
<1>15. OneSet(b1, b2, Four, 3, last % b1.pages)
  BY <1>5, <1>12, <1>14, ABankSet
<1>16. Windows(b2, Four) /\ Windows(c, Eight) /\ c.pages % 2 = 0
  BY <1>2, <1>15 DEF FreshBanks, OneSet
<1>17. PICK values : values = regs.bank_values
  OBVIOUS
<1>18. DOMAIN values = Eight /\ \A i \in Eight : values[i] \in Nat
  BY <1>9, <1>17
<1>19. new.bank_values = values
  BY <1>11, <1>17
<1>20. new.irq_latch \in Nat /\ new.irq_latch < 256 /\ new.bank_select \in Nat /\ new.irq_counter \in Nat /\ new.last_clock \in {0, 1}
  BY <1>11
<1> QED BY <1>11, <1>16, <1>18, <1>19, <1>20 DEF TxromBase

-----------------------------------------------------------------------------
(* VRC6. *)

Vrc6Fields == {"kind", "mirroring", "revision", "banking_mode", "regs", "nt_banks", "chr", "prg"}

KonamiKept(m) ==
  /\ Vrc6Fields \subseteq DOMAIN m /\ m.kind = "Vrc6"
  /\ m.banking_mode \in Nat /\ DOMAIN m.regs = Eight /\ \A i \in Eight : m.regs[i] \in Nat
  /\ OnChip(m.prg, Four) /\ m.prg.pages % 2 = 0 /\ LastShown(m, 3)
  /\ OnChip(m.chr, Eight)

LEMMA HalvesAre ==
  ASSUME NEW m, \A i \in Eight : m.regs[i] \in Nat, NEW r \in Int, r \in Eight, NEW k \in {1, 2}
  PROVE  Halves(m, r)[k] \in Nat
<1>1. PICK n \in Nat : n = m.regs[r]
  OBVIOUS
<1>2. PICK e \in Nat : e = Even(n)
  BY EvenIs
<1>3. Halves(m, r) = <<e, e + 1>> \/ Halves(m, r) = <<n, n>>
  BY <1>1, <1>2 DEF Halves
<1> QED BY <1>3

LEMMA PatternsVrc6 ==
  ASSUME NEW m, Vrc6Fields \subseteq DOMAIN m, \A i \in Eight : m.regs[i] \in Nat, Windows(m.chr, Eight),
         NEW c
  PROVE  c = MappedPatterns(m) => OnChip(c, Eight)
<1> SUFFICES ASSUME c = MappedPatterns(m) PROVE OnChip(c, Eight)
  OBVIOUS
<1> DEFINE bank(w) ==
        CASE Bits(m.banking_mode, 0, 2) = 0 -> m.regs[w]
          [] Bits(m.banking_mode, 0, 2) = 1 -> Halves(m, w \div 2)[(w % 2) + 1]
          [] OTHER -> IF w < 4 THEN m.regs[w] ELSE Halves(m, 4 + ((w - 4) \div 2))[(w % 2) + 1]
<1>1. c = [m.chr EXCEPT !.page = [w \in 0..7 |-> bank(w) % m.chr.pages]]
  BY DEF MappedPatterns
<1>2. ASSUME NEW w \in Int, w \in Eight PROVE bank(w) \in Nat
  <2>1. PICK half \in Int, k \in {1, 2} : half = w \div 2 /\ half \in Eight /\ k = (w % 2) + 1
    BY <1>2 DEF Eight
  <2>2. Halves(m, half)[k] \in Nat
    BY <2>1, HalvesAre
  <2>3. CASE w < 4
    BY <1>2, <2>1, <2>2, <2>3
  <2>4. CASE ~(w < 4)
    <3>1. PICK high \in Int : high = 4 + ((w - 4) \div 2) /\ high \in Eight
      BY <1>2, <2>4 DEF Eight
    <3>2. Halves(m, high)[k] \in Nat
      BY <2>1, <3>1, HalvesAre
    <3> QED BY <1>2, <2>1, <2>2, <2>4, <3>1, <3>2
  <2> QED BY <2>3, <2>4
<1> HIDE DEF bank
<1>3. {"pages", "page"} \subseteq DOMAIN c /\ c.pages = m.chr.pages
      /\ c.page = [w \in 0..7 |-> bank(w) % m.chr.pages]
  BY <1>1 DEF Windows
<1>4. (0..7) = Eight
  BY DEF Eight
<1>5. ASSUME NEW w \in Eight PROVE c.page[w] \in Nat /\ c.page[w] < c.pages
  <2>1. w \in Int
    BY DEF Eight
  <2>2. PICK n \in Nat : n = bank(w)
    BY <1>2, <2>1
  <2>3. c.page[w] = n % m.chr.pages
    BY <1>3, <1>4, <2>2
  <2> QED BY <1>3, <2>3, Remainder DEF Windows
<1> QED BY <1>3, <1>4, <1>5 DEF OnChip, Windows

LEMMA UpdatedVrc6 ==
  ASSUME NEW m, KonamiKept(m), NEW new
  PROVE  new = UpdateVrc6(m) => KonamiKept(new)
<1> SUFFICES ASSUME new = UpdateVrc6(m) PROVE KonamiKept(new)
  OBVIOUS
<1>1. PICK c, name, screens : new = [m EXCEPT !.chr = c, !.mirroring = name, !.nt_banks = screens]
                              /\ c = MappedPatterns(m)
  BY DEF UpdateVrc6
<1>2. OnChip(c, Eight)
  BY <1>1, PatternsVrc6 DEF KonamiKept, OnChip
<1>3. /\ DOMAIN new = DOMAIN m /\ new.kind = m.kind /\ new.banking_mode = m.banking_mode
      /\ new.regs = m.regs /\ new.prg = m.prg /\ new.chr = c
  BY <1>1 DEF KonamiKept, Vrc6Fields
<1> QED BY <1>2, <1>3 DEF KonamiKept, LastShown

LEMMA LoadedVrc6 ==
  ASSUME NEW cart, cart.prg \in Nat, cart.prg >= 4, cart.prg % 2 = 0, cart.chr \in Nat, cart.chr >= 8, NEW new
  PROVE  new = LoadVrc6(cart) => KonamiKept(new)
<1> SUFFICES ASSUME new = LoadVrc6(cart) PROVE KonamiKept(new)
  OBVIOUS
<1>1. PICK rom, c : rom = NewBanks(4, cart.prg) /\ c = NewBanks(8, cart.chr)
  OBVIOUS
<1>2. FreshBanks(rom, Four, cart.prg) /\ FreshBanks(c, Eight, cart.chr)
  BY <1>1, NewWindows
<1>3. OnChip(rom, Four) /\ OnChip(c, Eight)
  BY <1>2 DEF FreshBanks, OnChip, Four, Eight
<1>4. PICK last \in Nat : last = cart.prg - 1 /\ LastPage(rom) = last
  BY <1>2 DEF FreshBanks, LastPage
<1>5. PICK b : b = SetBank(rom, 3, last)
  OBVIOUS
<1>6. 3 \in Four
  BY DEF Four
<1>7. OnChip(b, Four) /\ OneSet(rom, b, Four, 3, last % rom.pages)
  BY <1>3, <1>5, <1>6, BankStays
<1>8. rom.pages = cart.prg
  BY <1>2 DEF FreshBanks
<1>9. b.pages = cart.prg /\ b.page[3] = last
  BY <1>4, <1>7, <1>8 DEF OneSet
<1>10. PICK zeros : zeros = [r \in 0..7 |-> 0]
  OBVIOUS
<1>11. DOMAIN zeros = Eight /\ \A i \in Eight : zeros[i] \in Nat
  BY <1>10 DEF Eight
<1>12. new = [kind |-> "Vrc6", mirroring |-> cart.mirroring, revision |-> cart.revision,
              banking_mode |-> 0, regs |-> zeros, nt_banks |-> <<0, 0, 0, 0>>, chr |-> c, prg |-> b]
  BY <1>1, <1>4, <1>5, <1>10 DEF LoadVrc6
<1>13. /\ Vrc6Fields \subseteq DOMAIN new /\ new.kind = "Vrc6" /\ new.banking_mode = 0 /\ new.regs = zeros
       /\ new.prg = b /\ new.chr = c
  BY <1>12 DEF Vrc6Fields
<1>14. LastShown(new, 3)
  BY <1>4, <1>9, <1>13 DEF LastShown, LastPage
<1> QED BY <1>3, <1>7, <1>9, <1>11, <1>13, <1>14 DEF KonamiKept

LEMMA WrittenVrc6 ==
  ASSUME NEW m, KonamiKept(m), NEW addr \in Nat, NEW val \in Nat, val < 256, NEW new
  PROVE  new = WriteVrc6(m, addr, val) => KonamiKept(new)
<1> SUFFICES ASSUME new = WriteVrc6(m, addr, val) PROVE KonamiKept(new)
  OBVIOUS
<1>0. Vrc6Fields \subseteq DOMAIN m /\ OnChip(m.prg, Four) /\ m.prg.pages % 2 = 0
  BY DEF KonamiKept
<1>1. PICK reg : reg = Vrc6Register(m, addr)
  OBVIOUS
<1>2. reg \in {0, 1, 2, 3}
  <2>1. PICK k \in {0, 1, 2, 3} : k = addr % 4
    OBVIOUS
  <2>2. reg = IF m.revision = "B" THEN <<0, 2, 1, 3>>[k + 1] ELSE k
    BY <1>1, <2>1 DEF Vrc6Register
  <2> QED BY <2>2
<1>3. CASE Block(addr) = 8
  <2>1. PICK two \in Int : two = 2 * (val % 16)
    OBVIOUS
  <2>2. two % 2 = 0
    BY <2>1
  <2>3. PICK b : b = SetRange(m.prg, 0, 0 + 1, two)
    OBVIOUS
  <2>4. 0 \in Four /\ 0 + 1 \in Four /\ Four \in SUBSET Int
    BY DEF Four
  <2>5. OnChip(b, Four) /\ Ranged(m.prg, b, Four, 0)
    BY <1>0, <2>2, <2>3, <2>4, RangeStays
  <2>6. new = [m EXCEPT !.prg = b]
    BY <1>3, <2>1, <2>3 DEF WriteVrc6
  <2>7. /\ DOMAIN new = DOMAIN m /\ new.kind = m.kind /\ new.banking_mode = m.banking_mode
        /\ new.regs = m.regs /\ new.prg = b /\ new.chr = m.chr
    BY <1>0, <2>6 DEF Vrc6Fields
  <2>8. b.pages = m.prg.pages /\ b.page[3] = m.prg.page[3]
    BY <2>5 DEF Ranged, Four
  <2> QED BY <2>5, <2>7, <2>8 DEF KonamiKept, LastShown, LastPage
<1>4. CASE Block(addr) = 11 /\ reg = 3
  <2>1. PICK n : n = [m EXCEPT !.banking_mode = val]
    OBVIOUS
  <2>2. new = UpdateVrc6(n)
    BY <1>1, <1>4, <2>1 DEF WriteVrc6
  <2>3. /\ DOMAIN n = DOMAIN m /\ n.kind = m.kind /\ n.banking_mode = val
        /\ n.regs = m.regs /\ n.prg = m.prg /\ n.chr = m.chr
    BY <1>0, <2>1 DEF Vrc6Fields
  <2>4. KonamiKept(n)
    BY <2>3 DEF KonamiKept, LastShown
  <2> QED BY <2>2, <2>4, UpdatedVrc6
<1>5. CASE Block(addr) = 12
  <2>1. PICK bank \in Int : bank = val % 32
    OBVIOUS
  <2>2. PICK b : b = SetBank(m.prg, 2, bank)
    OBVIOUS
  <2>3. 2 \in Four
    BY DEF Four
  <2>4. OnChip(b, Four) /\ OneSet(m.prg, b, Four, 2, bank % m.prg.pages)
    BY <1>0, <2>2, <2>3, BankStays
  <2>5. new = [m EXCEPT !.prg = b]
    BY <1>5, <2>1, <2>2 DEF WriteVrc6
  <2>6. /\ DOMAIN new = DOMAIN m /\ new.kind = m.kind /\ new.banking_mode = m.banking_mode
        /\ new.regs = m.regs /\ new.prg = b /\ new.chr = m.chr
    BY <1>0, <2>5 DEF Vrc6Fields
  <2>7. b.pages = m.prg.pages /\ b.page[3] = m.prg.page[3]
    BY <2>4 DEF OneSet, Four
  <2> QED BY <2>4, <2>6, <2>7 DEF KonamiKept, LastShown, LastPage
<1>6. ASSUME NEW r \in Int, r \in Eight, new = UpdateVrc6([m EXCEPT !.regs[r] = val]) PROVE KonamiKept(new)
  <2>1. PICK regs : regs = [m.regs EXCEPT ![r] = val]
    OBVIOUS
  <2>2. PICK n : n = [m EXCEPT !.regs = regs]
    OBVIOUS
  <2>3. [m EXCEPT !.regs[r] = val] = [m EXCEPT !.regs = [m.regs EXCEPT ![r] = val]]
    BY <1>0, Zenon DEF Vrc6Fields
  <2>4. new = UpdateVrc6(n)
    BY <1>6, <2>1, <2>2, <2>3
  <2>5. /\ DOMAIN n = DOMAIN m /\ n.kind = m.kind /\ n.banking_mode = m.banking_mode
        /\ n.regs = regs /\ n.prg = m.prg /\ n.chr = m.chr
    BY <1>0, <2>2 DEF Vrc6Fields
  <2>6. DOMAIN regs = Eight /\ \A i \in Eight : regs[i] \in Nat
    BY <2>1 DEF KonamiKept
  <2>7. KonamiKept(n)
    BY <2>5, <2>6 DEF KonamiKept, LastShown
  <2> QED BY <2>4, <2>7, UpdatedVrc6
<1>7. CASE Block(addr) = 13
  <2>1. new = UpdateVrc6([m EXCEPT !.regs[reg] = val])
    BY <1>1, <1>7 DEF WriteVrc6
  <2>2. reg \in Int /\ reg \in Eight
    BY <1>2 DEF Eight
  <2> QED BY <1>6, <2>1, <2>2
<1>8. CASE Block(addr) = 14
  <2>1. PICK r \in Int : r = 4 + reg /\ r \in Eight
    BY <1>2 DEF Eight
  <2>2. new = UpdateVrc6([m EXCEPT !.regs[r] = val])
    BY <1>1, <1>8, <2>1 DEF WriteVrc6
  <2> QED BY <1>6, <2>1, <2>2
<1>9. CASE Block(addr) \notin {8, 12, 13, 14} /\ ~(Block(addr) = 11 /\ reg = 3)
  BY <1>1, <1>9 DEF WriteVrc6
<1> QED BY <1>3, <1>4, <1>5, <1>7, <1>8, <1>9

-----------------------------------------------------------------------------
(* MMC5. *)

ExromFields ==
  {"prg_mode", "chr_mode", "exram_mode", "select", "prg_banks", "spr_banks", "bg_banks", "chr_hi",
   "irq_scanline", "irq_enabled", "protect", "fetch_count", "prev_addr", "prev_match", "tall",
   "rendering", "scanline", "in_frame", "kind", "mirroring", "irq_pending", "tile_cache", "chr", "prg", "ram"}

ExromKept(m) ==
  /\ ExromFields \subseteq DOMAIN m /\ m.kind = "Exrom"
  /\ {"pages", "page"} \subseteq DOMAIN m.chr
  /\ m.fetch_count \in Nat /\ m.scanline \in Nat /\ m.prev_match \in Nat
  /\ m.tall \in BOOLEAN /\ m.in_frame \in BOOLEAN /\ m.prg_mode \in 0..3

(* Two boards that agree on all but these fields. *)
Alike(m, n, but) == DOMAIN n = DOMAIN m /\ \A f \in DOMAIN m \ but : n[f] = m[f]

LEMMA AlikeTwice ==
  ASSUME NEW a, NEW b, NEW c, NEW but, Alike(a, b, but), Alike(b, c, but)
  PROVE  Alike(a, c, but)
BY DEF Alike

LEMMA SetProgram ==
  ASSUME NEW m, ExromFields \subseteq DOMAIN m, NEW first, NEW last, NEW bank
  PROVE  Alike(m, SetPrgBankRange(m, first, last, bank), {"prg", "ram"})
BY DEF Alike, SetPrgBankRange, ExromFields

LEMMA UpdatedPrg ==
  ASSUME NEW m, ExromFields \subseteq DOMAIN m, m.prg_mode \in 0..3
  PROVE  Alike(m, UpdatePrg(m), {"prg", "ram"})
<1> DEFINE Changed(n) == Alike(m, n, {"prg", "ram"})
<1> DEFINE Last(n) == [n EXCEPT !.prg = SetBank(n.prg, 3, m.prg_banks[4] % 128)]
<1>1. PICK m0 : m0 = [m EXCEPT !.ram = SetBank(m.ram, 0, m.prg_banks[0])]
  OBVIOUS
<1>2. Changed(m0)
  BY <1>1 DEF Alike
<1>3. ASSUME NEW n, Changed(n), NEW first, NEW last, NEW bank
      PROVE  Changed(SetPrgBankRange(n, first, last, bank))
  <2>1. ExromFields \subseteq DOMAIN n
    BY <1>3 DEF Alike
  <2> QED BY <1>3, <2>1, SetProgram, AlikeTwice
<1>4. ASSUME NEW n, Changed(n), NEW p PROVE Changed([n EXCEPT !.prg = p])
  BY <1>4 DEF Alike
<1>5. PICK two : two = SetPrgBankRange(m0, 0, 1, m.prg_banks[2])
  OBVIOUS
<1>6. Changed(two)
  BY <1>2, <1>3, <1>5
<1>7. PICK x : x = SetPrgBankRange(two, 2, 2, m.prg_banks[3])
  OBVIOUS
<1>8. PICK y1 : y1 = SetPrgBankRange(m0, 0, 0, m.prg_banks[1])
  OBVIOUS
<1>9. PICK y2 : y2 = SetPrgBankRange(y1, 1, 1, m.prg_banks[2])
  OBVIOUS
<1>10. PICK y3 : y3 = SetPrgBankRange(y2, 2, 2, m.prg_banks[3])
  OBVIOUS
<1>11. Changed(x) /\ Changed(y3)
  <2>1. Changed(x)
    BY <1>3, <1>6, <1>7
  <2>2. Changed(y1)
    BY <1>2, <1>3, <1>8
  <2>3. Changed(y2)
    BY <1>3, <1>9, <2>2
  <2>4. Changed(y3)
    BY <1>3, <1>10, <2>3
  <2> QED BY <2>1, <2>4
<1>12. /\ m.prg_mode = 0 => UpdatePrg(m) = [m0 EXCEPT !.prg = SetRange(m0.prg, 0, 3, m.prg_banks[4])]
       /\ m.prg_mode = 1 => UpdatePrg(m) = [two EXCEPT !.prg = SetRange(two.prg, 2, 3, m.prg_banks[4] % 128)]
       /\ m.prg_mode = 2 => UpdatePrg(m) = Last(x)
       /\ m.prg_mode = 3 => UpdatePrg(m) = Last(y3)
  BY <1>1, <1>5, <1>7, <1>8, <1>9, <1>10, SMTT(30) DEF UpdatePrg
<1> HIDE DEF Changed
<1>13. CASE m.prg_mode = 0
  BY <1>2, <1>4, <1>12, <1>13 DEF Changed
<1>14. CASE m.prg_mode = 1
  BY <1>6, <1>4, <1>12, <1>14 DEF Changed
<1>15. CASE m.prg_mode = 2
  BY <1>11, <1>4, <1>12, <1>15 DEF Changed
<1>16. CASE m.prg_mode = 3
  BY <1>11, <1>4, <1>12, <1>16 DEF Changed
<1> QED BY <1>13, <1>14, <1>15, <1>16

(* The pages that the sprites' or the background's registers ask for. *)
PagesFor(m, set) ==
  LET size == 2^(3 - m.chr_mode)
      bank(w) == LET r == size * (w \div size) + size - 1
                 IN ((m.chr_hi + size * Registers(m, set)[r]) % m.chr.pages) + (w % size)
  IN [w \in 0..7 |-> bank(w)]

LEMMA UpdatedChr ==
  ASSUME NEW m, ExromKept(m), NEW set, NEW n, n = UpdateChr(m, set)
  PROVE  Alike(m, n, {"chr"}) /\ ExromKept(n) /\ n.chr.page = PagesFor(m, set) /\ n.chr.pages = m.chr.pages
<1>1. PICK pages : pages = PagesFor(m, set)
  OBVIOUS
<1>2. n = [m EXCEPT !.chr.page = pages]
  BY <1>1 DEF UpdateChr, PagesFor
<1>3. ExromFields \subseteq DOMAIN m /\ "chr" \in DOMAIN m
  BY DEF ExromKept, ExromFields
<1>4. [m EXCEPT !.chr.page = pages] = [m EXCEPT !.chr = [m.chr EXCEPT !.page = pages]]
  BY <1>3, Zenon
<1>5. PICK c : c = [m.chr EXCEPT !.page = pages]
  OBVIOUS
<1>6. n = [m EXCEPT !.chr = c]
  BY <1>2, <1>4, <1>5
<1>7. Alike(m, n, {"chr"}) /\ n.chr = c
  BY <1>3, <1>6 DEF Alike
<1>8. DOMAIN c = DOMAIN m.chr /\ c.page = pages /\ c.pages = m.chr.pages
  BY <1>5 DEF ExromKept
<1>9. ExromKept(n)
  <2>1. n.kind = m.kind /\ n.fetch_count = m.fetch_count /\ n.scanline = m.scanline
        /\ n.prev_match = m.prev_match /\ n.tall = m.tall /\ n.in_frame = m.in_frame /\ n.prg_mode = m.prg_mode
    BY <1>3, <1>7 DEF Alike, ExromFields
  <2> QED BY <1>3, <1>7, <1>8, <2>1 DEF ExromKept, Alike
<1> QED BY <1>1, <1>7, <1>8, <1>9

(* What the registers of the banks are read from. *)
LEMMA PagesAlike ==
  ASSUME NEW m, NEW n, NEW set, n.chr_mode = m.chr_mode, n.chr_hi = m.chr_hi,
         n.spr_banks = m.spr_banks, n.bg_banks = m.bg_banks, n.chr.pages = m.chr.pages
  PROVE  PagesFor(n, set) = PagesFor(m, set)
BY DEF PagesFor, Registers

(* A fetch of the nametables. *)
Recognised(m, r) == ~r.attr /\ r.cell = m.prev_addr

Watched == {"tile_cache", "prev_match", "prev_addr", "scanline", "irq_pending", "fetch_count", "in_frame"}

Detected(m, n, r) ==
  /\ Alike(m, n, Watched)
  /\ n.prev_addr = r.cell
  /\ n.prev_match = IF Recognised(m, r) THEN m.prev_match + 1 ELSE 0
  /\ Recognised(m, r) /\ m.prev_match = 1 =>
       n.in_frame /\ n.scanline = (IF m.in_frame THEN m.scanline + 1 ELSE 0) /\ n.fetch_count = 0
  /\ ~(Recognised(m, r) /\ m.prev_match = 1) =>
       n.in_frame = m.in_frame /\ n.scanline = m.scanline /\ n.fetch_count = m.fetch_count
  /\ n.tile_cache = IF ExAttr(m) /\ ~r.attr /\ ~SprFetch(m) THEN r.cell ELSE m.tile_cache

LEMMA ScreenFetched ==
  ASSUME NEW m, ExromKept(m), NEW r, r.attr \in BOOLEAN, NEW n
  PROVE  n = FetchScreen(m, r) => ExromKept(n) /\ Detected(m, n, r)
<1> SUFFICES ASSUME n = FetchScreen(m, r) PROVE ExromKept(n) /\ Detected(m, n, r)
  OBVIOUS
<1>0. ExromFields \subseteq DOMAIN m
  BY DEF ExromKept
<1>1. PICK cache : cache = IF ExAttr(m) /\ ~r.attr /\ ~SprFetch(m) THEN r.cell ELSE m.tile_cache
  OBVIOUS
<1>2. PICK a : a = IF ExAttr(m) /\ ~r.attr /\ ~SprFetch(m) THEN [m EXCEPT !.tile_cache = r.cell] ELSE m
  OBVIOUS
<1>3. /\ DOMAIN a = DOMAIN m /\ a.tile_cache = cache /\ \A f \in DOMAIN m \ {"tile_cache"} : a[f] = m[f]
  BY <1>0, <1>1, <1>2 DEF ExromFields
<1>4. /\ a.prev_addr = m.prev_addr /\ a.prev_match = m.prev_match /\ a.in_frame = m.in_frame
      /\ a.scanline = m.scanline /\ a.irq_pending = m.irq_pending /\ a.fetch_count = m.fetch_count
      /\ a.irq_scanline = m.irq_scanline
  BY <1>0, <1>3 DEF ExromFields
<1>5. PICK match \in Nat : match = IF Recognised(m, r) THEN m.prev_match + 1 ELSE 0
  BY DEF ExromKept
<1>6. PICK b : b = [a EXCEPT !.prev_match = match]
  OBVIOUS
<1>7. n = [(IF Recognised(m, r) /\ m.prev_match = 1 THEN NextLine(b) ELSE b) EXCEPT !.prev_addr = r.cell]
  <2>1. b = [a EXCEPT !.prev_match = IF ~r.attr /\ r.cell = a.prev_addr THEN @ + 1 ELSE 0]
    BY <1>0, <1>3, <1>4, <1>5, <1>6 DEF Recognised, ExromFields
  <2>2. n = Detects(a, r)
    BY <1>2 DEF FetchScreen
  <2> QED BY <1>4, <2>1, <2>2 DEF Detects, Recognised
<1>8. /\ DOMAIN b = DOMAIN m /\ b.prev_match = match /\ b.tile_cache = cache
      /\ \A f \in DOMAIN m \ {"tile_cache", "prev_match"} : b[f] = m[f]
  BY <1>0, <1>3, <1>6 DEF ExromFields
<1>9. /\ b.in_frame = m.in_frame /\ b.scanline = m.scanline /\ b.irq_pending = m.irq_pending
      /\ b.fetch_count = m.fetch_count /\ b.irq_scanline = m.irq_scanline
  BY <1>0, <1>8 DEF ExromFields
<1>10. CASE ~(Recognised(m, r) /\ m.prev_match = 1)
  <2>1. n = [b EXCEPT !.prev_addr = r.cell]
    BY <1>7, <1>10
  <2>2. /\ DOMAIN n = DOMAIN m /\ n.prev_addr = r.cell /\ n.prev_match = match /\ n.tile_cache = cache
        /\ \A f \in DOMAIN m \ {"tile_cache", "prev_match", "prev_addr"} : n[f] = m[f]
    BY <1>0, <1>8, <2>1 DEF ExromFields
  <2>3. /\ n.in_frame = m.in_frame /\ n.scanline = m.scanline /\ n.fetch_count = m.fetch_count
        /\ n.kind = m.kind /\ n.chr = m.chr /\ n.tall = m.tall /\ n.prg_mode = m.prg_mode
    BY <1>0, <2>2 DEF ExromFields
  <2>4. ExromKept(n)
    BY <2>2, <2>3 DEF ExromKept
  <2>5. Alike(m, n, Watched)
    BY <2>2 DEF Alike, Watched
  <2> QED BY <1>1, <1>5, <1>10, <2>2, <2>3, <2>4, <2>5 DEF Detected
<1>11. CASE Recognised(m, r) /\ m.prev_match = 1
  <2>1. n = [NextLine(b) EXCEPT !.prev_addr = r.cell]
    BY <1>7, <1>11
  <2>2. PICK pending : pending = (m.irq_pending \/ m.scanline + 1 = m.irq_scanline)
    OBVIOUS
  <2>3. PICK line2 \in Nat : line2 = IF m.in_frame THEN m.scanline + 1 ELSE 0
    BY DEF ExromKept
  <2>4. PICK c : c = NextLine(b)
    OBVIOUS
  <2>5. \/ c = [b EXCEPT !.scanline = line2, !.irq_pending = pending, !.fetch_count = 0] /\ m.in_frame
        \/ c = [b EXCEPT !.in_frame = TRUE, !.scanline = 0, !.fetch_count = 0] /\ ~m.in_frame
    <3>1. CASE m.in_frame
      <4>1. c = [b EXCEPT !.scanline = b.scanline + 1, !.irq_pending = b.irq_pending \/ b.scanline + 1 = b.irq_scanline,
                          !.fetch_count = 0]
        BY <1>0, <1>8, <1>9, <2>4, <3>1 DEF NextLine, ExromFields
      <4> QED BY <1>9, <2>2, <2>3, <3>1, <4>1
    <3>2. CASE ~m.in_frame
      BY <1>9, <2>4, <3>2 DEF NextLine
    <3> QED BY <3>1, <3>2
  <2>6. /\ DOMAIN c = DOMAIN m /\ c.in_frame = TRUE /\ c.scanline = line2 /\ c.fetch_count = 0
        /\ c.prev_match = match /\ c.tile_cache = cache
        /\ \A f \in DOMAIN m \ Watched : c[f] = m[f]
    <3>1. CASE c = [b EXCEPT !.scanline = line2, !.irq_pending = pending, !.fetch_count = 0] /\ m.in_frame
      BY <1>0, <1>8, <1>9, <3>1 DEF ExromFields, Watched, ExromKept
    <3>2. CASE c = [b EXCEPT !.in_frame = TRUE, !.scanline = 0, !.fetch_count = 0] /\ ~m.in_frame
      BY <1>0, <1>8, <1>9, <2>3, <3>2 DEF ExromFields, Watched
    <3> QED BY <2>5, <3>1, <3>2
  <2>7. n = [c EXCEPT !.prev_addr = r.cell]
    BY <2>1, <2>4
  <2>8. /\ DOMAIN n = DOMAIN m /\ n.prev_addr = r.cell /\ n.prev_match = match /\ n.tile_cache = cache
        /\ n.in_frame = TRUE /\ n.scanline = line2 /\ n.fetch_count = 0
        /\ \A f \in DOMAIN m \ Watched : n[f] = m[f]
    BY <1>0, <2>6, <2>7 DEF ExromFields, Watched
  <2>9. n.kind = m.kind /\ n.chr = m.chr /\ n.tall = m.tall /\ n.prg_mode = m.prg_mode
    BY <1>0, <2>8 DEF ExromFields, Watched
  <2>10. ExromKept(n)
    <3>1. n.fetch_count \in Nat /\ n.scanline \in Nat /\ n.prev_match \in Nat
      BY <2>8
    <3>2. n.in_frame \in BOOLEAN
      BY <2>8
    <3>3. ExromFields \subseteq DOMAIN n
      BY <1>0, <2>8
    <3> QED BY <2>9, <3>1, <3>2, <3>3 DEF ExromKept
  <2>11. Alike(m, n, Watched)
    BY <2>8 DEF Alike
  <2> QED BY <1>1, <1>5, <1>11, <2>3, <2>8, <2>10, <2>11 DEF Detected
<1> QED BY <1>10, <1>11

(* A fetch of the patterns. *)
Counting(m, n) ==
  /\ Alike(m, n, {"fetch_count", "chr"})
  /\ n.fetch_count = IF m.fetch_count > SprFetchEnd THEN m.fetch_count ELSE m.fetch_count + 1
  /\ n.chr.pages = m.chr.pages
  /\ m.tall /\ n.fetch_count = SprFetchStart => n.chr.page = PagesFor(m, "Spr")
  /\ m.tall /\ n.fetch_count = SprFetchEnd   => n.chr.page = PagesFor(m, "Bg")
  /\ ~m.tall \/ n.fetch_count \notin {SprFetchStart, SprFetchEnd} => n.chr.page = m.chr.page

LEMMA PatternFetched ==
  ASSUME NEW m, ExromKept(m), NEW n
  PROVE  n = FetchPattern(m) => ExromKept(n) /\ Counting(m, n)
<1> SUFFICES ASSUME n = FetchPattern(m) PROVE ExromKept(n) /\ Counting(m, n)
  OBVIOUS
<1>0. ExromFields \subseteq DOMAIN m
  BY DEF ExromKept
<1>1. PICK count \in Nat : count = IF m.fetch_count > SprFetchEnd THEN m.fetch_count ELSE m.fetch_count + 1
  BY DEF ExromKept
<1>2. PICK a : a = [m EXCEPT !.fetch_count = count]
  OBVIOUS
<1>3. a = [m EXCEPT !.fetch_count = IF @ > SprFetchEnd THEN @ ELSE @ + 1]
  BY <1>0, <1>1, <1>2 DEF ExromFields
<1>4. Alike(m, a, {"fetch_count"}) /\ a.fetch_count = count
  BY <1>0, <1>2 DEF Alike, ExromFields
<1>5. /\ a.kind = m.kind /\ a.chr = m.chr /\ a.tall = m.tall /\ a.prg_mode = m.prg_mode
      /\ a.scanline = m.scanline /\ a.prev_match = m.prev_match /\ a.in_frame = m.in_frame
      /\ a.chr_mode = m.chr_mode /\ a.chr_hi = m.chr_hi /\ a.spr_banks = m.spr_banks /\ a.bg_banks = m.bg_banks
  BY <1>0, <1>4 DEF Alike, ExromFields
<1>6. ExromKept(a)
  BY <1>4, <1>5 DEF ExromKept, Alike
<1>7. SprFetchStart # SprFetchEnd
  BY Mmc5Assumption
<1>8. PagesFor(a, "Spr") = PagesFor(m, "Spr") /\ PagesFor(a, "Bg") = PagesFor(m, "Bg")
  BY <1>5, PagesAlike
<1>9. /\ m.tall /\ count = SprFetchStart => n = UpdateChr(a, "Spr")
      /\ m.tall /\ count = SprFetchEnd => n = UpdateChr(a, "Bg")
      /\ ~m.tall \/ count \notin {SprFetchStart, SprFetchEnd} => n = a
  BY <1>3, <1>4, <1>7 DEF FetchPattern
<1>10. ASSUME NEW set, n = UpdateChr(a, set)
       PROVE  /\ ExromKept(n) /\ Alike(m, n, {"fetch_count", "chr"}) /\ n.fetch_count = count
              /\ n.chr.pages = m.chr.pages /\ n.chr.page = PagesFor(a, set)
  <2>1. Alike(a, n, {"chr"}) /\ ExromKept(n) /\ n.chr.page = PagesFor(a, set) /\ n.chr.pages = a.chr.pages
    BY <1>6, <1>10, UpdatedChr
  <2>2. Alike(m, n, {"fetch_count", "chr"})
    BY <1>4, <2>1 DEF Alike
  <2>3. n.fetch_count = a.fetch_count
    BY <1>0, <1>4, <2>1 DEF Alike, ExromFields
  <2> QED BY <1>4, <1>5, <2>1, <2>2, <2>3
<1>11. CASE m.tall /\ count = SprFetchStart
  BY <1>1, <1>7, <1>8, <1>9, <1>10, <1>11 DEF Counting
<1>12. CASE m.tall /\ count = SprFetchEnd
  BY <1>1, <1>7, <1>8, <1>9, <1>10, <1>12 DEF Counting
<1>13. CASE ~m.tall \/ count \notin {SprFetchStart, SprFetchEnd}
  <2>1. n = a
    BY <1>9, <1>13
  <2>2. Alike(m, n, {"fetch_count", "chr"})
    BY <1>4, <2>1 DEF Alike
  <2> QED BY <1>1, <1>4, <1>5, <1>6, <1>13, <2>1, <2>2 DEF Counting
<1> QED BY <1>11, <1>12, <1>13

(* The registers that the program writes, and the banks that follow. *)
Programmed ==
  {"prg_mode", "chr_mode", "exram_mode", "select", "mirroring", "prg_banks", "spr_banks", "bg_banks", "chr_hi",
   "irq_scanline", "irq_enabled", "protect", "prg", "ram", "chr"}

(* The registers that choose the pages of the patterns. *)
PatternRegisters == {\h5101, \h5104, \h5130} \cup (\h5120..\h512B)

SamePatterns(m, n) ==
  /\ n.chr = m.chr /\ n.chr_mode = m.chr_mode /\ n.chr_hi = m.chr_hi
  /\ n.spr_banks = m.spr_banks /\ n.bg_banks = m.bg_banks /\ n.exram_mode = m.exram_mode

LEMMA AlikeKept ==
  ASSUME NEW m, ExromKept(m), NEW n, Alike(m, n, Programmed),
         n.prg_mode \in 0..3, {"pages", "page"} \subseteq DOMAIN n.chr
  PROVE  ExromKept(n)
<1>1. /\ n.kind = m.kind /\ n.fetch_count = m.fetch_count /\ n.scanline = m.scanline
      /\ n.prev_match = m.prev_match /\ n.tall = m.tall /\ n.in_frame = m.in_frame
  BY DEF Alike, Programmed, ExromKept, ExromFields
<1> QED BY <1>1 DEF ExromKept, Alike

(* A register whose write changes the banks of the program, or of the patterns. *)
LEMMA ThenProgram ==
  ASSUME NEW m, ExromKept(m), NEW a, Alike(m, a, Programmed), a.prg_mode \in 0..3, SamePatterns(m, a),
         NEW n, n = UpdatePrg(a)
  PROVE  ExromKept(n) /\ Alike(m, n, Programmed) /\ SamePatterns(m, n)
<1>1. ExromFields \subseteq DOMAIN a
  BY DEF ExromKept, Alike
<1>2. Alike(a, n, {"prg", "ram"})
  BY <1>1, UpdatedPrg
<1>3. Alike(m, n, Programmed)
  BY <1>2 DEF Alike, Programmed
<1>4. /\ n.prg_mode = a.prg_mode /\ n.chr = a.chr /\ n.chr_mode = a.chr_mode /\ n.chr_hi = a.chr_hi
      /\ n.spr_banks = a.spr_banks /\ n.bg_banks = a.bg_banks /\ n.exram_mode = a.exram_mode
  BY <1>1, <1>2 DEF Alike, ExromFields
<1>5. SamePatterns(m, n)
  BY <1>4 DEF SamePatterns
<1> QED BY <1>3, <1>4, <1>5, AlikeKept DEF SamePatterns, ExromKept

LEMMA ThenPatterns ==
  ASSUME NEW m, ExromKept(m), NEW a, Alike(m, a, Programmed), a.prg_mode = m.prg_mode, a.chr = m.chr,
         NEW set, NEW n, n = UpdateChr(a, set)
  PROVE  ExromKept(n) /\ Alike(m, n, Programmed)
<1>1. ExromKept(a)
  BY AlikeKept DEF ExromKept
<1>2. Alike(a, n, {"chr"}) /\ ExromKept(n)
  BY <1>1, UpdatedChr
<1>3. Alike(m, n, Programmed)
  BY <1>2 DEF Alike, Programmed
<1> QED BY <1>2, <1>3

LEMMA WrittenMmc5 ==
  ASSUME NEW m, ExromKept(m), NEW addr \in Nat, NEW val \in Nat, val < 256, NEW n
  PROVE  n = WriteMmc5(m, addr, val) =>
           /\ ExromKept(n) /\ Alike(m, n, Programmed)
           /\ addr \notin PatternRegisters => SamePatterns(m, n)
<1> SUFFICES ASSUME n = WriteMmc5(m, addr, val)
             PROVE  /\ ExromKept(n) /\ Alike(m, n, Programmed)
                    /\ addr \notin PatternRegisters => SamePatterns(m, n)
  OBVIOUS
<1>0. ExromFields \subseteq DOMAIN m
  BY DEF ExromKept
<1>1. CASE addr = \h5100
  <2>1. PICK mode \in 0..3 : mode = val % 4
    OBVIOUS
  <2>2. PICK a : a = [m EXCEPT !.prg_mode = mode]
    OBVIOUS
  <2>3. n = UpdatePrg(a)
    BY <1>1, <2>1, <2>2 DEF WriteMmc5
  <2>4. Alike(m, a, Programmed) /\ a.prg_mode \in 0..3 /\ SamePatterns(m, a)
    BY <1>0, <2>2 DEF Alike, Programmed, SamePatterns, ExromFields
  <2> QED BY <2>3, <2>4, ThenProgram
<1>2. CASE addr = \h5101
  <2>1. PICK mode : mode = IF ExAttr(m) THEN 1 ELSE val % 4
    OBVIOUS
  <2>2. PICK a : a = [m EXCEPT !.chr_mode = mode]
    OBVIOUS
  <2>3. n = UpdateChr(a, "Spr")
    BY <1>2, <2>1, <2>2 DEF WriteMmc5
  <2>4. Alike(m, a, Programmed) /\ a.prg_mode = m.prg_mode /\ a.chr = m.chr
    BY <1>0, <2>2 DEF Alike, Programmed, ExromFields
  <2> QED BY <1>2, <2>3, <2>4, ThenPatterns DEF PatternRegisters
<1>3. ASSUME NEW k, NEW v, n = [m EXCEPT ![k] = v], k \in {"protect", "irq_scanline", "irq_enabled"}
      PROVE  ExromKept(n) /\ Alike(m, n, Programmed) /\ SamePatterns(m, n)
  <2>1. Alike(m, n, Programmed)
    BY <1>0, <1>3 DEF Alike, Programmed
  <2>2. SamePatterns(m, n) /\ n.prg_mode = m.prg_mode
    BY <1>0, <1>3 DEF SamePatterns, ExromFields
  <2> QED BY <2>1, <2>2, AlikeKept DEF SamePatterns, ExromKept
<1>4. CASE addr \in {\h5102, \h5103}
  <2>0. PICK k : k = addr - \h5101
    OBVIOUS
  <2>1. PICK p : p = [m.protect EXCEPT ![k] = val % 4]
    OBVIOUS
  <2>2. [m EXCEPT !.protect[k] = val % 4] = [m EXCEPT !.protect = [m.protect EXCEPT ![k] = val % 4]]
    BY <1>0, Zenon DEF ExromFields
  <2>3. n = [m EXCEPT !.protect = p]
    BY <1>4, <2>0, <2>1, <2>2 DEF WriteMmc5
  <2> QED BY <1>3, <2>3
<1>5. CASE addr = \h5104
  <2>1. PICK mode : mode = val % 4
    OBVIOUS
  <2>2. n = [m EXCEPT !.exram_mode = mode]
    BY <1>5, <2>1 DEF WriteMmc5
  <2>3. Alike(m, n, Programmed) /\ n.prg_mode = m.prg_mode /\ n.chr = m.chr
    BY <1>0, <2>2 DEF Alike, Programmed, ExromFields
  <2> QED BY <1>5, <2>3, AlikeKept DEF ExromKept, PatternRegisters
<1>6. CASE addr = \h5105
  <2>1. PICK select, name : select = Select(val) /\ name = MirroringOf(val)
    OBVIOUS
  <2>2. n = [m EXCEPT !.select = select, !.mirroring = name]
    BY <1>6, <2>1 DEF WriteMmc5
  <2>3. Alike(m, n, Programmed) /\ n.prg_mode = m.prg_mode /\ SamePatterns(m, n)
    BY <1>0, <2>2 DEF Alike, Programmed, ExromFields, SamePatterns
  <2> QED BY <2>3, AlikeKept DEF ExromKept, SamePatterns
<1>7. CASE addr \in \h5113..\h5117
  <2>0. PICK k : k = addr - \h5113
    OBVIOUS
  <2>1. PICK banks : banks = [m.prg_banks EXCEPT ![k] = val]
    OBVIOUS
  <2>2. [m EXCEPT !.prg_banks[k] = val] = [m EXCEPT !.prg_banks = [m.prg_banks EXCEPT ![k] = val]]
    BY <1>0, Zenon DEF ExromFields
  <2>3. PICK a : a = [m EXCEPT !.prg_banks = banks]
    OBVIOUS
  <2>4. n = UpdatePrg(a)
    BY <1>7, <2>0, <2>1, <2>2, <2>3 DEF WriteMmc5
  <2>5. Alike(m, a, Programmed) /\ a.prg_mode = m.prg_mode /\ SamePatterns(m, a)
    BY <1>0, <2>3 DEF Alike, Programmed, SamePatterns, ExromFields
  <2> QED BY <2>4, <2>5, ThenProgram DEF ExromKept
<1>8. CASE addr \in \h5120..\h5127
  <2>0. PICK k : k = addr - \h5120
    OBVIOUS
  <2>1. PICK banks : banks = [m.spr_banks EXCEPT ![k] = val]
    OBVIOUS
  <2>2. [m EXCEPT !.spr_banks[k] = val] = [m EXCEPT !.spr_banks = [m.spr_banks EXCEPT ![k] = val]]
    BY <1>0, Zenon DEF ExromFields
  <2>3. PICK a : a = [m EXCEPT !.spr_banks = banks]
    OBVIOUS
  <2>4. n = UpdateChr(a, "Spr")
    BY <1>8, <2>0, <2>1, <2>2, <2>3 DEF WriteMmc5
  <2>5. Alike(m, a, Programmed) /\ a.prg_mode = m.prg_mode /\ a.chr = m.chr
    BY <1>0, <2>3 DEF Alike, Programmed, ExromFields
  <2> QED BY <1>8, <2>4, <2>5, ThenPatterns DEF PatternRegisters
<1>9. CASE addr \in \h5128..\h512B
  <2>0. PICK k : k = addr - \h5128
    OBVIOUS
  <2>1. PICK banks : banks = [m.bg_banks EXCEPT ![k] = val]
    OBVIOUS
  <2>2. [m EXCEPT !.bg_banks[k] = val] = [m EXCEPT !.bg_banks = [m.bg_banks EXCEPT ![k] = val]]
    BY <1>0, Zenon DEF ExromFields
  <2>3. PICK a : a = [m EXCEPT !.bg_banks = banks]
    OBVIOUS
  <2>4. n = UpdateChr(a, "Bg")
    BY <1>9, <2>0, <2>1, <2>2, <2>3 DEF WriteMmc5
  <2>5. Alike(m, a, Programmed) /\ a.prg_mode = m.prg_mode /\ a.chr = m.chr
    BY <1>0, <2>3 DEF Alike, Programmed, ExromFields
  <2> QED BY <1>9, <2>4, <2>5, ThenPatterns DEF PatternRegisters
<1>10. CASE addr = \h5130
  <2>1. PICK hi : hi = 256 * (val % 4)
    OBVIOUS
  <2>2. n = [m EXCEPT !.chr_hi = hi]
    BY <1>10, <2>1 DEF WriteMmc5
  <2>3. Alike(m, n, Programmed) /\ n.prg_mode = m.prg_mode /\ n.chr = m.chr
    BY <1>0, <2>2 DEF Alike, Programmed, ExromFields
  <2> QED BY <1>10, <2>3, AlikeKept DEF ExromKept, PatternRegisters
<1>11. CASE addr = \h5203
  <2>1. n = [m EXCEPT !.irq_scanline = val]
    BY <1>11 DEF WriteMmc5
  <2> QED BY <1>3, <2>1
<1>12. CASE addr = \h5204
  <2>1. PICK on : on = Bit(val, 7)
    OBVIOUS
  <2>2. n = [m EXCEPT !.irq_enabled = on]
    BY <1>12, <2>1 DEF WriteMmc5
  <2> QED BY <1>3, <2>2
<1>13. CASE addr \notin {\h5100, \h5101, \h5102, \h5103, \h5104, \h5105, \h5130, \h5203, \h5204}
            /\ addr \notin \h5113..\h5117 /\ addr \notin \h5120..\h5127 /\ addr \notin \h5128..\h512B
  <2>1. n = m
    BY <1>13 DEF WriteMmc5
  <2> QED BY <2>1 DEF Alike, SamePatterns
<1> QED BY <1>1, <1>2, <1>4, <1>5, <1>6, <1>7, <1>8, <1>9, <1>10, <1>11, <1>12, <1>13

LEMMA FrameLeft ==
  ASSUME NEW m, ExromKept(m), NEW n
  PROVE  n = LeaveFrame(m) =>
           /\ ExromKept(n) /\ Alike(m, n, {"in_frame", "prev_addr"})
           /\ ~n.in_frame /\ n.prev_addr = NoCell
<1> SUFFICES ASSUME n = LeaveFrame(m)
             PROVE  /\ ExromKept(n) /\ Alike(m, n, {"in_frame", "prev_addr"})
                    /\ ~n.in_frame /\ n.prev_addr = NoCell
  OBVIOUS
<1>1. n = [m EXCEPT !.in_frame = FALSE, !.prev_addr = NoCell] /\ ExromFields \subseteq DOMAIN m
  BY DEF LeaveFrame, ExromKept
<1>2. /\ Alike(m, n, {"in_frame", "prev_addr"}) /\ n.in_frame = FALSE /\ n.prev_addr = NoCell
  BY <1>1 DEF Alike, ExromFields
<1>3. /\ n.kind = m.kind /\ n.chr = m.chr /\ n.fetch_count = m.fetch_count /\ n.scanline = m.scanline
      /\ n.prev_match = m.prev_match /\ n.tall = m.tall /\ n.prg_mode = m.prg_mode
  BY <1>1, <1>2 DEF Alike, ExromFields
<1> QED BY <1>1, <1>2, <1>3 DEF ExromKept, Alike

LEMMA CtrlSeen ==
  ASSUME NEW m, ExromKept(m), NEW tall \in BOOLEAN, NEW n
  PROVE  n = SeesCtrl(m, tall) => ExromKept(n) /\ Alike(m, n, {"tall"}) /\ n.tall = tall
<1> SUFFICES ASSUME n = SeesCtrl(m, tall)
             PROVE  ExromKept(n) /\ Alike(m, n, {"tall"}) /\ n.tall = tall
  OBVIOUS
<1>1. n = [m EXCEPT !.tall = tall] /\ ExromFields \subseteq DOMAIN m
  BY DEF SeesCtrl, ExromKept
<1>2. Alike(m, n, {"tall"}) /\ n.tall = tall
  BY <1>1 DEF Alike, ExromFields
<1>3. /\ n.kind = m.kind /\ n.chr = m.chr /\ n.fetch_count = m.fetch_count /\ n.scanline = m.scanline
      /\ n.prev_match = m.prev_match /\ n.in_frame = m.in_frame /\ n.prg_mode = m.prg_mode
  BY <1>1, <1>2 DEF Alike, ExromFields
<1> QED BY <1>1, <1>2, <1>3 DEF ExromKept, Alike

(* The mask takes the board out of the frame, and never into one. *)
LEMMA MaskSeen ==
  ASSUME NEW m, ExromKept(m), NEW rendering \in BOOLEAN, NEW n
  PROVE  n = SeesMask(m, rendering) =>
           /\ ExromKept(n) /\ Alike(m, n, {"rendering", "in_frame", "prev_addr"})
           /\ n.in_frame => m.in_frame
           /\ n.prev_addr \in {m.prev_addr, NoCell}
<1> SUFFICES ASSUME n = SeesMask(m, rendering)
             PROVE  /\ ExromKept(n) /\ Alike(m, n, {"rendering", "in_frame", "prev_addr"})
                    /\ n.in_frame => m.in_frame
                    /\ n.prev_addr \in {m.prev_addr, NoCell}
  OBVIOUS
<1>1. PICK a : a = [m EXCEPT !.rendering = rendering]
  OBVIOUS
<1>2. ExromFields \subseteq DOMAIN m
  BY DEF ExromKept
<1>3. Alike(m, a, {"rendering"})
  BY <1>1, <1>2 DEF Alike, ExromFields
<1>4. /\ a.kind = m.kind /\ a.chr = m.chr /\ a.fetch_count = m.fetch_count /\ a.scanline = m.scanline
      /\ a.prev_match = m.prev_match /\ a.in_frame = m.in_frame /\ a.prg_mode = m.prg_mode /\ a.tall = m.tall
      /\ a.prev_addr = m.prev_addr
  BY <1>2, <1>3 DEF Alike, ExromFields
<1>5. ExromKept(a)
  BY <1>2, <1>3, <1>4 DEF ExromKept, Alike
<1>6. n = a \/ n = LeaveFrame(a)
  BY <1>1 DEF SeesMask
<1>7. CASE n = a
  BY <1>3, <1>4, <1>5, <1>7 DEF Alike
<1>8. CASE n = LeaveFrame(a)
  <2>1. ExromKept(n) /\ Alike(a, n, {"in_frame", "prev_addr"}) /\ ~n.in_frame /\ n.prev_addr = NoCell
    BY <1>5, <1>8, FrameLeft
  <2>2. Alike(m, n, {"rendering", "in_frame", "prev_addr"})
    BY <1>3, <2>1 DEF Alike
  <2> QED BY <2>1, <2>2
<1> QED BY <1>6, <1>7, <1>8

LEMMA StatusRead ==
  ASSUME NEW m, ExromKept(m), NEW n
  PROVE  n = ReadIrqStatus(m) => ExromKept(n) /\ Alike(m, n, {"irq_pending"})
<1> SUFFICES ASSUME n = ReadIrqStatus(m) PROVE ExromKept(n) /\ Alike(m, n, {"irq_pending"})
  OBVIOUS
<1>1. n = [m EXCEPT !.irq_pending = FALSE] /\ ExromFields \subseteq DOMAIN m
  BY DEF ReadIrqStatus, ExromKept
<1>2. Alike(m, n, {"irq_pending"})
  BY <1>1 DEF Alike
<1>3. /\ n.kind = m.kind /\ n.chr = m.chr /\ n.fetch_count = m.fetch_count /\ n.scanline = m.scanline
      /\ n.prev_match = m.prev_match /\ n.in_frame = m.in_frame /\ n.prg_mode = m.prg_mode /\ n.tall = m.tall
  BY <1>1, <1>2 DEF Alike, ExromFields
<1> QED BY <1>1, <1>2, <1>3 DEF ExromKept, Alike

LEMMA ModesReset ==
  ASSUME NEW m, ExromKept(m), NEW n
  PROVE  n = ResetMmc5(m) => ExromKept(n) /\ Alike(m, n, {"prg_mode", "chr_mode"})
<1> SUFFICES ASSUME n = ResetMmc5(m) PROVE ExromKept(n) /\ Alike(m, n, {"prg_mode", "chr_mode"})
  OBVIOUS
<1>1. n = [m EXCEPT !.prg_mode = 3, !.chr_mode = 3] /\ ExromFields \subseteq DOMAIN m
  BY DEF ResetMmc5, ExromKept
<1>2. Alike(m, n, {"prg_mode", "chr_mode"}) /\ n.prg_mode = 3
  BY <1>1 DEF Alike, ExromFields
<1>3. /\ n.kind = m.kind /\ n.chr = m.chr /\ n.fetch_count = m.fetch_count /\ n.scanline = m.scanline
      /\ n.prev_match = m.prev_match /\ n.in_frame = m.in_frame /\ n.tall = m.tall
  BY <1>1, <1>2 DEF Alike, ExromFields
<1> QED BY <1>1, <1>2, <1>3 DEF ExromKept, Alike

LEMMA LoadedMmc5 ==
  ASSUME NEW cart, cart.chr \in Nat, NEW n
  PROVE  n = LoadMmc5(cart) =>
           /\ ExromKept(n) /\ ~n.in_frame /\ n.prev_match = 0 /\ ~n.tall
<1> SUFFICES ASSUME n = LoadMmc5(cart)
             PROVE  /\ ExromKept(n) /\ ~n.in_frame /\ n.prev_match = 0 /\ ~n.tall
  OBVIOUS
<1>1. PICK rom, ram, c : rom = NewBanks(4, cart.prg) /\ ram = NewBanks(5, cart.ram) /\ c = NewBanks(8, cart.chr)
  OBVIOUS
<1>2. PICK prg_banks : prg_banks = [r \in 0..4 |-> IF r = 4 THEN 128 + LastPage(rom) ELSE 0]
  OBVIOUS
<1>3. PICK spr_banks, bg_banks : spr_banks = [w \in 0..7 |-> 0] /\ bg_banks = [w \in 0..3 |-> 0]
  OBVIOUS
<1>4. PICK regs : regs =
        [prg_mode |-> 3, chr_mode |-> 3, exram_mode |-> 0, select |-> <<0, 0, 0, 0>>,
         prg_banks |-> prg_banks, spr_banks |-> spr_banks, bg_banks |-> bg_banks, chr_hi |-> 0,
         irq_scanline |-> 0, irq_enabled |-> FALSE, protect |-> <<0, 0>>]
  OBVIOUS
<1>5. PICK status : status =
        [fetch_count |-> 0, prev_addr |-> NoCell, prev_match |-> 0, tall |-> FALSE,
         rendering |-> FALSE, scanline |-> 0, in_frame |-> FALSE]
  OBVIOUS
<1>6. PICK board : board =
        [kind |-> "Exrom", mirroring |-> cart.mirroring, irq_pending |-> FALSE,
         tile_cache |-> NoCell, chr |-> c, prg |-> rom, ram |-> ram]
  OBVIOUS
<1>7. PICK a : a = [f \in DOMAIN regs \cup DOMAIN status \cup DOMAIN board |->
                      IF f \in DOMAIN regs THEN regs[f]
                      ELSE IF f \in DOMAIN status THEN status[f] ELSE board[f]]
  OBVIOUS
<1>8. n = UpdatePrg(a)
  BY <1>1, <1>2, <1>3, <1>4, <1>5, <1>6, <1>7 DEF LoadMmc5
<1>9. DOMAIN regs = {"prg_mode", "chr_mode", "exram_mode", "select", "prg_banks", "spr_banks", "bg_banks",
                     "chr_hi", "irq_scanline", "irq_enabled", "protect"} /\ regs.prg_mode = 3
  BY <1>4
<1>10. /\ DOMAIN status = {"fetch_count", "prev_addr", "prev_match", "tall", "rendering", "scanline", "in_frame"}
       /\ status.fetch_count = 0 /\ status.prev_match = 0 /\ status.tall = FALSE /\ status.scanline = 0
       /\ status.in_frame = FALSE
  BY <1>5
<1>11. /\ DOMAIN board = {"kind", "mirroring", "irq_pending", "tile_cache", "chr", "prg", "ram"}
       /\ board.kind = "Exrom" /\ board.chr = c
  BY <1>6
<1>12. /\ ExromFields \subseteq DOMAIN a /\ a.kind = "Exrom" /\ a.chr = c /\ a.prg_mode = 3
       /\ a.fetch_count = 0 /\ a.prev_match = 0 /\ a.tall = FALSE /\ a.scanline = 0 /\ a.in_frame = FALSE
  BY <1>7, <1>9, <1>10, <1>11 DEF ExromFields
<1>13. Alike(a, n, {"prg", "ram"})
  BY <1>8, <1>12, UpdatedPrg
<1>14. /\ ExromFields \subseteq DOMAIN n /\ n.kind = "Exrom" /\ n.chr = c /\ n.prg_mode = 3
       /\ n.fetch_count = 0 /\ n.prev_match = 0 /\ n.tall = FALSE /\ n.scanline = 0 /\ n.in_frame = FALSE
  BY <1>12, <1>13 DEF Alike, ExromFields
<1>15. {"pages", "page"} \subseteq DOMAIN c
  BY <1>1, NewWindows DEF FreshBanks, Windows
<1>16. /\ n.prg_mode \in 0..3 /\ n.fetch_count \in Nat /\ n.prev_match \in Nat /\ n.scanline \in Nat
       /\ n.tall \in BOOLEAN /\ n.in_frame \in BOOLEAN /\ {"pages", "page"} \subseteq DOMAIN n.chr
  <2>1. {"pages", "page"} \subseteq DOMAIN n.chr
    BY <1>14, <1>15
  <2>2. n.tall \in BOOLEAN /\ n.in_frame \in BOOLEAN
    BY <1>14
  <2>3. n.prg_mode \in 0..3
    BY <1>14
  <2>4. n.fetch_count \in Nat /\ n.prev_match \in Nat /\ n.scanline \in Nat
    BY <1>14
  <2> QED BY <2>1, <2>2, <2>3, <2>4
<1>17. ExromKept(n)
  BY <1>14, <1>16 DEF ExromKept
<1> QED BY <1>14, <1>17

-----------------------------------------------------------------------------
(* Every board has its fields, and shows pages that its chips have. *)

CartKept(c) ==
  /\ c.kind \in BoardKinds /\ c.prg \in Nat \ {0} /\ c.chr \in Nat
  /\ c.writes \subseteq Nat \X (0..255)
  /\ \A s \in c.settings : s.bg \in {0, 1} /\ s.spr \in {0, 1} /\ s.tall \in BOOLEAN
  /\ c.kind = "Sxrom" => \A w \in c.writes : Block(w[1]) \in 8..15
  /\ c.kind = "Txrom" => \A w \in c.writes : w[1] \in TxromAddresses
  /\ c.kind \in {"Sxrom", "Txrom", "Vrc6"} => c.chr > 0 /\ c.chr % 2 = 0
  /\ c.kind \in {"Sxrom", "Vrc6"} => c.prg % 2 = 0
  /\ c.kind = "Vrc6" => c.prg >= 4 /\ c.chr >= 8

LEMMA CartsKept == \A c \in Carts : CartKept(c)
<1> SUFFICES ASSUME NEW c \in Carts PROVE CartKept(c)
  OBVIOUS
<1> QED BY BoardsAssumption DEF CartKept, TxromAddresses

(* Every board has its fields, and shows pages that its chips have. *)
MapperKept(m) ==
  /\ m.kind \in BoardKinds
  /\ m.kind \in Fixed => DiscreteKept(m)
  /\ m.kind = "Sxrom" => SxromKept(m)
  /\ m.kind = "Pxrom" => PxromKept(m)
  /\ m.kind = "Txrom" => TxromKept(m)
  /\ m.kind = "Exrom" => ExromKept(m)
  /\ m.kind = "Vrc6"  => KonamiKept(m)

LEMMA KindsSplit ==
  \A k \in BoardKinds : k \in Fixed \/ k = "Sxrom" \/ k = "Pxrom" \/ k = "Txrom" \/ k = "Exrom" \/ k = "Vrc6"
BY DEF BoardKinds, Fixed

LEMMA KindsApart ==
  /\ Fixed \subseteq BoardKinds
  /\ {"Sxrom", "Pxrom", "Txrom", "Exrom", "Vrc6"} \subseteq BoardKinds
  /\ \A k \in Fixed : k # "Sxrom" /\ k # "Pxrom" /\ k # "Txrom" /\ k # "Exrom" /\ k # "Vrc6"
BY DEF BoardKinds, Fixed

(* The board that a cartridge starts with. *)
LEMMA StartKept ==
  ASSUME NEW cart, CartKept(cart), NEW new
  PROVE  new = ResetBoard(Load(cart), TRUE) =>
           /\ MapperKept(new) /\ new.kind = cart.kind
           /\ new.kind = "Sxrom" /\ new.submapper # 5 => LastShown(new, 1)
<1> SUFFICES ASSUME new = ResetBoard(Load(cart), TRUE)
             PROVE  /\ MapperKept(new) /\ new.kind = cart.kind
                    /\ new.kind = "Sxrom" /\ new.submapper # 5 => LastShown(new, 1)
  OBVIOUS
<1>1. PICK old : old = Load(cart)
  OBVIOUS
<1>2. cart.kind \in BoardKinds /\ cart.prg \in Nat \ {0} /\ cart.chr \in Nat
  BY DEF CartKept
<1>3. CASE cart.kind \in Fixed
  <2>1. DiscreteKept(old) /\ old.kind = cart.kind
    BY <1>1, <1>2, <1>3, DiscreteLoad
  <2>2. new = old
    BY <1>1, <1>3, <2>1, KindsApart DEF ResetBoard
  <2> QED BY <1>2, <1>3, <2>1, <2>2, KindsApart DEF MapperKept
<1>4. CASE cart.kind = "Sxrom"
  <2>1. old = LoadMmc1(cart)
    BY <1>1, <1>4 DEF Load
  <2>2. cart.prg % 2 = 0 /\ cart.chr \in Nat \ {0} /\ cart.chr % 2 = 0
    BY <1>2, <1>4 DEF CartKept
  <2>3. SxromKept(old)
    BY <1>2, <2>1, <2>2, LoadedMmc1
  <2>4. SxromBase(old) /\ new = ResetMmc1(old, TRUE)
    BY <1>1, <2>3 DEF SxromKept, SxromBase, ResetBoard
  <2>5. SxromKept(new) /\ (new.submapper # 5 => LastShown(new, 1))
    BY <2>4, ResetRegisters
  <2> QED BY <1>4, <2>5, KindsApart DEF MapperKept, SxromKept, SxromBase
<1>5. CASE cart.kind = "Pxrom"
  <2>1. old = LoadMmc2(cart)
    BY <1>1, <1>5 DEF Load
  <2>2. PxromBase(old)
    BY <1>2, <2>1, LoadedMmc2
  <2>3. new = ResetMmc2(old)
    BY <1>1, <2>2 DEF PxromBase, ResetBoard
  <2>4. PxromKept(new)
    BY <2>2, <2>3, ResetLatches
  <2> QED BY <1>5, <2>4, KindsApart DEF MapperKept, PxromKept, PxromBase
<1>6. CASE cart.kind = "Txrom"
  <2>1. old = LoadMmc3(cart)
    BY <1>1, <1>6 DEF Load
  <2>2. cart.chr \in Nat \ {0} /\ cart.chr % 2 = 0
    BY <1>2, <1>6 DEF CartKept
  <2>3. TxromBase(old)
    BY <1>2, <2>1, <2>2, LoadedMmc3
  <2>4. new = ResetMmc3(old)
    BY <1>1, <2>3 DEF TxromBase, ResetBoard
  <2>5. TxromKept(new)
    BY <2>3, <2>4, ResetMmc3Kept
  <2> QED BY <1>6, <2>5, KindsApart DEF MapperKept, TxromKept, TxromBase
<1>7. CASE cart.kind = "Exrom"
  <2>1. old = LoadMmc5(cart)
    BY <1>1, <1>7 DEF Load
  <2>2. ExromKept(old)
    BY <1>2, <2>1, LoadedMmc5
  <2>3. new = ResetMmc5(old)
    BY <1>1, <2>2 DEF ExromKept, ResetBoard
  <2>4. ExromKept(new)
    BY <2>2, <2>3, ModesReset
  <2> QED BY <1>7, <2>4, KindsApart DEF MapperKept, ExromKept
<1>8. CASE cart.kind = "Vrc6"
  <2>1. old = LoadVrc6(cart)
    BY <1>1, <1>8 DEF Load
  <2>2. KonamiKept(old)
    BY <1>2, <1>8, <2>1, LoadedVrc6 DEF CartKept
  <2>3. new = old
    BY <1>1, <2>2 DEF KonamiKept, ResetBoard
  <2> QED BY <1>8, <2>2, <2>3, KindsApart DEF MapperKept, KonamiKept
<1> QED BY <1>2, <1>3, <1>4, <1>5, <1>6, <1>7, <1>8, KindsSplit

(* A cycle of the CPU, and a write in it. *)
LEMMA ClockKept ==
  ASSUME NEW m, MapperKept(m), NEW new
  PROVE  new = ClockBoard(m) =>
           /\ MapperKept(new) /\ new.kind = m.kind
           /\ m.kind = "Sxrom" => new = ClockMmc1(m)
           /\ m.kind # "Sxrom" => new = m
<1> SUFFICES ASSUME new = ClockBoard(m)
             PROVE  /\ MapperKept(new) /\ new.kind = m.kind
                    /\ m.kind = "Sxrom" => new = ClockMmc1(m)
                    /\ m.kind # "Sxrom" => new = m
  OBVIOUS
<1>1. CASE m.kind = "Sxrom"
  <2>1. new = ClockMmc1(m) /\ SxromKept(m)
    BY <1>1 DEF ClockBoard, MapperKept
  <2>2. SxromKept(new)
    BY <2>1, ClockedMmc1
  <2> QED BY <1>1, <2>1, <2>2, KindsApart DEF MapperKept, SxromKept, SxromBase
<1>2. CASE m.kind # "Sxrom"
  BY <1>2 DEF ClockBoard
<1> QED BY <1>1, <1>2

Addressed(kind, addr) ==
  /\ kind = "Sxrom" => Block(addr) \in 8..15
  /\ kind = "Txrom" => addr \in TxromAddresses

LEMMA WriteKept ==
  ASSUME NEW m, MapperKept(m), NEW addr \in Nat, NEW val \in Nat, val < 256, Addressed(m.kind, addr), NEW new
  PROVE  new = MapWrite(m, addr, val) => MapperKept(new) /\ new.kind = m.kind
<1> SUFFICES ASSUME new = MapWrite(m, addr, val) PROVE MapperKept(new) /\ new.kind = m.kind
  OBVIOUS
<1>0. m.kind \in BoardKinds
  BY DEF MapperKept
<1>1. CASE m.kind \in Fixed
  <2>1. DiscreteKept(m)
    BY <1>1 DEF MapperKept
  <2>2. DiscreteKept(new) /\ new.kind = m.kind
    BY <2>1, DiscreteWrite, ZenonT(60)
  <2> QED BY <1>1, <2>2, KindsApart DEF MapperKept
<1>2. CASE m.kind = "Sxrom"
  <2>1. SxromKept(m) /\ new = WriteMmc1(m, addr, val) /\ Block(addr) \in 8..15
    BY <1>2 DEF MapperKept, MapWrite, Addressed
  <2>2. SxromKept(new)
    BY <2>1, WrittenMmc1
  <2> QED BY <1>2, <2>2, KindsApart DEF MapperKept, SxromKept, SxromBase
<1>3. CASE m.kind = "Pxrom"
  <2>1. PxromKept(m) /\ new = WriteMmc2(m, addr, val)
    BY <1>3 DEF MapperKept, MapWrite
  <2>2. PxromKept(new)
    BY <2>1, WrittenMmc2
  <2> QED BY <1>3, <2>2, KindsApart DEF MapperKept, PxromKept, PxromBase
<1>4. CASE m.kind = "Txrom"
  <2>1. TxromKept(m) /\ new = WriteMmc3(m, addr, val) /\ addr \in TxromAddresses
    BY <1>4 DEF MapperKept, MapWrite, Addressed
  <2>2. TxromKept(new)
    BY <2>1, WrittenMmc3
  <2> QED BY <1>4, <2>2, KindsApart DEF MapperKept, TxromKept, TxromBase
<1>5. CASE m.kind = "Exrom"
  <2>1. ExromKept(m) /\ new = WriteMmc5(m, addr, val)
    BY <1>5 DEF MapperKept, MapWrite
  <2>2. ExromKept(new)
    BY <2>1, WrittenMmc5
  <2> QED BY <1>5, <2>2, KindsApart DEF MapperKept, ExromKept
<1>6. CASE m.kind = "Vrc6"
  <2>1. KonamiKept(m) /\ new = WriteVrc6(m, addr, val)
    BY <1>6 DEF MapperKept, MapWrite
  <2>2. KonamiKept(new)
    BY <2>1, WrittenVrc6
  <2> QED BY <1>6, <2>2, KindsApart DEF MapperKept, KonamiKept
<1> QED BY <1>0, <1>1, <1>2, <1>3, <1>4, <1>5, <1>6, KindsSplit

(* The PPU's fetches. *)
LEMMA ScreenKept ==
  ASSUME NEW m, MapperKept(m), NEW cell, NEW attr \in BOOLEAN, NEW new
  PROVE  new = ReadScreen(m, cell, attr) =>
           /\ MapperKept(new) /\ new.kind = m.kind
           /\ m.kind = "Exrom" => Detected(m, new, [cell |-> cell, attr |-> attr])
           /\ m.kind # "Exrom" => new = m
<1> SUFFICES ASSUME new = ReadScreen(m, cell, attr)
             PROVE  /\ MapperKept(new) /\ new.kind = m.kind
                    /\ m.kind = "Exrom" => Detected(m, new, [cell |-> cell, attr |-> attr])
                    /\ m.kind # "Exrom" => new = m
  OBVIOUS
<1>1. CASE m.kind = "Exrom"
  <2>1. PICK r : r = [cell |-> cell, attr |-> attr]
    OBVIOUS
  <2>2. new = FetchScreen(m, r) /\ ExromKept(m) /\ r.attr \in BOOLEAN
    BY <1>1, <2>1 DEF ReadScreen, MapperKept
  <2>3. ExromKept(new) /\ Detected(m, new, r)
    BY <2>2, ScreenFetched
  <2> QED BY <1>1, <2>1, <2>3, KindsApart DEF MapperKept, ExromKept
<1>2. CASE m.kind # "Exrom"
  BY <1>2 DEF ReadScreen
<1> QED BY <1>1, <1>2

LEMMA PatternKept ==
  ASSUME NEW m, MapperKept(m), m.kind \in {"Pxrom", "Txrom", "Exrom"}, NEW r, Fetch(r), NEW new
  PROVE  new = ReadPattern(m, r) =>
           /\ MapperKept(new) /\ new.kind = m.kind
           /\ m.kind = "Pxrom" => new = FetchMmc2(m, r)
           /\ m.kind = "Txrom" => Clocked(m, new, r.table)
           /\ m.kind = "Exrom" => Counting(m, new)
<1> SUFFICES ASSUME new = ReadPattern(m, r)
             PROVE  /\ MapperKept(new) /\ new.kind = m.kind
                    /\ m.kind = "Pxrom" => new = FetchMmc2(m, r)
                    /\ m.kind = "Txrom" => Clocked(m, new, r.table)
                    /\ m.kind = "Exrom" => Counting(m, new)
  OBVIOUS
<1>1. CASE m.kind = "Pxrom"
  <2>1. PxromKept(m) /\ new = FetchMmc2(m, r)
    BY <1>1 DEF MapperKept, ReadPattern
  <2>2. PxromKept(new)
    BY <2>1, FetchedMmc2
  <2> QED BY <1>1, <2>1, <2>2, KindsApart DEF MapperKept, PxromKept, PxromBase
<1>2. CASE m.kind = "Txrom"
  <2>1. TxromKept(m) /\ new = ClockIrq(m, r.table) /\ r.table \in {0, 1}
    BY <1>2 DEF MapperKept, ReadPattern, Fetch
  <2>2. TxromKept(new) /\ Clocked(m, new, r.table)
    BY <2>1, ClockedMmc3
  <2> QED BY <1>2, <2>2, KindsApart DEF MapperKept, TxromKept, TxromBase
<1>3. CASE m.kind = "Exrom"
  <2>1. ExromKept(m) /\ new = FetchPattern(m)
    BY <1>3 DEF MapperKept, ReadPattern
  <2>2. ExromKept(new) /\ Counting(m, new)
    BY <2>1, PatternFetched
  <2> QED BY <1>3, <2>2, KindsApart DEF MapperKept, ExromKept
<1> QED BY <1>1, <1>2, <1>3

LEMMA ResetKept ==
  ASSUME NEW m, MapperKept(m), NEW hard \in BOOLEAN, NEW new
  PROVE  new = ResetBoard(m, hard) =>
           /\ MapperKept(new) /\ new.kind = m.kind
           /\ new.kind = "Sxrom" /\ new.submapper # 5 => LastShown(new, 1)
<1> SUFFICES ASSUME new = ResetBoard(m, hard)
             PROVE  /\ MapperKept(new) /\ new.kind = m.kind
                    /\ new.kind = "Sxrom" /\ new.submapper # 5 => LastShown(new, 1)
  OBVIOUS
<1>0. m.kind \in BoardKinds
  BY DEF MapperKept
<1>1. CASE m.kind \in Fixed \/ m.kind = "Vrc6"
  <2>1. new = m
    BY <1>1, KindsApart DEF ResetBoard
  <2> QED BY <1>1, <2>1, KindsApart
<1>2. CASE m.kind = "Sxrom"
  <2>1. SxromBase(m) /\ new = ResetMmc1(m, hard)
    BY <1>2 DEF MapperKept, SxromKept, ResetBoard
  <2>2. SxromKept(new) /\ (new.submapper # 5 => LastShown(new, 1))
    BY <2>1, ResetRegisters
  <2> QED BY <1>2, <2>2, KindsApart DEF MapperKept, SxromKept, SxromBase
<1>3. CASE m.kind = "Pxrom"
  <2>1. PxromBase(m) /\ new = ResetMmc2(m)
    BY <1>3 DEF MapperKept, PxromKept, ResetBoard
  <2>2. PxromKept(new)
    BY <2>1, ResetLatches
  <2> QED BY <1>3, <2>2, KindsApart DEF MapperKept, PxromKept, PxromBase
<1>4. CASE m.kind = "Txrom"
  <2>1. TxromBase(m) /\ new = ResetMmc3(m)
    BY <1>4 DEF MapperKept, TxromKept, ResetBoard
  <2>2. TxromKept(new)
    BY <2>1, ResetMmc3Kept
  <2> QED BY <1>4, <2>2, KindsApart DEF MapperKept, TxromKept, TxromBase
<1>5. CASE m.kind = "Exrom"
  <2>1. ExromKept(m) /\ new = ResetMmc5(m)
    BY <1>5 DEF MapperKept, ResetBoard
  <2>2. ExromKept(new)
    BY <2>1, ModesReset
  <2> QED BY <1>5, <2>2, KindsApart DEF MapperKept, ExromKept
<1> QED BY <1>0, <1>1, <1>2, <1>3, <1>4, <1>5, KindsSplit

PpuTyped(p) ==
  /\ {"bg", "spr", "tall", "rendering", "attr_rows", "reset_signal"} \subseteq DOMAIN p
  /\ p.bg \in {0, 1} /\ p.spr \in {0, 1} /\ p.tall \in BOOLEAN /\ p.rendering \in BOOLEAN
  /\ p.attr_rows \in BOOLEAN /\ p.reset_signal \in BOOLEAN

Placed(l, s) == l \in 0..(Lines + 1) /\ s \in 0..Dummy

BoardTyped ==
  /\ CartKept(program)
  /\ MapperKept(mapper) /\ mapper.kind = program.kind
  /\ PpuTyped(ppu) /\ Placed(line, step)
  /\ calm \in {0, 1, 2} /\ fresh \in BOOLEAN /\ whole \in BOOLEAN
  /\ fresh /\ mapper.kind = "Sxrom" /\ mapper.submapper # 5 => LastShown(mapper, 1)

LEMMA ProgramKept == BoardTyped => CartKept(program)
BY DEF BoardTyped

LEMMA Sizes ==
  /\ Cols \in Nat /\ Slots \in Nat /\ Lines \in Nat /\ Cols > 0 /\ Slots > 0 /\ Lines > 0
  /\ FirstSprite = Cols /\ Prefetch = Cols + Slots /\ Dummy = Cols + Slots + 2
  /\ Vblank = Lines /\ Prerender = Lines + 1
  /\ SprFetchStart = 2 * Cols /\ SprFetchEnd = 2 * Cols + 2 * Slots + 1
BY BoardsAssumption DEF FirstSprite, Prefetch, Dummy, Vblank, Prerender

LEMMA LineAfter ==
  ASSUME NEW l \in 0..(Lines + 1)
  PROVE  (l + 1) % (Lines + 2) = IF l = Lines + 1 THEN 0 ELSE l + 1
<1>1. PICK n \in Nat \ {0} : n = Lines + 2
  BY Sizes
<1>2. CASE l = Lines + 1
  BY <1>1, <1>2, Sizes
<1>3. CASE l # Lines + 1
  <2>1. l + 1 \in Nat /\ l + 1 < n
    BY <1>1, <1>3, Sizes
  <2>2. (l + 1) % n = l + 1
    BY <2>1
  <2> QED BY <1>1, <1>3, <2>2
<1> QED BY <1>2, <1>3

LEMMA PageReset == ASSUME NEW rows \in BOOLEAN, NEW p, p = [ResetPpu EXCEPT !.attr_rows = rows]
  PROVE /\ PpuTyped(p) /\ p.bg = 0 /\ p.spr = 0 /\ ~p.tall /\ ~p.rendering /\ p.reset_signal /\ (p.attr_rows <=> rows)
BY DEF ResetPpu, PpuTyped

LEMMA BoardTypedStart ==
  ASSUME NEW cart, CartKept(cart), BoardInit(cart)
  PROVE  BoardTyped
<1>1. CartKept(cart) /\ program = cart /\ mapper = ResetBoard(Load(cart), TRUE)
  BY DEF BoardInit
<1>2. /\ MapperKept(mapper) /\ mapper.kind = program.kind
      /\ mapper.kind = "Sxrom" /\ mapper.submapper # 5 => LastShown(mapper, 1)
  BY <1>1, StartKept
<1>3. PpuTyped(ppu)
  BY DEF BoardInit, ResetPpu, PpuTyped
<1>4. Placed(line, step) /\ calm \in {0, 1, 2} /\ fresh \in BOOLEAN /\ whole \in BOOLEAN
  <2>1. line = 0 /\ step = 0 /\ calm = 0 /\ fresh = TRUE /\ whole = FALSE
    BY DEF BoardInit
  <2>2. Placed(line, step)
    BY <2>1, Sizes DEF Placed
  <2> QED BY <2>1, <2>2
<1> QED BY <1>1, <1>2, <1>3, <1>4 DEF BoardTyped

(* The fetches of a tile, one after the other. *)
TileRead(m, cell, attr, lo, hi, m1, m2, m3, new) ==
  /\ m1 = ReadScreen(m, cell, attr) /\ m2 = ReadScreen(m1, Palettes, TRUE)
  /\ m3 = ReadPattern(m2, lo) /\ new = ReadPattern(m3, hi)

Watching == {"Pxrom", "Txrom", "Exrom"}

LEMMA TileKept ==
  ASSUME NEW m, MapperKept(m), m.kind \in Watching, NEW cell, NEW attr \in BOOLEAN,
         NEW lo, NEW hi, Fetch(lo), Fetch(hi), NEW m1, NEW m2, NEW m3, NEW new,
         TileRead(m, cell, attr, lo, hi, m1, m2, m3, new)
  PROVE  /\ MapperKept(m1) /\ MapperKept(m2) /\ MapperKept(m3) /\ MapperKept(new)
         /\ m1.kind = m.kind /\ m2.kind = m.kind /\ m3.kind = m.kind /\ new.kind = m.kind
<1>1. MapperKept(m1) /\ m1.kind = m.kind
  BY ScreenKept DEF TileRead
<1>2. MapperKept(m2) /\ m2.kind = m.kind
  <2>1. m2 = ReadScreen(m1, Palettes, TRUE)
    BY DEF TileRead
  <2> QED BY <1>1, <2>1, ScreenKept
<1>3. MapperKept(m3) /\ m3.kind = m.kind
  BY <1>2, PatternKept, ZenonT(60) DEF TileRead, Watching
<1>4. MapperKept(new) /\ new.kind = m.kind
  BY <1>3, PatternKept, ZenonT(60) DEF TileRead, Watching
<1> QED BY <1>1, <1>2, <1>3, <1>4

TileOf(r, table) == r.table = table /\ r.tile \in {0, \hFD, \hFE} /\ r.row \in {0, 1}

LEMMA TilesAre == \A table : \A r \in Tiles(table) : TileOf(r, table) /\ (mapper.kind # "Pxrom" => r.tile = 0 /\ r.row = 0)
BY DEF Tiles, TileOf

(* What a step of the PPU fetches: a tile, or the end of the line. *)
FetchesTile(set, cell, r, shown_) ==
  \E lo, hi, m1, m2, m3 :
    /\ lo = [table |-> r.table, tile |-> r.tile, row |-> r.row, hi |-> FALSE]
    /\ hi = [table |-> r.table, tile |-> r.tile, row |-> r.row, hi |-> TRUE]
    /\ TileRead(mapper, cell, ppu.attr_rows, lo, hi, m1, m2, m3, mapper')
    /\ drawn' = [shown |-> shown_ /\ Wanted(set, cell, r) # NoPage,
                 lo |-> Source(m2, lo), hi |-> Source(m3, hi), want |-> Wanted(set, cell, r)]
    /\ seen' = IF mapper.kind = "Pxrom" /\ r.tile # 0 /\ (r.table = 1 \/ r.row = 0)
               THEN [seen EXCEPT ![r.table] = r.tile] ELSE seen

LEMMA TileFetches ==
  ASSUME NEW set, NEW cell, NEW r, NEW shown_
  PROVE  FetchTile(set, cell, r, shown_) => FetchesTile(set, cell, r, shown_)
<1> SUFFICES ASSUME FetchTile(set, cell, r, shown_) PROVE FetchesTile(set, cell, r, shown_)
  OBVIOUS
<1>1. PICK lo : lo = [table |-> r.table, tile |-> r.tile, row |-> r.row, hi |-> FALSE]
  OBVIOUS
<1>2. PICK hi : hi = [table |-> r.table, tile |-> r.tile, row |-> r.row, hi |-> TRUE]
  OBVIOUS
<1>3. PICK m1 : m1 = ReadScreen(mapper, cell, ppu.attr_rows)
  OBVIOUS
<1>4. PICK m2 : m2 = ReadScreen(m1, Palettes, TRUE)
  OBVIOUS
<1>5. PICK m3 : m3 = ReadPattern(m2, lo)
  OBVIOUS
<1>6. /\ mapper' = ReadPattern(m3, hi)
      /\ drawn' = [shown |-> shown_ /\ Wanted(set, cell, r) # NoPage,
                   lo |-> Source(m2, lo), hi |-> Source(m3, hi), want |-> Wanted(set, cell, r)]
      /\ seen' = IF mapper.kind = "Pxrom" /\ r.tile # 0 /\ (r.table = 1 \/ r.row = 0)
                 THEN [seen EXCEPT ![r.table] = r.tile] ELSE seen
  BY <1>1, <1>2, <1>3, <1>4, <1>5 DEF FetchTile
<1>7. TileRead(mapper, cell, ppu.attr_rows, lo, hi, m1, m2, m3, mapper')
  BY <1>3, <1>4, <1>5, <1>6 DEF TileRead
<1> QED BY <1>1, <1>2, <1>6, <1>7 DEF FetchesTile

LEMMA FetchesKept ==
  ASSUME MapperKept(mapper), mapper.kind \in Watching, ppu.attr_rows \in BOOLEAN,
         NEW set, NEW cell, NEW table \in {0, 1}, NEW r, TileOf(r, table), NEW shown_
  PROVE  FetchTile(set, cell, r, shown_) => MapperKept(mapper') /\ mapper'.kind = mapper.kind
<1> SUFFICES ASSUME FetchesTile(set, cell, r, shown_) PROVE MapperKept(mapper') /\ mapper'.kind = mapper.kind
  BY TileFetches
<1>1. PICK lo, hi, m1, m2, m3 :
        /\ lo = [table |-> r.table, tile |-> r.tile, row |-> r.row, hi |-> FALSE]
        /\ hi = [table |-> r.table, tile |-> r.tile, row |-> r.row, hi |-> TRUE]
        /\ TileRead(mapper, cell, ppu.attr_rows, lo, hi, m1, m2, m3, mapper')
  BY DEF FetchesTile
<1>2. Fetch(lo) /\ Fetch(hi)
  BY <1>1 DEF Fetch, TileOf
<1> QED BY <1>1, <1>2, TileKept

DummyRead(m, attr, m1, m2, m3, new) ==
  /\ m1 = ReadScreen(m, Cell(2), attr) /\ m2 = ReadScreen(m1, Cell(2), attr)
  /\ m3 = ReadScreen(m2, Cell(2), attr) /\ new = ReadScreen(m3, Cell(2), attr)

LEMMA DummyReads ==
  DummyFetches => /\ step = Dummy /\ drawn' = drawn /\ seen' = seen
                  /\ \E m1, m2, m3 : DummyRead(mapper, ppu.attr_rows, m1, m2, m3, mapper')
<1> SUFFICES ASSUME DummyFetches PROVE \E m1, m2, m3 : DummyRead(mapper, ppu.attr_rows, m1, m2, m3, mapper')
  BY DEF DummyFetches
<1>1. PICK m1 : m1 = ReadScreen(mapper, Cell(2), ppu.attr_rows)
  OBVIOUS
<1>2. PICK m2 : m2 = ReadScreen(m1, Cell(2), ppu.attr_rows)
  OBVIOUS
<1>3. PICK m3 : m3 = ReadScreen(m2, Cell(2), ppu.attr_rows)
  OBVIOUS
<1>4. mapper' = ReadScreen(m3, Cell(2), ppu.attr_rows)
  BY <1>1, <1>2, <1>3 DEF DummyFetches
<1> QED BY <1>1, <1>2, <1>3, <1>4 DEF DummyRead

LEMMA DummyKept ==
  ASSUME NEW m, MapperKept(m), NEW attr \in BOOLEAN, NEW m1, NEW m2, NEW m3, NEW new,
         DummyRead(m, attr, m1, m2, m3, new)
  PROVE  /\ MapperKept(m1) /\ MapperKept(m2) /\ MapperKept(m3) /\ MapperKept(new)
         /\ m1.kind = m.kind /\ m2.kind = m.kind /\ m3.kind = m.kind /\ new.kind = m.kind
<1>0. ASSUME NEW a, MapperKept(a), NEW b, b = ReadScreen(a, Cell(2), attr)
      PROVE  MapperKept(b) /\ b.kind = a.kind
  BY <1>0, ScreenKept, ZenonT(60)
<1>1. MapperKept(m1) /\ m1.kind = m.kind
  BY <1>0 DEF DummyRead
<1>2. MapperKept(m2) /\ m2.kind = m.kind
  <2>1. m2 = ReadScreen(m1, Cell(2), attr)
    BY DEF DummyRead
  <2>2. MapperKept(m2) /\ m2.kind = m1.kind
    BY <1>1, <2>1, <1>0
  <2> QED BY <1>1, <2>2
<1>3. MapperKept(m3) /\ m3.kind = m.kind
  <2>1. m3 = ReadScreen(m2, Cell(2), attr)
    BY DEF DummyRead
  <2>2. MapperKept(m3) /\ m3.kind = m2.kind
    BY <1>2, <2>1, <1>0
  <2> QED BY <1>2, <2>2
<1>4. MapperKept(new) /\ new.kind = m.kind
  <2>1. new = ReadScreen(m3, Cell(2), attr)
    BY DEF DummyRead
  <2>2. MapperKept(new) /\ new.kind = m3.kind
    BY <1>3, <2>1, <1>0
  <2> QED BY <1>3, <2>2
<1> QED BY <1>1, <1>2, <1>3, <1>4

LEMMA WatchesIs == Watches(mapper) => mapper.kind \in Watching
BY DEF Watches, Watching

(* Where a step of the PPU leads. *)
MovesOn ==
  /\ program' = program /\ mirror_shift' = mirror_shift /\ fresh' = fresh /\ serial' = serial
  /\ step' = (IF EndOfLine THEN 0 ELSE step + 1)
  /\ line' = (IF EndOfLine THEN (line + 1) % (Lines + 2) ELSE line)
  /\ ppu' = (IF line = Vblank THEN [ppu EXCEPT !.reset_signal = FALSE] ELSE ppu)

LEMMA PpuAdvances == PpuStep => MovesOn
BY DEF PpuStep, MovesOn

LEMMA PlacedNext ==
  ASSUME Placed(line, step), MovesOn
  PROVE  Placed(line', step')
<1>1. (line + 1) % (Lines + 2) \in 0..(Lines + 1)
  BY LineAfter, Sizes DEF Placed
<1>2. 0 \in 0..Dummy /\ line' \in 0..(Lines + 1)
  BY <1>1, Sizes DEF Placed, MovesOn
<1>3. CASE EndOfLine
  BY <1>2, <1>3 DEF Placed, MovesOn
<1>4. CASE ~EndOfLine
  <2>1. step' = step + 1 /\ step # Dummy
    BY <1>4 DEF MovesOn, EndOfLine
  <2> QED BY <1>2, <2>1, Sizes DEF Placed
<1> QED BY <1>3, <1>4

LEMMA PpuNext ==
  ASSUME PpuTyped(ppu), MovesOn
  PROVE  /\ PpuTyped(ppu')
         /\ ppu'.bg = ppu.bg /\ ppu'.spr = ppu.spr /\ ppu'.tall = ppu.tall
         /\ ppu'.rendering = ppu.rendering /\ ppu'.attr_rows = ppu.attr_rows
         /\ ppu'.reset_signal => ppu.reset_signal
<1>1. CASE ppu' = ppu
  BY <1>1
<1>2. CASE ppu' = [ppu EXCEPT !.reset_signal = FALSE]
  <2>1. /\ DOMAIN ppu' = DOMAIN ppu /\ ppu'.bg = ppu.bg /\ ppu'.spr = ppu.spr /\ ppu'.tall = ppu.tall
        /\ ppu'.rendering = ppu.rendering /\ ppu'.attr_rows = ppu.attr_rows /\ ppu'.reset_signal = FALSE
    BY <1>2 DEF PpuTyped
  <2> QED BY <2>1 DEF PpuTyped
<1> QED BY <1>1, <1>2 DEF MovesOn

(* The pictures' fetches keep the board whole. *)
LEMMA PpuMapperKept ==
  ASSUME BoardTyped, PpuStep
  PROVE  MapperKept(mapper') /\ mapper'.kind = mapper.kind
<1>0. /\ MapperKept(mapper) /\ mapper.kind \in Watching /\ ppu.attr_rows \in BOOLEAN
      /\ ppu.bg \in {0, 1} /\ ppu.spr \in {0, 1}
  BY WatchesIs DEF BoardTyped, PpuTyped, PpuStep
<1>1. CASE Fetching /\ Background
  <2>1. PICK r \in Tiles(ppu.bg) : FetchTile("Bg", Cell(step + 2), r, step < Cols - 1)
    BY <1>1 DEF Background
  <2>2. TileOf(r, ppu.bg)
    BY TilesAre
  <2> QED BY <1>0, <2>1, <2>2, FetchesKept
<1>2. CASE Fetching /\ Sprites
  <2>1. PICK table \in SpriteTables : \E r \in Tiles(table) : FetchTile("Spr", Cell(0), r, TRUE)
    BY <1>2 DEF Sprites
  <2>2. PICK r \in Tiles(table) : FetchTile("Spr", Cell(0), r, TRUE)
    BY <2>1
  <2>3. table \in {0, 1}
    BY <1>0 DEF SpriteTables
  <2>4. TileOf(r, table)
    BY TilesAre
  <2> QED BY <1>0, <2>2, <2>3, <2>4, FetchesKept
<1>3. CASE Fetching /\ PrefetchTile
  <2>1. PICK r \in Tiles(ppu.bg) :
          FetchTile("Bg", Cell(step - Prefetch), r, ~(mapper.kind = "Exrom" /\ ExAttr(mapper) /\ step = Prefetch))
    BY <1>3 DEF PrefetchTile
  <2>2. TileOf(r, ppu.bg)
    BY TilesAre
  <2> QED BY <1>0, <2>1, <2>2, FetchesKept
<1>4. CASE Fetching /\ DummyFetches
  <2>1. PICK m1, m2, m3 : DummyRead(mapper, ppu.attr_rows, m1, m2, m3, mapper')
    BY <1>4, DummyReads
  <2> QED BY <1>0, <2>1, DummyKept
<1>5. CASE ~Fetching /\ NoFetches
  <2>1. CASE mapper.kind = "Exrom"
    <3>1. mapper' = LeaveFrame(mapper) /\ ExromKept(mapper)
      BY <1>0, <1>5, <2>1 DEF NoFetches, MapperKept
    <3>2. ExromKept(mapper')
      BY <3>1, FrameLeft
    <3> QED BY <2>1, <3>2, KindsApart DEF MapperKept, ExromKept
  <2>2. CASE mapper.kind # "Exrom"
    BY <1>0, <1>5, <2>2 DEF NoFetches
  <2> QED BY <2>1, <2>2
<1> QED BY <1>1, <1>2, <1>3, <1>4, <1>5 DEF PpuStep

LEMMA BoardTypedPpu ==
  ASSUME BoardTyped, PpuStep
  PROVE  BoardTyped'
<1>1. MovesOn
  BY PpuAdvances
<1>2. MapperKept(mapper') /\ mapper'.kind = mapper.kind
  BY PpuMapperKept
<1>3. Placed(line', step') /\ PpuTyped(ppu')
  BY <1>1, PlacedNext, PpuNext DEF BoardTyped
<1>4. program' = program /\ fresh' = fresh
  BY <1>1 DEF MovesOn
<1>5. calm' \in {0, 1, 2}
  <2>1. PICK c \in {0, 1, 2} : calm = c
    BY DEF BoardTyped
  <2>2. calm' = calm \/ calm' = 0 \/ calm' = IF calm = 2 THEN 2 ELSE calm + 1
    <3>1. CASE ~RenderLine \/ step # Dummy
      BY <3>1 DEF PpuStep
    <3>2. CASE RenderLine /\ step = Dummy /\ ~ppu.rendering
      BY <3>2 DEF PpuStep
    <3>3. CASE RenderLine /\ step = Dummy /\ ppu.rendering
      BY <3>3 DEF PpuStep
    <3> QED BY <3>1, <3>2, <3>3
  <2> QED BY <2>1, <2>2
<1>6. whole' \in BOOLEAN
  <2>1. CASE ~RenderLine
    BY <2>1 DEF PpuStep
  <2>2. CASE RenderLine /\ line = Prerender /\ step = Dummy
    BY <2>2 DEF PpuStep, BoardTyped, PpuTyped
  <2>3. CASE RenderLine /\ ~(line = Prerender /\ step = Dummy)
    BY <2>3 DEF PpuStep, BoardTyped
  <2> QED BY <2>1, <2>2, <2>3
<1>7. mapper'.kind # "Sxrom"
  BY <1>2, WatchesIs DEF PpuStep, Watching
<1> QED BY <1>2, <1>3, <1>4, <1>5, <1>6, <1>7 DEF BoardTyped

LEMMA BoardTypedStep ==
  ASSUME BoardTyped, BoardNext
  PROVE  BoardTyped'
<1>0. MapperKept(mapper) /\ mapper.kind = program.kind /\ CartKept(program) /\ PpuTyped(ppu)
  BY ProgramKept DEF BoardTyped
<1>1. CASE CpuWrite
  <2>1. PICK w \in program.writes :
          /\ mapper' = MapWrite(ClockBoard(mapper), w[1], w[2])
          /\ calm' = IF Repaints(mapper, w[1]) THEN 0 ELSE calm
    BY <1>1 DEF CpuWrite
  <2>2. fresh' = FALSE /\ UNCHANGED <<program, ppu, line, step, whole>>
    BY <1>1 DEF CpuWrite, picture
  <2>3. w[1] \in Nat /\ w[2] \in Nat /\ w[2] < 256 /\ Addressed(program.kind, w[1])
    BY <1>0 DEF CartKept, Addressed
  <2>4. PICK m : m = ClockBoard(mapper)
    OBVIOUS
  <2>5. MapperKept(m) /\ m.kind = mapper.kind
    BY <1>0, <2>4, ClockKept
  <2>6. PICK addr \in Nat, val \in Nat : val < 256 /\ addr = w[1] /\ val = w[2]
    BY <2>3
  <2>7. MapperKept(mapper') /\ mapper'.kind = m.kind
    <3>1. mapper' = MapWrite(m, addr, val) /\ Addressed(m.kind, addr)
      BY <1>0, <2>1, <2>3, <2>4, <2>5, <2>6
    <3>2. MapperKept(m) /\ addr \in Nat /\ val \in Nat /\ val < 256
      BY <2>5, <2>6
    <3>3. PICK new : new = mapper'
      OBVIOUS
    <3>4. new = MapWrite(m, addr, val) /\ Addressed(m.kind, addr)
      BY <3>1, <3>3
    <3>5. MapperKept(new) /\ new.kind = m.kind
      BY <3>2, <3>4, WriteKept
    <3> QED BY <3>3, <3>5
  <2>8. calm' \in {0, 1, 2}
    BY <2>1 DEF BoardTyped
  <2> QED BY <2>2, <2>5, <2>7, <2>8 DEF BoardTyped
<1>2. CASE IdleCycle
  <2>1. mapper' = ClockBoard(mapper) /\ UNCHANGED <<program, ppu, line, step, whole, fresh, calm>> /\ mapper.kind = "Sxrom"
    BY <1>2 DEF IdleCycle, picture
  <2>2. MapperKept(mapper') /\ mapper'.kind = mapper.kind /\ mapper' = ClockMmc1(mapper)
    BY <1>0, <2>1, ClockKept
  <2>3. mapper'.prg = mapper.prg /\ mapper'.submapper = mapper.submapper
    BY <1>0, <2>1, <2>2, ClockedMmc1 DEF MapperKept
  <2> QED BY <2>1, <2>2, <2>3 DEF BoardTyped, LastShown
<1>3. CASE WriteCtrl
  <2>0. UNCHANGED <<program, line, step, fresh>> /\ calm' = 0 /\ whole' = FALSE /\ mapper.kind \in Watching
    BY <1>3, WatchesIs DEF WriteCtrl, picture, Disturbed
  <2>1. PICK s \in program.settings :
          /\ ppu' = IF ppu.reset_signal THEN ppu ELSE [ppu EXCEPT !.bg = s.bg, !.spr = s.spr, !.tall = s.tall]
          /\ mapper' = IF mapper.kind = "Exrom" THEN SeesCtrl(mapper, s.tall) ELSE mapper
    BY <1>3 DEF WriteCtrl
  <2>2. s.bg \in {0, 1} /\ s.spr \in {0, 1} /\ s.tall \in BOOLEAN
    BY <1>0 DEF CartKept
  <2>3. PpuTyped(ppu')
    <3>1. CASE ppu.reset_signal
      BY <1>0, <2>1, <3>1
    <3>2. CASE ~ppu.reset_signal
      <4>1. /\ DOMAIN ppu' = DOMAIN ppu /\ ppu'.bg = s.bg /\ ppu'.spr = s.spr /\ ppu'.tall = s.tall
            /\ ppu'.rendering = ppu.rendering /\ ppu'.attr_rows = ppu.attr_rows /\ ppu'.reset_signal = ppu.reset_signal
        BY <1>0, <2>1, <3>2 DEF PpuTyped
      <4> QED BY <1>0, <2>2, <4>1 DEF PpuTyped
    <3> QED BY <3>1, <3>2
  <2>4. MapperKept(mapper') /\ mapper'.kind = mapper.kind
    <3>1. CASE mapper.kind = "Exrom"
      <4>1. mapper' = SeesCtrl(mapper, s.tall) /\ ExromKept(mapper)
        BY <1>0, <2>1, <3>1 DEF MapperKept
      <4>2. ExromKept(mapper')
        BY <2>2, <4>1, CtrlSeen
      <4> QED BY <3>1, <4>2, KindsApart DEF MapperKept, ExromKept
    <3> QED BY <1>0, <2>1, <3>1
  <2> QED BY <2>0, <2>3, <2>4 DEF BoardTyped, Watching
<1>4. CASE WriteMask
  <2>0. UNCHANGED <<program, line, step, fresh>> /\ calm' = 0 /\ whole' = FALSE /\ mapper.kind \in Watching
    BY <1>4, WatchesIs DEF WriteMask, picture, Disturbed
  <2>1. PICK rendering \in BOOLEAN :
          /\ ppu' = IF ppu.reset_signal THEN ppu ELSE [ppu EXCEPT !.rendering = rendering]
          /\ mapper' = IF mapper.kind = "Exrom" THEN SeesMask(mapper, rendering) ELSE mapper
    BY <1>4 DEF WriteMask
  <2>3. PpuTyped(ppu')
    <3>1. CASE ppu.reset_signal
      BY <1>0, <2>1, <3>1
    <3>2. CASE ~ppu.reset_signal
      <4>1. /\ DOMAIN ppu' = DOMAIN ppu /\ ppu'.bg = ppu.bg /\ ppu'.spr = ppu.spr /\ ppu'.tall = ppu.tall
            /\ ppu'.rendering = rendering /\ ppu'.attr_rows = ppu.attr_rows /\ ppu'.reset_signal = ppu.reset_signal
        BY <1>0, <2>1, <3>2 DEF PpuTyped
      <4> QED BY <1>0, <4>1 DEF PpuTyped
    <3> QED BY <3>1, <3>2
  <2>4. MapperKept(mapper') /\ mapper'.kind = mapper.kind
    <3>1. CASE mapper.kind = "Exrom"
      <4>1. mapper' = SeesMask(mapper, rendering) /\ ExromKept(mapper)
        BY <1>0, <2>1, <3>1 DEF MapperKept
      <4>2. ExromKept(mapper')
        BY <4>1, MaskSeen
      <4> QED BY <3>1, <4>2, KindsApart DEF MapperKept, ExromKept
    <3> QED BY <1>0, <2>1, <3>1
  <2> QED BY <2>0, <2>3, <2>4 DEF BoardTyped, Watching
<1>5. CASE ScrollRows
  <2>1. /\ UNCHANGED <<program, mapper, line, step, fresh>> /\ calm' = 0 /\ whole' = FALSE
        /\ ppu' = [ppu EXCEPT !.attr_rows = ~ppu.attr_rows]
    BY <1>0, <1>5 DEF ScrollRows, picture, Disturbed, PpuTyped
  <2>2. /\ DOMAIN ppu' = DOMAIN ppu /\ ppu'.bg = ppu.bg /\ ppu'.spr = ppu.spr /\ ppu'.tall = ppu.tall
        /\ ppu'.rendering = ppu.rendering /\ ppu'.attr_rows = ~ppu.attr_rows /\ ppu'.reset_signal = ppu.reset_signal
    BY <1>0, <2>1 DEF PpuTyped
  <2>3. PpuTyped(ppu')
    BY <1>0, <2>2 DEF PpuTyped
  <2> QED BY <2>1, <2>3 DEF BoardTyped
<1>6. CASE TouchVram
  <2>0. UNCHANGED <<program, ppu, line, step, fresh>> /\ calm' = 0 /\ whole' = FALSE /\ mapper.kind \in Watching
    BY <1>6, WatchesIs DEF TouchVram, picture, Disturbed
  <2>1. PICK table \in 0..1, hi \in BOOLEAN : \E t \in Tiles(table) :
          mapper' = ReadPattern(mapper, [table |-> table, tile |-> t.tile, row |-> t.row, hi |-> hi])
    BY <1>6 DEF TouchVram
  <2>2. PICK t \in Tiles(table) :
          mapper' = ReadPattern(mapper, [table |-> table, tile |-> t.tile, row |-> t.row, hi |-> hi])
    BY <2>1
  <2>3. PICK r : r = [table |-> table, tile |-> t.tile, row |-> t.row, hi |-> hi]
    OBVIOUS
  <2>4. Fetch(r)
    BY <2>3, TilesAre DEF Fetch, TileOf
  <2>5. mapper' = ReadPattern(mapper, r)
    BY <2>2, <2>3
  <2>6. MapperKept(mapper') /\ mapper'.kind = mapper.kind
    BY <1>0, <2>0, <2>4, <2>5, PatternKept DEF Watching
  <2> QED BY <2>0, <2>6 DEF BoardTyped, Watching
<1>7. CASE ReadStatus
  <2>1. /\ UNCHANGED <<program, ppu, line, step, fresh, calm, whole>> /\ mapper.kind = "Exrom"
        /\ mapper' = ReadIrqStatus(mapper)
    BY <1>7 DEF ReadStatus, picture, history
  <2>2. ExromKept(mapper')
    BY <1>0, <2>1, StatusRead DEF MapperKept
  <2> QED BY <2>1, <2>2, KindsApart DEF BoardTyped, MapperKept, ExromKept
<1>8. CASE Reset
  <2>1. /\ program' = program /\ line' = 0 /\ step' = 0 /\ fresh' = TRUE /\ calm' = 0 /\ whole' = FALSE
    BY <1>8 DEF Reset, Disturbed
  <2>2. PICK hard \in BOOLEAN : /\ mapper' = ResetBoard(mapper, hard)
                                /\ ppu' = [ResetPpu EXCEPT !.attr_rows = ppu.attr_rows /\ ~hard]
    BY <1>8 DEF Reset
  <2>3. /\ MapperKept(mapper') /\ mapper'.kind = mapper.kind
        /\ mapper'.kind = "Sxrom" /\ mapper'.submapper # 5 => LastShown(mapper', 1)
    BY <1>0, <2>2, ResetKept
  <2>4. PpuTyped(ppu')
    <3>1. PICK rows \in BOOLEAN : rows = (ppu.attr_rows /\ ~hard)
      OBVIOUS
    <3> QED BY <2>2, <3>1, PageReset
  <2>5. Placed(line', step')
    BY <2>1, Sizes DEF Placed
  <2> QED BY <2>1, <2>3, <2>4, <2>5 DEF BoardTyped
<1>9. CASE PpuStep
  BY <1>9, BoardTypedPpu
<1> QED BY <1>1, <1>2, <1>3, <1>4, <1>5, <1>6, <1>7, <1>8, <1>9 DEF BoardNext

LEMMA BoardTypedRests == BoardTyped /\ UNCHANGED board_vars => BoardTyped'
BY DEF BoardTyped, board_vars, picture, history

(* What these shapes are worth. *)
LEMMA PagesThere == BoardTyped => PagesExist
<1> SUFFICES ASSUME BoardTyped, mapper.kind # "Exrom"
             PROVE  /\ WithinChip(mapper.prg)
                    /\ mapper.kind \in {"Cnrom", "Gxrom", "Sxrom", "Pxrom", "Txrom", "Vrc6"} => WithinChip(mapper.chr)
  BY DEF PagesExist
<1>1. \A b : \A w \in {One, Two, Four, Eight} : OnChip(b, w) => WithinChip(b)
  BY DEF OnChip, Windows, WithinChip
<1>2. MapperKept(mapper) /\ mapper.kind \in BoardKinds
  BY DEF BoardTyped, MapperKept
<1>3. CASE mapper.kind \in Fixed
  BY <1>1, <1>2, <1>3, KindsApart DEF MapperKept, DiscreteKept, PrgKept, ChrKept, Fixed
<1>4. CASE mapper.kind \in {"Sxrom", "Pxrom", "Txrom", "Vrc6"}
  BY <1>1, <1>2, <1>4 DEF MapperKept, SxromKept, PxromKept, PxromBase, TxromKept, KonamiKept
<1> QED BY <1>2, <1>3, <1>4, KindsSplit

-----------------------------------------------------------------------------
(* The vectors are there after a reset. *)

LEMMA WindowCounts == Cardinality(Two) = 2 /\ Cardinality(Four) = 4
<1>0. ASSUME NEW n \in Nat PROVE Cardinality(0..n) = n + 1
  BY FS_Interval
<1>1. PICK n \in Nat : n = 1
  OBVIOUS
<1>2. PICK k \in Nat : k = 3
  OBVIOUS
<1>3. 0..n = Two /\ 0..k = Four
  BY <1>1, <1>2 DEF Two, Four
<1>4. Cardinality(0..n) = n + 1 /\ Cardinality(0..k) = k + 1
  BY <1>0
<1> QED BY <1>1, <1>2, <1>3, <1>4

LEMMA VectorThere == BoardTyped => ResetVectorThere
<1> SUFFICES ASSUME BoardTyped, fresh,
                    mapper.kind \in {"Uxrom", "Bf909x", "Pxrom", "Txrom", "Vrc6", "Sxrom"},
                    mapper.kind = "Sxrom" => mapper.submapper # 5
             PROVE  mapper.prg.page[Cardinality(DOMAIN mapper.prg.page) - 1] = LastPage(mapper.prg)
  BY DEF ResetVectorThere
<1>1. MapperKept(mapper)
  BY DEF BoardTyped
<1>2. CASE mapper.kind \in {"Uxrom", "Bf909x"}
  <2>1. OnChip(mapper.prg, Two) /\ LastShown(mapper, 1)
    BY <1>1, <1>2 DEF MapperKept, DiscreteKept, PrgKept, Fixed
  <2> QED BY <2>1, WindowCounts DEF OnChip, Windows, LastShown
<1>3. CASE mapper.kind = "Sxrom"
  <2>1. OnChip(mapper.prg, Two) /\ LastShown(mapper, 1)
    BY <1>1, <1>3 DEF MapperKept, SxromKept, BoardTyped
  <2> QED BY <2>1, WindowCounts DEF OnChip, Windows, LastShown
<1>4. CASE mapper.kind \in {"Pxrom", "Txrom", "Vrc6"}
  <2>1. OnChip(mapper.prg, Four) /\ LastShown(mapper, 3)
    BY <1>1, <1>4 DEF MapperKept, PxromKept, PxromBase, TxromKept, KonamiKept
  <2> QED BY <2>1, WindowCounts DEF OnChip, Windows, LastShown
<1> QED BY <1>2, <1>3, <1>4

-----------------------------------------------------------------------------
(* MMC1: values arrive. *)

LEMMA KindStays ==
  ASSUME BoardTyped, BoardNext
  PROVE  program' = program /\ mapper'.kind = mapper.kind
<1>1. program' = program
  BY DEF BoardNext, CpuWrite, IdleCycle, WriteCtrl, WriteMask, ScrollRows, TouchVram, ReadStatus, Reset, PpuStep
<1>2. BoardTyped'
  BY BoardTypedStep
<1> QED BY <1>1, <1>2 DEF BoardTyped

(* The port of the MMC1: its shift register holds the bits that were sent, *)
(* its registers what the program wrote.                                   *)
PortInv ==
  mapper.kind = "Sxrom" =>
    /\ sent \in Seq({0, 1}) /\ Len(sent) <= 4
    /\ mapper.write_just_occurred \in {0, 1, 2}
    /\ just \in BOOLEAN /\ (just <=> mapper.write_just_occurred = 2)
    /\ mapper.shift = ShiftOf(Len(sent), ValueOf(sent))
    /\ wrote = Registered(mapper)

LEMMA NothingSent == <<>> \in Seq({0, 1}) /\ Len(<<>>) = 0 /\ ShiftOf(0, ValueOf(<<>>)) = DefaultShift
<1>1. ValueOf(<<>>) = 0
  BY DEF ValueOf
<1>2. ShiftOf(0, 0) = DefaultShift
  BY Powers DEF ShiftOf, DefaultShift
<1> QED BY <1>1, <1>2

LEMMA PortArrives == PortInv => SerialWriteArrives
BY DEF PortInv, SerialWriteArrives, ShiftOf, Registered

LEMMA PortStart ==
  ASSUME NEW cart, CartKept(cart), BoardInit(cart)
  PROVE  PortInv
<1> SUFFICES ASSUME mapper.kind = "Sxrom" PROVE PortInv
  BY DEF PortInv
<1>1. CartKept(cart) /\ mapper = ResetBoard(Load(cart), TRUE)
  BY DEF BoardInit
<1>2. cart.kind = "Sxrom"
  BY <1>1, StartKept
<1>3. PICK old : old = Load(cart)
  OBVIOUS
<1>4. old = LoadMmc1(cart)
  BY <1>2, <1>3 DEF Load
<1>5. SxromKept(old) /\ old.chr0 = 0 /\ old.chr1 = 0
  BY <1>1, <1>2, <1>4, LoadedMmc1 DEF CartKept
<1>6. SxromBase(old) /\ mapper = ResetMmc1(old, TRUE)
  BY <1>1, <1>3, <1>5 DEF SxromKept, SxromBase, ResetBoard
<1>7. /\ mapper.shift = DefaultShift /\ mapper.control = DefaultPrgMode /\ mapper.prg_reg = PrgRamDisabled
      /\ mapper.chr0 = 0 /\ mapper.chr1 = 0 /\ mapper.write_just_occurred = 0
  BY <1>5, <1>6, ResetRegisters
<1>8. sent = <<>> /\ just = FALSE /\ wrote = Registered(mapper)
  BY <1>7 DEF BoardInit, Registered
<1>9. Len(sent) = 0 /\ mapper.shift = ShiftOf(Len(sent), ValueOf(sent)) /\ sent \in Seq({0, 1})
  BY <1>7, <1>8, NothingSent
<1>10. just \in BOOLEAN /\ ~just
  BY <1>8
<1>11. just <=> mapper.write_just_occurred = 2
  BY <1>7, <1>10
<1> QED BY <1>7, <1>8, <1>9, <1>10, <1>11 DEF PortInv

(* A write to the port, of a board that a cycle has passed. *)
Sends(addr, val) ==
  /\ just => just' = FALSE /\ sent' = sent /\ wrote' = wrote
  /\ ~just /\ Bit(val, 7) => just' = TRUE /\ sent' = <<>> /\ wrote' = [wrote EXCEPT !.control = PortReset(wrote.control)]
  /\ ~just /\ ~Bit(val, 7) =>
       /\ just' = TRUE
       /\ Len(Append(sent, val % 2)) = 5 =>
            sent' = <<>> /\ wrote' = [wrote EXCEPT ![SerialPort(addr)] = ValueOf(Append(sent, val % 2))]
       /\ Len(Append(sent, val % 2)) # 5 => sent' = Append(sent, val % 2) /\ wrote' = wrote

LEMMA SendsBit ==
  ASSUME mapper.kind = "Sxrom", NEW addr, NEW val, "control" \in DOMAIN wrote
  PROVE  SendBit(addr, val) => Sends(addr, val)
<1>1. CASE just
  BY <1>1 DEF SendBit, Sends
<1>2. CASE ~just /\ Bit(val, 7)
  BY <1>2 DEF SendBit, Sends, PortReset
<1>3. CASE ~just /\ ~Bit(val, 7)
  BY <1>3 DEF SendBit, Sends
<1> QED BY <1>1, <1>2, <1>3

(* What the program has sent, before a write and after it. *)
SentTo(m) ==
  /\ sent \in Seq({0, 1}) /\ Len(sent) <= 4
  /\ just \in BOOLEAN /\ (just <=> m.write_just_occurred > 0) /\ m.write_just_occurred \in {0, 1}
  /\ m.shift = ShiftOf(Len(sent), ValueOf(sent)) /\ wrote = Registered(m)

NowSentTo(new) ==
  /\ sent' \in Seq({0, 1}) /\ Len(sent') <= 4
  /\ new.write_just_occurred \in {0, 1, 2}
  /\ just' \in BOOLEAN /\ (just' <=> new.write_just_occurred = 2)
  /\ new.shift = ShiftOf(Len(sent'), ValueOf(sent'))
  /\ wrote' = Registered(new)

LEMMA PortWritten ==
  ASSUME NEW m, SxromKept(m), NEW new, NEW addr \in Nat, Block(addr) \in 8..15, NEW val \in Nat, val < 256,
         Port(m, new, addr, val), Sends(addr, val), SentTo(m)
  PROVE  NowSentTo(new)
<1> SUFFICES ASSUME sent \in Seq({0, 1}), Len(sent) <= 4, just \in BOOLEAN, just <=> m.write_just_occurred > 0,
                    m.write_just_occurred \in {0, 1},
                    m.shift = ShiftOf(Len(sent), ValueOf(sent)), wrote = Registered(m)
             PROVE  /\ sent' \in Seq({0, 1}) /\ Len(sent') <= 4
                    /\ new.write_just_occurred \in {0, 1, 2}
                    /\ just' \in BOOLEAN /\ (just' <=> new.write_just_occurred = 2)
                    /\ new.shift = ShiftOf(Len(sent'), ValueOf(sent'))
                    /\ wrote' = Registered(new)
  BY DEF SentTo, NowSentTo
<1>1. CASE just
  <2>1. new = m /\ sent' = sent /\ wrote' = wrote /\ just' = FALSE
    BY <1>1 DEF Port, Sends
  <2>2. just' \in BOOLEAN /\ ~just'
    BY <2>1
  <2>3. just' <=> new.write_just_occurred = 2
    BY <2>1, <2>2
  <2> QED BY <2>1, <2>2, <2>3
<1>2. CASE ~just /\ Bit(val, 7)
  <2>1. m.write_just_occurred = 0
    BY <1>2
  <2>2. /\ new.write_just_occurred = 2 /\ new.shift = DefaultShift /\ new.control = PortReset(m.control)
        /\ new.chr0 = m.chr0 /\ new.chr1 = m.chr1 /\ new.prg_reg = m.prg_reg
    BY <1>2, <2>1 DEF Port
  <2>3. just' = TRUE /\ sent' = <<>> /\ wrote' = [wrote EXCEPT !.control = PortReset(wrote.control)]
    BY <1>2 DEF Sends
  <2>4. wrote' = Registered(new)
    BY <2>2, <2>3 DEF Registered
  <2> QED BY <2>2, <2>3, <2>4, NothingSent
<1>3. CASE ~just /\ ~Bit(val, 7)
  <2>1. m.write_just_occurred = 0
    BY <1>3
  <2>2. new.write_just_occurred = 2 /\ TakesBit(m, new, addr, val % 2)
    BY <1>3, <2>1 DEF Port
  <2>3. PICK b \in {0, 1} : b = val % 2
    OBVIOUS
  <2>4. PICK more : more = Append(sent, b)
    OBVIOUS
  <2>5. /\ more \in Seq({0, 1}) /\ Len(more) = Len(sent) + 1
        /\ ValueOf(sent) \in Nat /\ ValueOf(more) = ValueOf(sent) + b * 2^Len(sent)
    BY <2>3, <2>4, BitsSent
  <2>6. PICK n \in 0..4 : n = Len(sent)
    <3>1. Len(sent) \in Nat
      BY LenProperties
    <3>2. PICK n \in Nat : n = Len(sent)
      BY <3>1
    <3> QED BY <3>2
  <2>6b. PICK value \in Nat : value = ValueOf(sent)
    BY <2>5
  <2>7. /\ n < 4 => m.shift % 2 = 0 /\ (m.shift \div 2) + 16 * b = ShiftOf(n + 1, value + b * 2^n)
        /\ n = 4 => m.shift % 2 = 1 /\ (m.shift \div 2) + 16 * b = value + b * 2^n
    <3>1. PICK s : s = m.shift
      OBVIOUS
    <3>2. s = ShiftOf(n, value)
      BY <2>6, <2>6b, <3>1
    <3>2b. n \in 0..4 /\ value \in Nat /\ b \in {0, 1}
      BY <2>3, <2>6, <2>6b
    <3>3. ShiftedIn(s, n, value, b)
      BY <3>2, <3>2b, BitShifted
    <3> QED BY <3>1, <3>3 DEF ShiftedIn
  <2>8. just' = TRUE
    BY <1>3 DEF Sends
  <2>9. CASE n = 4
    <3>1. sent' = <<>> /\ wrote' = [wrote EXCEPT ![SerialPort(addr)] = ValueOf(more)]
      BY <1>3, <2>3, <2>4, <2>5, <2>6, <2>9 DEF Sends
    <3>2. Arrived(m, new, addr, b)
      BY <2>2, <2>3, <2>7, <2>9 DEF TakesBit, Sent
    <3>3. (m.shift \div 2) + 16 * b = ValueOf(more)
      BY <2>5, <2>6, <2>6b, <2>7, <2>9
    <3>4. /\ new.shift = DefaultShift
          /\ new.control = IF SerialPort(addr) = "control" THEN ValueOf(more) ELSE m.control
          /\ new.chr0 = IF SerialPort(addr) = "chr0" THEN ValueOf(more) ELSE m.chr0
          /\ new.chr1 = IF SerialPort(addr) = "chr1" THEN ValueOf(more) ELSE m.chr1
          /\ new.prg_reg = IF SerialPort(addr) = "prg" THEN ValueOf(more) ELSE m.prg_reg
      BY <3>2, <3>3 DEF Arrived
    <3>5. SerialPort(addr) \in {"control", "chr0", "chr1", "prg"}
      BY PortNames
    <3>6. wrote' = Registered(new)
      BY <3>1, <3>4, <3>5 DEF Registered
    <3> QED BY <2>2, <2>8, <3>1, <3>4, <3>6, NothingSent
  <2>10. CASE n < 4
    <3>0a. Append(sent, val % 2) = more
      BY <2>3, <2>4
    <3>0b. Len(more) # 5
      BY <2>5, <2>6, <2>10
    <3>1. sent' = more /\ wrote' = wrote
      BY <1>3, <3>0a, <3>0b DEF Sends
    <3>2. Sent(m, new, b)
      BY <2>2, <2>3, <2>7, <2>10 DEF TakesBit, Arrived
    <3>3. new.shift = ShiftOf(Len(more), ValueOf(more))
      BY <2>5, <2>6, <2>6b, <2>7, <2>10, <3>2 DEF Sent
    <3>4. Registered(new) = Registered(m)
      BY <3>2 DEF Sent, Registered
    <3> QED BY <2>2, <2>5, <2>6, <2>8, <2>10, <3>1, <3>3, <3>4
  <2> QED BY <2>6, <2>9, <2>10
<1> QED BY <1>1, <1>2, <1>3

LEMMA PortStep ==
  ASSUME BoardTyped, PortInv, BoardNext
  PROVE  PortInv'
<1> SUFFICES ASSUME mapper'.kind = "Sxrom" PROVE PortInv'
  BY DEF PortInv
<1>0. mapper.kind = "Sxrom" /\ SxromKept(mapper) /\ CartKept(program) /\ program.kind = "Sxrom"
  BY KindStays, ProgramKept DEF BoardTyped, MapperKept
<1>1. CASE CpuWrite
  <2>1. PICK w \in program.writes :
          mapper' = MapWrite(ClockBoard(mapper), w[1], w[2]) /\ SendBit(w[1], w[2])
    BY <1>1 DEF CpuWrite
  <2>2. w[1] \in Nat /\ w[2] \in Nat /\ w[2] < 256 /\ Block(w[1]) \in 8..15
    BY <1>0 DEF CartKept
  <2>3. PICK addr \in Nat, val \in Nat : val < 256 /\ addr = w[1] /\ val = w[2]
    BY <2>2
  <2>4. PICK m : m = ClockMmc1(mapper)
    OBVIOUS
  <2>5. /\ SxromKept(m) /\ Registered(m) = Registered(mapper) /\ m.shift = mapper.shift
        /\ m.write_just_occurred = IF mapper.write_just_occurred > 0 THEN mapper.write_just_occurred - 1 ELSE 0
    BY <1>0, <2>4, ClockedMmc1
  <2>6. mapper' = WriteMmc1(m, addr, val) /\ Block(addr) \in 8..15
    <3>1. ClockBoard(mapper) = m /\ m.kind = "Sxrom"
      BY <1>0, <2>4, <2>5 DEF ClockBoard, SxromKept, SxromBase
    <3> QED BY <2>1, <2>2, <2>3, <3>1 DEF MapWrite
  <2>7. Port(m, mapper', addr, val)
    BY <2>3, <2>5, <2>6, WrittenMmc1
  <2>8. Sends(addr, val)
    <3>1. "control" \in DOMAIN wrote
      BY <1>0 DEF PortInv, Registered
    <3> QED BY <1>0, <2>1, <2>3, <3>1, SendsBit
  <2>9. SentTo(m)
    BY <1>0, <2>5 DEF PortInv, SentTo
  <2>10. PICK new : new = mapper'
    OBVIOUS
  <2>11. Block(addr) \in 8..15 /\ Port(m, new, addr, val)
    BY <2>6, <2>7, <2>10
  <2>12. NowSentTo(new)
    BY <2>3, <2>5, <2>8, <2>9, <2>11, PortWritten
  <2> QED BY <2>10, <2>12 DEF PortInv, NowSentTo
<1>2. CASE IdleCycle
  <2>1. mapper' = ClockMmc1(mapper) /\ just' = FALSE /\ sent' = sent /\ wrote' = wrote
    BY <1>0, <1>2 DEF IdleCycle, ClockBoard
  <2>2. /\ Registered(mapper') = Registered(mapper) /\ mapper'.shift = mapper.shift
        /\ mapper'.write_just_occurred = IF mapper.write_just_occurred > 0 THEN mapper.write_just_occurred - 1 ELSE 0
    BY <1>0, <2>1, ClockedMmc1
  <2>3. mapper'.write_just_occurred \in {0, 1}
    BY <1>0, <2>2 DEF PortInv
  <2>4. just' \in BOOLEAN /\ ~just'
    BY <2>1
  <2>5. just' <=> mapper'.write_just_occurred = 2
    BY <2>3, <2>4
  <2> QED BY <1>0, <2>1, <2>2, <2>3, <2>4, <2>5 DEF PortInv
<1>3. CASE Reset
  <2>1. PICK hard \in BOOLEAN : mapper' = ResetBoard(mapper, hard) /\ just' = (just /\ ~hard)
    BY <1>3 DEF Reset
  <2>2. sent' = <<>> /\ wrote' = [wrote EXCEPT !.control = DefaultPrgMode, !.prg = PrgRamDisabled]
    BY <1>3 DEF Reset
  <2>3. mapper' = ResetMmc1(mapper, hard) /\ SxromBase(mapper)
    BY <1>0, <2>1 DEF ResetBoard, SxromKept
  <2>4. /\ mapper'.shift = DefaultShift
        /\ mapper'.control = DefaultPrgMode /\ mapper'.prg_reg = PrgRamDisabled
        /\ mapper'.chr0 = mapper.chr0 /\ mapper'.chr1 = mapper.chr1
        /\ mapper'.write_just_occurred = IF hard THEN 0 ELSE mapper.write_just_occurred
    BY <2>3, ResetRegisters
  <2>5. wrote' = Registered(mapper')
    <3>1. wrote = Registered(mapper)
      BY <1>0 DEF PortInv
    <3> QED BY <2>2, <2>4, <3>1 DEF Registered
  <2>6. /\ mapper'.write_just_occurred \in {0, 1, 2}
        /\ just' \in BOOLEAN /\ (just' <=> mapper'.write_just_occurred = 2)
    <3>1. mapper'.write_just_occurred \in {0, 1, 2}
      BY <1>0, <2>4 DEF PortInv
    <3>2. just' \in BOOLEAN
      BY <2>1
    <3>3. just' <=> (just /\ ~hard)
      BY <2>1
    <3>4. just <=> mapper.write_just_occurred = 2
      BY <1>0 DEF PortInv
    <3>5. just' <=> mapper'.write_just_occurred = 2
      BY <2>4, <3>3, <3>4
    <3> QED BY <3>1, <3>2, <3>5
  <2> QED BY <2>2, <2>4, <2>5, <2>6, NothingSent DEF PortInv
<1>4. CASE WriteCtrl \/ WriteMask \/ ScrollRows \/ TouchVram \/ ReadStatus \/ PpuStep
  BY <1>0, <1>4 DEF WriteCtrl, WriteMask, ScrollRows, TouchVram, ReadStatus, PpuStep, Watches
<1> QED BY <1>1, <1>2, <1>3, <1>4 DEF BoardNext

LEMMA PortRests == PortInv /\ UNCHANGED board_vars => PortInv'
BY DEF PortInv, board_vars, history, serial

-----------------------------------------------------------------------------
(* MMC5: the line of the picture. *)

(* What the fetches of the MMC5 leave alone. *)
LEMMA DetectedSame ==
  ASSUME NEW m, ExromKept(m), NEW n, NEW r, Detected(m, n, r)
  PROVE  SamePatterns(m, n) /\ n.tall = m.tall
<1>1. \A f \in ExromFields \ Watched : n[f] = m[f]
  BY DEF Detected, Alike, ExromKept
<1>2. {"chr", "chr_mode", "chr_hi", "spr_banks", "bg_banks", "exram_mode", "tall"} \subseteq ExromFields \ Watched
  BY DEF ExromFields, Watched
<1> QED BY <1>1, <1>2 DEF SamePatterns

CountingSame(m, n) ==
  /\ n.tall = m.tall /\ n.exram_mode = m.exram_mode /\ n.tile_cache = m.tile_cache
  /\ n.prev_match = m.prev_match /\ n.prev_addr = m.prev_addr /\ n.in_frame = m.in_frame /\ n.scanline = m.scanline
  /\ n.chr_mode = m.chr_mode /\ n.chr_hi = m.chr_hi /\ n.spr_banks = m.spr_banks /\ n.bg_banks = m.bg_banks

LEMMA CountingLeaves ==
  ASSUME NEW m, ExromKept(m), NEW n, Counting(m, n)
  PROVE  CountingSame(m, n)
<1>1. \A f \in ExromFields \ {"fetch_count", "chr"} : n[f] = m[f]
  BY DEF Counting, Alike, ExromKept
<1>2. {"tall", "exram_mode", "tile_cache", "prev_match", "prev_addr", "in_frame", "scanline",
       "chr_mode", "chr_hi", "spr_banks", "bg_banks"} \subseteq ExromFields \ {"fetch_count", "chr"}
  BY DEF ExromFields
<1> QED BY <1>1, <1>2 DEF CountingSame

(* A tile that the MMC5 sees fetched. *)
Seen(m, cell, attr, m2) ==
  /\ ExromKept(m2) /\ SamePatterns(m, m2) /\ m2.tall = m.tall /\ m2.fetch_count = m.fetch_count
  /\ m2.prev_match = 0 /\ m2.prev_addr = Palettes
  /\ m2.in_frame = m.in_frame /\ m2.scanline = m.scanline
  /\ m2.tile_cache = IF ExAttr(m) /\ ~attr /\ ~SprFetch(m) THEN cell ELSE m.tile_cache

LEMMA CellSeen ==
  ASSUME NEW m, MapperKept(m), m.kind = "Exrom", m.prev_match \in {0, 3}, NEW cell, NEW attr \in BOOLEAN,
         NEW m1, m1 = ReadScreen(m, cell, attr), NEW m2, m2 = ReadScreen(m1, Palettes, TRUE)
  PROVE  Seen(m, cell, attr, m2)
<1>1. PICK r : r = [cell |-> cell, attr |-> attr]
  OBVIOUS
<1>2. MapperKept(m1) /\ m1.kind = "Exrom" /\ Detected(m, m1, r)
  BY <1>1, ScreenKept
<1>3. ExromKept(m) /\ ExromKept(m1)
  BY <1>2 DEF MapperKept
<1>4. SamePatterns(m, m1) /\ m1.tall = m.tall
  BY <1>2, <1>3, DetectedSame
<1>5. m.prev_match # 1
  OBVIOUS
<1>6. /\ m1.in_frame = m.in_frame /\ m1.scanline = m.scanline /\ m1.fetch_count = m.fetch_count
      /\ m1.tile_cache = IF ExAttr(m) /\ ~attr /\ ~SprFetch(m) THEN cell ELSE m.tile_cache
  BY <1>1, <1>2, <1>5 DEF Detected
<1>7. PICK p : p = [cell |-> Palettes, attr |-> TRUE]
  OBVIOUS
<1>8. MapperKept(m2) /\ m2.kind = "Exrom" /\ Detected(m1, m2, p)
  <2>1. ASSUME NEW a, MapperKept(a), a.kind = "Exrom", NEW c, NEW t \in BOOLEAN, NEW b, b = ReadScreen(a, c, t)
        PROVE  MapperKept(b) /\ b.kind = "Exrom" /\ Detected(a, b, [cell |-> c, attr |-> t])
    BY <2>1, ScreenKept
  <2>2. MapperKept(m1) /\ m1.kind = "Exrom"
    BY <1>2
  <2>3. MapperKept(m2) /\ m2.kind = "Exrom" /\ Detected(m1, m2, [cell |-> Palettes, attr |-> TRUE])
    BY <2>1, <2>2
  <2> QED BY <1>7, <2>3
<1>9. ExromKept(m2) /\ SamePatterns(m1, m2) /\ m2.tall = m1.tall
  BY <1>3, <1>8, DetectedSame DEF MapperKept
<1>10. /\ m2.prev_match = 0 /\ m2.prev_addr = Palettes /\ m2.in_frame = m1.in_frame /\ m2.scanline = m1.scanline
       /\ m2.fetch_count = m1.fetch_count /\ m2.tile_cache = m1.tile_cache
  BY <1>7, <1>8 DEF Detected, Recognised
<1> QED BY <1>4, <1>6, <1>9, <1>10 DEF Seen, SamePatterns

TileSeen(m, cell, attr, m2, m3, new) ==
  /\ Seen(m, cell, attr, m2)
  /\ Counting(m2, m3) /\ ExromKept(m3) /\ CountingSame(m2, m3)
  /\ Counting(m3, new) /\ ExromKept(new) /\ CountingSame(m3, new)

LEMMA TileIsSeen ==
  ASSUME NEW m, MapperKept(m), m.kind = "Exrom", m.prev_match \in {0, 3}, NEW cell, NEW attr \in BOOLEAN,
         NEW lo, NEW hi, Fetch(lo), Fetch(hi), NEW m1, NEW m2, NEW m3, NEW new,
         TileRead(m, cell, attr, lo, hi, m1, m2, m3, new)
  PROVE  TileSeen(m, cell, attr, m2, m3, new)
<1>1. m1 = ReadScreen(m, cell, attr) /\ m2 = ReadScreen(m1, Palettes, TRUE)
  BY DEF TileRead
<1>2. Seen(m, cell, attr, m2)
  BY <1>1, CellSeen
<1>3. MapperKept(m2) /\ m2.kind = "Exrom"
  BY <1>2, KindsApart DEF Seen, MapperKept, ExromKept
<1>4. m3 = ReadPattern(m2, lo) /\ new = ReadPattern(m3, hi)
  BY DEF TileRead
<1>5. MapperKept(m3) /\ m3.kind = "Exrom" /\ Counting(m2, m3)
  BY <1>3, <1>4, PatternKept
<1>6. MapperKept(new) /\ new.kind = "Exrom" /\ Counting(m3, new)
  BY <1>4, <1>5, PatternKept
<1>7. ExromKept(m2) /\ ExromKept(m3) /\ ExromKept(new)
  BY <1>3, <1>5, <1>6 DEF MapperKept
<1>8. CountingSame(m2, m3) /\ CountingSame(m3, new)
  BY <1>5, <1>6, <1>7, CountingLeaves
<1> QED BY <1>2, <1>5, <1>6, <1>7, <1>8 DEF TileSeen

(* The fetches at the end of a line: the board takes them for the next one. *)
LineSeen(m, new) ==
  /\ new.prev_match = 3
  /\ new.in_frame /\ new.scanline = (IF m.in_frame THEN m.scanline + 1 ELSE 0) /\ new.fetch_count = 0
LineMissed(m, new) ==
  /\ new.prev_match = 0
  /\ new.in_frame = m.in_frame /\ new.scanline = m.scanline /\ new.fetch_count = m.fetch_count

LEMMA EndIsSeen ==
  ASSUME NEW m, MapperKept(m), m.kind = "Exrom", m.prev_addr # Cell(2), NEW attr \in BOOLEAN,
         NEW m1, NEW m2, NEW m3, NEW new, DummyRead(m, attr, m1, m2, m3, new)
  PROVE  /\ ExromKept(new) /\ SamePatterns(m, new) /\ new.tall = m.tall
         /\ ~attr => LineSeen(m, new)
         /\ attr => LineMissed(m, new)
<1>1. PICK r : r = [cell |-> Cell(2), attr |-> attr]
  OBVIOUS
<1>2. /\ MapperKept(m1) /\ MapperKept(m2) /\ MapperKept(m3) /\ MapperKept(new)
      /\ m1.kind = "Exrom" /\ m2.kind = "Exrom" /\ m3.kind = "Exrom" /\ new.kind = "Exrom"
  BY DummyKept
<1>3. /\ m1 = ReadScreen(m, Cell(2), attr) /\ m2 = ReadScreen(m1, Cell(2), attr)
      /\ m3 = ReadScreen(m2, Cell(2), attr) /\ new = ReadScreen(m3, Cell(2), attr)
  BY DEF DummyRead
<1>4. ASSUME NEW a, MapperKept(a), a.kind = "Exrom", NEW b, b = ReadScreen(a, Cell(2), attr)
      PROVE  Detected(a, b, r) /\ SamePatterns(a, b) /\ b.tall = a.tall
  <2>1. Detected(a, b, r)
    BY <1>1, <1>4, ScreenKept
  <2> QED BY <1>4, <2>1, DetectedSame DEF MapperKept
<1>5. Detected(m, m1, r) /\ SamePatterns(m, m1) /\ m1.tall = m.tall
  BY <1>3, <1>4
<1>6. Detected(m1, m2, r) /\ SamePatterns(m1, m2) /\ m2.tall = m1.tall
  BY <1>2, <1>3, <1>4
<1>7. Detected(m2, m3, r) /\ SamePatterns(m2, m3) /\ m3.tall = m2.tall
  BY <1>2, <1>3, <1>4
<1>8. Detected(m3, new, r) /\ SamePatterns(m3, new) /\ new.tall = m3.tall
  BY <1>2, <1>3, <1>4
<1>9. ExromKept(new) /\ SamePatterns(m, new) /\ new.tall = m.tall
  BY <1>2, <1>5, <1>6, <1>7, <1>8 DEF SamePatterns, MapperKept
<1>10. ASSUME ~attr PROVE LineSeen(m, new)
  <2>0. r.cell = Cell(2) /\ ~r.attr
    BY <1>1, <1>10
  <2>1. m1.prev_match = 0 /\ m1.prev_addr = Cell(2) /\ m1.in_frame = m.in_frame /\ m1.scanline = m.scanline
    BY <1>5, <2>0 DEF Detected, Recognised
  <2>2. m2.prev_match = 1 /\ m2.prev_addr = Cell(2) /\ m2.in_frame = m.in_frame /\ m2.scanline = m.scanline
    BY <1>6, <2>0, <2>1 DEF Detected, Recognised
  <2>3. /\ m3.prev_match = 2 /\ m3.prev_addr = Cell(2)
        /\ m3.in_frame /\ m3.scanline = (IF m.in_frame THEN m.scanline + 1 ELSE 0) /\ m3.fetch_count = 0
    BY <1>7, <2>0, <2>2 DEF Detected, Recognised
  <2>4. /\ new.prev_match = 3 /\ new.in_frame = m3.in_frame /\ new.scanline = m3.scanline /\ new.fetch_count = m3.fetch_count
    <3>1. Recognised(m3, r) /\ ~(Recognised(m3, r) /\ m3.prev_match = 1)
      BY <2>0, <2>3 DEF Recognised
    <3>2. new.in_frame = m3.in_frame /\ new.scanline = m3.scanline /\ new.fetch_count = m3.fetch_count
      BY <1>8, <3>1 DEF Detected
    <3>3. new.prev_match = 3
      BY <1>8, <2>3, <3>1 DEF Detected
    <3> QED BY <3>2, <3>3
  <2> QED BY <2>3, <2>4 DEF LineSeen
<1>11. ASSUME attr PROVE LineMissed(m, new)
  <2>0. r.attr
    BY <1>1, <1>11
  <2> QED BY <1>5, <1>6, <1>7, <1>8, <2>0 DEF Detected, Recognised, LineMissed
<1> QED BY <1>9, <1>10, <1>11

(* What a step of the PPU does to the MMC5. *)
ExTile(set, cell, r, shown_) ==
  \E m2, m3 :
    /\ TileSeen(mapper, cell, ppu.attr_rows, m2, m3, mapper')
    /\ drawn' = [shown |-> shown_ /\ Wanted(set, cell, r) # NoPage,
                 lo |-> PatternSource(m3, r.table), hi |-> PatternSource(mapper', r.table),
                 want |-> Wanted(set, cell, r)]

LEMMA ExTileFetched ==
  ASSUME MapperKept(mapper), mapper.kind = "Exrom", mapper.prev_match \in {0, 3}, ppu.attr_rows \in BOOLEAN,
         NEW set, NEW cell, NEW table \in {0, 1}, NEW r, TileOf(r, table), NEW shown_
  PROVE  FetchTile(set, cell, r, shown_) => ExTile(set, cell, r, shown_)
<1> SUFFICES ASSUME FetchesTile(set, cell, r, shown_) PROVE ExTile(set, cell, r, shown_)
  BY TileFetches
<1>1. PICK lo, hi, m1, m2, m3 :
        /\ lo = [table |-> r.table, tile |-> r.tile, row |-> r.row, hi |-> FALSE]
        /\ hi = [table |-> r.table, tile |-> r.tile, row |-> r.row, hi |-> TRUE]
        /\ TileRead(mapper, cell, ppu.attr_rows, lo, hi, m1, m2, m3, mapper')
        /\ drawn' = [shown |-> shown_ /\ Wanted(set, cell, r) # NoPage,
                     lo |-> Source(m2, lo), hi |-> Source(m3, hi), want |-> Wanted(set, cell, r)]
  BY DEF FetchesTile
<1>2. Fetch(lo) /\ Fetch(hi) /\ lo.table = r.table /\ hi.table = r.table
  BY <1>1 DEF Fetch, TileOf
<1>3. TileSeen(mapper, cell, ppu.attr_rows, m2, m3, mapper')
  BY <1>1, <1>2, TileIsSeen
<1>4. m3 = ReadPattern(m2, lo) /\ mapper' = ReadPattern(m3, hi) /\ m2.kind = "Exrom" /\ m3.kind = "Exrom"
  BY <1>1, <1>3 DEF TileRead, TileSeen, Seen, ExromKept
<1>5. Source(m2, lo) = PatternSource(m3, r.table) /\ Source(m3, hi) = PatternSource(mapper', r.table)
  BY <1>2, <1>4 DEF Source
<1> QED BY <1>1, <1>3, <1>5 DEF ExTile

ExBackground == \E r : TileOf(r, ppu.bg) /\ ExTile("Bg", Cell(step + 2), r, step < Cols - 1)
ExSprite     == \E table \in {0, 1} : \E r : TileOf(r, table) /\ ExTile("Spr", Cell(0), r, TRUE)
ExPrefetch   ==
  \E r : TileOf(r, ppu.bg) /\ ExTile("Bg", Cell(step - Prefetch), r, ~(ExAttr(mapper) /\ step = Prefetch))

ExFetches ==
  \/ step < FirstSprite /\ ExBackground
  \/ step >= FirstSprite /\ step < Prefetch /\ ExSprite
  \/ step >= Prefetch /\ step < Dummy /\ ExPrefetch

ExEnds ==
  /\ ExromKept(mapper') /\ SamePatterns(mapper, mapper') /\ mapper'.tall = mapper.tall /\ drawn' = drawn
  /\ ~ppu.attr_rows => LineSeen(mapper, mapper')
  /\ ppu.attr_rows => LineMissed(mapper, mapper')

LEMMA ExPpu ==
  ASSUME BoardTyped, mapper.kind = "Exrom", mapper.prev_match \in {0, 3},
         step = Dummy => mapper.prev_addr # Cell(2), PpuStep
  PROVE  /\ Fetching /\ step # Dummy => ExFetches
         /\ Fetching /\ step = Dummy => ExEnds
         /\ ~Fetching => mapper' = LeaveFrame(mapper) /\ drawn' = Nothing
<1>0. /\ MapperKept(mapper) /\ ppu.attr_rows \in BOOLEAN /\ ppu.bg \in {0, 1} /\ ppu.spr \in {0, 1}
      /\ step \in 0..Dummy
  BY DEF BoardTyped, PpuTyped, Placed
<1>1. CASE Fetching /\ Background
  <2>1. PICK r \in Tiles(ppu.bg) : FetchTile("Bg", Cell(step + 2), r, step < Cols - 1)
    BY <1>1 DEF Background
  <2>2. TileOf(r, ppu.bg)
    BY TilesAre
  <2>3. ExTile("Bg", Cell(step + 2), r, step < Cols - 1)
    BY <1>0, <2>1, <2>2, ExTileFetched
  <2>4. step < FirstSprite /\ step # Dummy
    BY <1>1, Sizes DEF Background
  <2> QED BY <1>1, <2>2, <2>3, <2>4 DEF ExFetches, ExBackground, ExSprite, ExPrefetch
<1>2. CASE Fetching /\ Sprites
  <2>1. PICK table \in SpriteTables : \E r \in Tiles(table) : FetchTile("Spr", Cell(0), r, TRUE)
    BY <1>2 DEF Sprites
  <2>2. PICK r \in Tiles(table) : FetchTile("Spr", Cell(0), r, TRUE)
    BY <2>1
  <2>3. table \in {0, 1}
    BY <1>0 DEF SpriteTables
  <2>4. TileOf(r, table)
    BY TilesAre
  <2>5. ExTile("Spr", Cell(0), r, TRUE)
    BY <1>0, <2>2, <2>3, <2>4, ExTileFetched
  <2>6. step >= FirstSprite /\ step < Prefetch /\ step # Dummy
    BY <1>0, <1>2, Sizes DEF Sprites
  <2>7. \E r2 : TileOf(r2, table) /\ ExTile("Spr", Cell(0), r2, TRUE)
    BY <2>4, <2>5
  <2>8. \E t \in {0, 1} : \E r2 : TileOf(r2, t) /\ ExTile("Spr", Cell(0), r2, TRUE)
    BY <2>3, <2>7
  <2>9. ExFetches
    BY <2>6, <2>8 DEF ExFetches, ExBackground, ExSprite, ExPrefetch
  <2> QED BY <1>2, <2>6, <2>9
<1>3. CASE Fetching /\ PrefetchTile
  <2>1. PICK r \in Tiles(ppu.bg) :
          FetchTile("Bg", Cell(step - Prefetch), r, ~(mapper.kind = "Exrom" /\ ExAttr(mapper) /\ step = Prefetch))
    BY <1>3 DEF PrefetchTile
  <2>2. TileOf(r, ppu.bg)
    BY TilesAre
  <2>3. FetchTile("Bg", Cell(step - Prefetch), r, ~(ExAttr(mapper) /\ step = Prefetch))
    BY <2>1
  <2>4. ExTile("Bg", Cell(step - Prefetch), r, ~(ExAttr(mapper) /\ step = Prefetch))
    BY <1>0, <2>2, <2>3, ExTileFetched
  <2>5. step >= Prefetch /\ step < Dummy
    BY <1>0, <1>3, Sizes DEF PrefetchTile
  <2>6. \E r2 : TileOf(r2, ppu.bg) /\ ExTile("Bg", Cell(step - Prefetch), r2, ~(ExAttr(mapper) /\ step = Prefetch))
    BY <2>2, <2>4
  <2>7. ExFetches
    BY <2>5, <2>6 DEF ExFetches, ExBackground, ExSprite, ExPrefetch
  <2>8. step # Dummy
    BY <1>0, <2>5, Sizes
  <2> QED BY <1>3, <2>7, <2>8
<1>4. CASE Fetching /\ DummyFetches
  <2>1. step = Dummy /\ drawn' = drawn
    BY <1>4, DummyReads
  <2>2. PICK m1, m2, m3 : DummyRead(mapper, ppu.attr_rows, m1, m2, m3, mapper')
    BY <1>4, DummyReads
  <2>3. PICK attr \in BOOLEAN : attr = ppu.attr_rows
    BY <1>0
  <2>4. mapper.prev_addr # Cell(2) /\ DummyRead(mapper, attr, m1, m2, m3, mapper')
    BY <2>1, <2>2, <2>3
  <2>5. /\ ExromKept(mapper') /\ SamePatterns(mapper, mapper') /\ mapper'.tall = mapper.tall
        /\ ~attr => LineSeen(mapper, mapper')
        /\ attr => LineMissed(mapper, mapper')
    BY <1>0, <2>4, EndIsSeen
  <2> QED BY <1>4, <2>1, <2>3, <2>5 DEF ExEnds
<1>5. CASE ~Fetching /\ NoFetches
  BY <1>5 DEF NoFetches
<1> QED BY <1>1, <1>2, <1>3, <1>4, <1>5 DEF PpuStep

(* The frame of the MMC5: its lines are those of an undisturbed picture.   *)
LineInv ==
  mapper.kind = "Exrom" =>
    /\ mapper.prev_match \in {0, 3}
    /\ step = Dummy => mapper.prev_addr # Cell(2)
    /\ line = Prerender => ~mapper.in_frame
    /\ whole => ppu.rendering
    /\ whole /\ line < Lines /\ ~ppu.attr_rows => mapper.in_frame /\ mapper.scanline = line

LEMMA CellsApart == Palettes # Cell(2) /\ NoCell # Cell(2)
BY DEF Palettes, NoCell, Cell

LEMMA LinesKnown == LineInv => ScanlineKept
BY DEF LineInv, ScanlineKept

(* A change of the board that leaves the frame where it is. *)
LEMMA FrameAlike ==
  ASSUME NEW m, ExromKept(m), NEW n, NEW but, Alike(m, n, but),
         but \cap {"prev_match", "prev_addr", "in_frame", "scanline"} = {}
  PROVE  n.prev_match = m.prev_match /\ n.prev_addr = m.prev_addr /\ n.in_frame = m.in_frame /\ n.scanline = m.scanline
<1>1. \A f \in ExromFields \ but : n[f] = m[f]
  BY DEF Alike, ExromKept
<1>2. {"prev_match", "prev_addr", "in_frame", "scanline"} \subseteq ExromFields \ but
  BY DEF ExromFields
<1> QED BY <1>1, <1>2

LEMMA LineStart ==
  ASSUME NEW cart, CartKept(cart), BoardInit(cart)
  PROVE  LineInv
<1> SUFFICES ASSUME mapper.kind = "Exrom" PROVE LineInv
  BY DEF LineInv
<1>1. CartKept(cart) /\ mapper = ResetBoard(Load(cart), TRUE)
  BY DEF BoardInit
<1>2. cart.kind = "Exrom" /\ cart.chr \in Nat
  BY <1>1, StartKept DEF CartKept
<1>3. PICK old : old = Load(cart)
  OBVIOUS
<1>4. old = LoadMmc5(cart)
  BY <1>2, <1>3 DEF Load
<1>5. ExromKept(old) /\ old.prev_match = 0
  BY <1>2, <1>4, LoadedMmc5
<1>6. mapper = ResetMmc5(old)
  BY <1>1, <1>3, <1>5 DEF ExromKept, ResetBoard
<1>7. Alike(old, mapper, {"prg_mode", "chr_mode"})
  BY <1>5, <1>6, ModesReset
<1>8. mapper.prev_match = 0
  BY <1>5, <1>7, FrameAlike
<1>9. line = 0 /\ step = 0 /\ whole = FALSE
  BY DEF BoardInit
<1>10. step # Dummy /\ line # Prerender
  BY <1>9, Sizes
<1> QED BY <1>8, <1>9, <1>10 DEF LineInv

LEMMA LinePpu ==
  ASSUME BoardTyped, LineInv, PpuStep, mapper.kind = "Exrom"
  PROVE  LineInv'
<1>0. /\ ExromKept(mapper) /\ PpuTyped(ppu) /\ line \in 0..(Lines + 1) /\ step \in 0..Dummy /\ whole \in BOOLEAN
      /\ mapper.prev_match \in {0, 3}
      /\ step = Dummy => mapper.prev_addr # Cell(2)
      /\ line = Prerender => ~mapper.in_frame
      /\ whole => ppu.rendering
      /\ whole /\ line < Lines /\ ~ppu.attr_rows => mapper.in_frame /\ mapper.scanline = line
  BY DEF BoardTyped, MapperKept, Placed, LineInv
<1>1. MovesOn
  BY PpuAdvances
<1>2. ppu'.rendering = ppu.rendering /\ ppu'.attr_rows = ppu.attr_rows
  BY <1>0, <1>1, PpuNext
<1>3. /\ Fetching /\ step # Dummy => ExFetches
      /\ Fetching /\ step = Dummy => ExEnds
      /\ ~Fetching => mapper' = LeaveFrame(mapper)
  BY <1>0, ExPpu
<1>4. /\ ~RenderLine => whole' = FALSE
      /\ RenderLine /\ line = Prerender /\ step = Dummy => whole' = ppu.rendering
      /\ RenderLine /\ ~(line = Prerender /\ step = Dummy) => whole' = whole
  BY DEF PpuStep
<1>5. /\ EndOfLine => step' = 0 /\ line' = IF line = Lines + 1 THEN 0 ELSE line + 1
      /\ ~EndOfLine => step' = step + 1 /\ line' = line
  BY <1>0, <1>1, LineAfter DEF MovesOn
<1>6. whole' => ppu'.rendering
  BY <1>0, <1>2, <1>4
<1>7. CASE Fetching /\ step # Dummy
  <2>1. PICK cell, m2, m3 : TileSeen(mapper, cell, ppu.attr_rows, m2, m3, mapper')
    BY <1>3, <1>7 DEF ExFetches, ExBackground, ExSprite, ExPrefetch, ExTile
  <2>2. /\ mapper'.prev_match = 0 /\ mapper'.prev_addr = Palettes
        /\ mapper'.in_frame = mapper.in_frame /\ mapper'.scanline = mapper.scanline
    BY <2>1 DEF TileSeen, Seen, CountingSame
  <2>3. ~EndOfLine /\ RenderLine
    BY <1>7 DEF EndOfLine, Fetching
  <2>4. step' = step + 1 /\ line' = line /\ whole' = whole
    BY <1>4, <1>5, <1>7, <2>3
  <2>5. line' = Prerender => ~mapper'.in_frame
    BY <1>0, <2>2, <2>4
  <2>6. whole' /\ line' < Lines /\ ~ppu'.attr_rows => mapper'.in_frame /\ mapper'.scanline = line'
    BY <1>0, <1>2, <2>2, <2>4
  <2>7. mapper'.prev_match \in {0, 3} /\ mapper'.prev_addr # Cell(2)
    BY <2>2, CellsApart
  <2> QED BY <1>6, <2>5, <2>6, <2>7 DEF LineInv, Prerender, Dummy, Prefetch
<1>8. CASE Fetching /\ step = Dummy
  <2>1. /\ ~ppu.attr_rows => LineSeen(mapper, mapper')
        /\ ppu.attr_rows => LineMissed(mapper, mapper')
    BY <1>3, <1>8 DEF ExEnds
  <2>2. EndOfLine /\ RenderLine
    BY <1>8 DEF EndOfLine, Fetching
  <2>3. step' = 0 /\ line' = IF line = Lines + 1 THEN 0 ELSE line + 1
    BY <1>5, <2>2
  <2>4. step' # Dummy /\ line' # Prerender
    BY <1>0, <2>2, <2>3, Sizes DEF RenderLine
  <2>5. mapper'.prev_match \in {0, 3}
    BY <2>1 DEF LineSeen, LineMissed
  <2>6. ASSUME whole', line' < Lines, ~ppu'.attr_rows
        PROVE  mapper'.in_frame /\ mapper'.scanline = line'
    <3>1. mapper'.in_frame /\ mapper'.scanline = (IF mapper.in_frame THEN mapper.scanline + 1 ELSE 0)
      BY <1>2, <2>1, <2>6 DEF LineSeen
    <3>2. CASE line = Prerender
      <4>1. ~mapper.in_frame /\ line' = 0
        BY <1>0, <2>3, <3>2, Sizes
      <4> QED BY <3>1, <4>1
    <3>3. CASE line # Prerender
      <4>1. whole /\ line < Lines
        <5>1. whole
          BY <1>4, <2>2, <2>6, <3>3
        <5>2. line < Lines
          BY <1>0, <2>2, <3>3, Sizes DEF RenderLine
        <5> QED BY <5>1, <5>2
      <4>2. mapper.in_frame /\ mapper.scanline = line
        BY <1>0, <1>2, <2>6, <4>1
      <4>3. mapper'.scanline = mapper.scanline + 1 /\ line' = line + 1
        <5>1. mapper'.scanline = mapper.scanline + 1
          BY <3>1, <4>2
        <5>2. line' = line + 1
          BY <2>3, <4>1, Sizes
        <5> QED BY <5>1, <5>2
      <4> QED BY <3>1, <4>2, <4>3
    <3> QED BY <3>2, <3>3
  <2> QED BY <1>6, <2>4, <2>5, <2>6 DEF LineInv, Prerender, Dummy, Prefetch
<1>9. CASE ~Fetching
  <2>1. mapper' = LeaveFrame(mapper)
    BY <1>3, <1>9
  <2>2. Alike(mapper, mapper', {"in_frame", "prev_addr"}) /\ ~mapper'.in_frame /\ mapper'.prev_addr = NoCell
    BY <1>0, <2>1, FrameLeft
  <2>3. mapper'.prev_match = mapper.prev_match
    <3>1. \A f \in ExromFields \ {"in_frame", "prev_addr"} : mapper'[f] = mapper[f]
      BY <1>0, <2>2 DEF Alike, ExromKept
    <3>2. "prev_match" \in ExromFields \ {"in_frame", "prev_addr"}
      BY DEF ExromFields
    <3> QED BY <3>1, <3>2
  <2>4. ~whole'
    <3>1. CASE ~RenderLine
      BY <1>4, <3>1
    <3>2. CASE RenderLine
      <4>1. ~ppu.rendering
        BY <1>9, <3>2 DEF Fetching
      <4> QED BY <1>0, <1>4, <3>2, <4>1
    <3> QED BY <3>1, <3>2
  <2>5. mapper'.prev_match \in {0, 3} /\ mapper'.prev_addr # Cell(2)
    BY <1>0, <2>2, <2>3, CellsApart
  <2> QED BY <1>6, <2>2, <2>4, <2>5 DEF LineInv, Prerender, Dummy, Prefetch
<1> QED BY <1>7, <1>8, <1>9

(* The pictures' settings as the MMC5 knows them. *)
SizeKnown ==
  /\ ppu.tall => mapper.tall
  /\ ppu.reset_signal => ~ppu.rendering /\ ~ppu.tall

(* What the program does to the MMC5: writes that leave its frame alone,   *)
(* changes of the picture, and resets.                                     *)
LeavesFrame ==
  /\ ppu' = ppu /\ line' = line /\ step' = step /\ whole' = whole /\ drawn' = drawn
  /\ mapper'.prev_match = mapper.prev_match /\ mapper'.prev_addr = mapper.prev_addr
  /\ mapper'.in_frame = mapper.in_frame /\ mapper'.scanline = mapper.scanline
  /\ mapper'.fetch_count = mapper.fetch_count /\ mapper'.tall = mapper.tall
  /\ calm' = 0 \/ (calm' = calm /\ SamePatterns(mapper, mapper'))

Interferes ==
  /\ line' = line /\ step' = step /\ whole' = FALSE /\ calm' = 0
  /\ mapper'.prev_match = mapper.prev_match /\ mapper'.prev_addr \in {mapper.prev_addr, NoCell}
  /\ mapper'.in_frame => mapper.in_frame

Restarts ==
  /\ line' = 0 /\ step' = 0 /\ whole' = FALSE /\ calm' = 0
  /\ mapper'.prev_match = mapper.prev_match

LEMMA StaysAlike ==
  ASSUME NEW m, ExromKept(m), NEW n, NEW but, Alike(m, n, but), NEW f \in ExromFields, f \notin but
  PROVE  n[f] = m[f]
BY DEF Alike, ExromKept

LEMMA WriteActs ==
  ASSUME BoardTyped, mapper.kind = "Exrom", CpuWrite
  PROVE  LeavesFrame
<1>1. PICK w \in program.writes :
        /\ mapper' = MapWrite(ClockBoard(mapper), w[1], w[2])
        /\ calm' = IF Repaints(mapper, w[1]) THEN 0 ELSE calm
  BY DEF CpuWrite
<1>2. ppu' = ppu /\ line' = line /\ step' = step /\ whole' = whole /\ drawn' = drawn
  BY DEF CpuWrite, picture
<1>3. w[1] \in Nat /\ w[2] \in Nat /\ w[2] < 256
  BY ProgramKept DEF CartKept
<1>4. PICK addr \in Nat, val \in Nat : val < 256 /\ addr = w[1] /\ val = w[2]
  BY <1>3
<1>5. ExromKept(mapper) /\ mapper' = WriteMmc5(mapper, addr, val)
  <2>1. ClockBoard(mapper) = mapper
    BY DEF ClockBoard
  <2> QED BY <1>1, <1>4, <2>1 DEF MapWrite, BoardTyped, MapperKept
<1>6. Alike(mapper, mapper', Programmed) /\ (addr \notin PatternRegisters => SamePatterns(mapper, mapper'))
  BY <1>4, <1>5, WrittenMmc5
<1>7. {"prev_match", "prev_addr", "in_frame", "scanline", "fetch_count", "tall"} \subseteq ExromFields \ Programmed
  BY DEF ExromFields, Programmed
<1>8. \A f \in ExromFields \ Programmed : mapper'[f] = mapper[f]
  BY <1>5, <1>6, StaysAlike
<1>9. calm' = 0 \/ (calm' = calm /\ SamePatterns(mapper, mapper'))
  <2>1. CASE addr \in PatternRegisters
    BY <1>1, <1>4, <2>1 DEF Repaints, PatternRegisters
  <2>2. CASE addr \notin PatternRegisters
    BY <1>1, <1>4, <1>6, <2>2 DEF Repaints, PatternRegisters
  <2> QED BY <2>1, <2>2
<1> QED BY <1>2, <1>7, <1>8, <1>9 DEF LeavesFrame

LEMMA StatusActs ==
  ASSUME BoardTyped, mapper.kind = "Exrom", ReadStatus
  PROVE  LeavesFrame
<1>1. /\ ppu' = ppu /\ line' = line /\ step' = step /\ whole' = whole /\ drawn' = drawn /\ calm' = calm
      /\ mapper' = ReadIrqStatus(mapper) /\ ExromKept(mapper)
  BY DEF ReadStatus, picture, history, BoardTyped, MapperKept
<1>2. Alike(mapper, mapper', {"irq_pending"})
  BY <1>1, StatusRead
<1>3. {"prev_match", "prev_addr", "in_frame", "scanline", "fetch_count", "tall", "chr", "chr_mode", "chr_hi",
       "spr_banks", "bg_banks", "exram_mode"} \subseteq ExromFields \ {"irq_pending"}
  BY DEF ExromFields
<1>4. \A f \in ExromFields \ {"irq_pending"} : mapper'[f] = mapper[f]
  BY <1>1, <1>2, StaysAlike
<1> QED BY <1>1, <1>3, <1>4 DEF LeavesFrame, SamePatterns

LEMMA CtrlActs ==
  ASSUME BoardTyped, mapper.kind = "Exrom", WriteCtrl
  PROVE  Interferes /\ (SizeKnown => SizeKnown')
<1>0. line' = line /\ step' = step /\ whole' = FALSE /\ calm' = 0 /\ ExromKept(mapper) /\ PpuTyped(ppu)
  BY DEF WriteCtrl, picture, Disturbed, BoardTyped, MapperKept
<1>1. PICK s \in program.settings :
        /\ ppu' = IF ppu.reset_signal THEN ppu ELSE [ppu EXCEPT !.bg = s.bg, !.spr = s.spr, !.tall = s.tall]
        /\ mapper' = SeesCtrl(mapper, s.tall)
  BY DEF WriteCtrl
<1>2. s.tall \in BOOLEAN
  BY ProgramKept DEF CartKept
<1>3. Alike(mapper, mapper', {"tall"}) /\ mapper'.tall = s.tall
  BY <1>0, <1>1, <1>2, CtrlSeen
<1>4. {"prev_match", "prev_addr", "in_frame"} \subseteq ExromFields \ {"tall"}
  BY DEF ExromFields
<1>5. \A f \in ExromFields \ {"tall"} : mapper'[f] = mapper[f]
  BY <1>0, <1>3, StaysAlike
<1>6. Interferes
  BY <1>0, <1>4, <1>5 DEF Interferes
<1>7. ASSUME SizeKnown PROVE SizeKnown'
  <2>1. CASE ppu.reset_signal
    BY <1>1, <1>7, <2>1 DEF SizeKnown
  <2>2. CASE ~ppu.reset_signal
    <3>1. ppu'.tall = s.tall /\ ppu'.reset_signal = ppu.reset_signal
      BY <1>0, <1>1, <2>2 DEF PpuTyped
    <3> QED BY <1>3, <2>2, <3>1 DEF SizeKnown
  <2> QED BY <2>1, <2>2
<1> QED BY <1>6, <1>7

LEMMA MaskActs ==
  ASSUME BoardTyped, mapper.kind = "Exrom", WriteMask
  PROVE  Interferes /\ (SizeKnown => SizeKnown')
<1>0. line' = line /\ step' = step /\ whole' = FALSE /\ calm' = 0 /\ ExromKept(mapper) /\ PpuTyped(ppu)
  BY DEF WriteMask, picture, Disturbed, BoardTyped, MapperKept
<1>1. PICK rendering \in BOOLEAN :
        /\ ppu' = IF ppu.reset_signal THEN ppu ELSE [ppu EXCEPT !.rendering = rendering]
        /\ mapper' = SeesMask(mapper, rendering)
  BY DEF WriteMask
<1>2. /\ Alike(mapper, mapper', {"rendering", "in_frame", "prev_addr"})
      /\ mapper'.in_frame => mapper.in_frame
      /\ mapper'.prev_addr \in {mapper.prev_addr, NoCell}
  BY <1>0, <1>1, MaskSeen
<1>3. {"prev_match", "tall"} \subseteq ExromFields \ {"rendering", "in_frame", "prev_addr"}
  BY DEF ExromFields
<1>4. \A f \in ExromFields \ {"rendering", "in_frame", "prev_addr"} : mapper'[f] = mapper[f]
  BY <1>0, <1>2, StaysAlike
<1>5. mapper'.prev_match = mapper.prev_match /\ mapper'.tall = mapper.tall
  BY <1>3, <1>4
<1>6. Interferes
  BY <1>0, <1>2, <1>5 DEF Interferes
<1>7. ASSUME SizeKnown PROVE SizeKnown'
  <2>1. CASE ppu.reset_signal
    BY <1>1, <1>5, <1>7, <2>1 DEF SizeKnown
  <2>2. CASE ~ppu.reset_signal
    <3>1. ppu'.tall = ppu.tall /\ ppu'.reset_signal = ppu.reset_signal
      BY <1>0, <1>1, <2>2 DEF PpuTyped
    <3> QED BY <1>5, <1>7, <2>2, <3>1 DEF SizeKnown
  <2> QED BY <2>1, <2>2
<1> QED BY <1>6, <1>7

LEMMA RowsAct ==
  ASSUME BoardTyped, mapper.kind = "Exrom", ScrollRows
  PROVE  Interferes /\ (SizeKnown => SizeKnown')
<1>1. /\ line' = line /\ step' = step /\ whole' = FALSE /\ calm' = 0 /\ mapper' = mapper /\ PpuTyped(ppu)
      /\ ppu' = [ppu EXCEPT !.attr_rows = ~ppu.attr_rows]
  BY DEF ScrollRows, picture, Disturbed, BoardTyped, PpuTyped
<1>2. ppu'.tall = ppu.tall /\ ppu'.reset_signal = ppu.reset_signal /\ ppu'.rendering = ppu.rendering
  BY <1>1 DEF PpuTyped
<1> QED BY <1>1, <1>2 DEF Interferes, SizeKnown

LEMMA TouchActs ==
  ASSUME BoardTyped, mapper.kind = "Exrom", TouchVram
  PROVE  Interferes /\ (SizeKnown => SizeKnown')
<1>0. /\ line' = line /\ step' = step /\ whole' = FALSE /\ calm' = 0 /\ MapperKept(mapper) /\ ppu' = ppu
      /\ ExromKept(mapper)
  BY DEF TouchVram, picture, Disturbed, BoardTyped, MapperKept
<1>1. PICK table \in 0..1, hi \in BOOLEAN : \E t \in Tiles(table) :
        mapper' = ReadPattern(mapper, [table |-> table, tile |-> t.tile, row |-> t.row, hi |-> hi])
  BY DEF TouchVram
<1>2. PICK t \in Tiles(table) :
        mapper' = ReadPattern(mapper, [table |-> table, tile |-> t.tile, row |-> t.row, hi |-> hi])
  BY <1>1
<1>3. PICK r : r = [table |-> table, tile |-> t.tile, row |-> t.row, hi |-> hi]
  OBVIOUS
<1>4. Fetch(r) /\ mapper' = ReadPattern(mapper, r)
  BY <1>2, <1>3, TilesAre DEF Fetch, TileOf
<1>5. Counting(mapper, mapper')
  BY <1>0, <1>4, PatternKept
<1>6. CountingSame(mapper, mapper')
  BY <1>0, <1>5, CountingLeaves
<1> QED BY <1>0, <1>6 DEF Interferes, SizeKnown, CountingSame

LEMMA ResetActs ==
  ASSUME BoardTyped, mapper.kind = "Exrom", Reset
  PROVE  Restarts /\ SizeKnown'
<1>1. line' = 0 /\ step' = 0 /\ calm' = 0 /\ whole' = FALSE
  BY DEF Reset, Disturbed
<1>2. PICK hard \in BOOLEAN : /\ mapper' = ResetBoard(mapper, hard)
                              /\ ppu' = [ResetPpu EXCEPT !.attr_rows = ppu.attr_rows /\ ~hard]
  BY DEF Reset
<1>3. mapper' = ResetMmc5(mapper) /\ ExromKept(mapper)
  BY <1>2 DEF ResetBoard, BoardTyped, MapperKept
<1>4. Alike(mapper, mapper', {"prg_mode", "chr_mode"})
  BY <1>3, ModesReset
<1>5. mapper'.prev_match = mapper.prev_match
  BY <1>3, <1>4, FrameAlike
<1>6. PICK rows \in BOOLEAN : rows = (ppu.attr_rows /\ ~hard)
  OBVIOUS
<1>7. ~ppu'.tall /\ ~ppu'.rendering
  BY <1>2, <1>6, PageReset
<1> QED BY <1>1, <1>5, <1>7 DEF Restarts, SizeKnown

LEMMA LineStep ==
  ASSUME BoardTyped, LineInv, BoardNext
  PROVE  LineInv'
<1> SUFFICES ASSUME mapper'.kind = "Exrom" PROVE LineInv'
  BY DEF LineInv
<1>0. /\ mapper.kind = "Exrom" /\ line \in 0..(Lines + 1)
      /\ mapper.prev_match \in {0, 3}
      /\ step = Dummy => mapper.prev_addr # Cell(2)
      /\ line = Prerender => ~mapper.in_frame
      /\ whole => ppu.rendering
      /\ whole /\ line < Lines /\ ~ppu.attr_rows => mapper.in_frame /\ mapper.scanline = line
  BY KindStays DEF LineInv, BoardTyped, Placed
<1>1. CASE LeavesFrame
  BY <1>0, <1>1 DEF LeavesFrame, LineInv, Prerender, Dummy, Prefetch
<1>2. CASE Interferes
  <2>1. step' = Dummy => mapper'.prev_addr # Cell(2)
    BY <1>0, <1>2, CellsApart DEF Interferes
  <2>2. line' = Prerender => ~mapper'.in_frame
    BY <1>0, <1>2 DEF Interferes
  <2> QED BY <1>0, <1>2, <2>1, <2>2 DEF Interferes, LineInv, Prerender, Dummy, Prefetch
<1>3. CASE Restarts
  <2>1. step' # Dummy /\ line' # Prerender
    BY <1>3, Sizes DEF Restarts
  <2> QED BY <1>0, <1>3, <2>1 DEF Restarts, LineInv, Prerender, Dummy, Prefetch
<1>4. CASE PpuStep
  BY <1>0, <1>4, LinePpu
<1>5. ~IdleCycle
  BY <1>0 DEF IdleCycle
<1> QED BY <1>0, <1>1, <1>2, <1>3, <1>4, <1>5, WriteActs, StatusActs, CtrlActs, MaskActs, RowsAct, TouchActs, ResetActs
        DEF BoardNext

LEMMA LineRests == LineInv /\ UNCHANGED board_vars => LineInv'
BY DEF LineInv, board_vars, picture, history, Prerender, Dummy, Prefetch

-----------------------------------------------------------------------------
(* MMC5: the banks of the tiles. *)

(* Undisturbed lines are lines of a picture. *)
CalmInv ==
  /\ calm # 0 => ppu.rendering
  /\ line = Vblank => step = 0

LEMMA CalmPpu ==
  ASSUME BoardTyped, PpuStep
  PROVE  /\ calm' # 0 => calm # 0 \/ (Fetching /\ step = Dummy)
         /\ calm' = 2 => calm = 2 \/ (calm = 1 /\ Fetching /\ step = Dummy)
         /\ calm' # 0 /\ ~(Fetching /\ step = Dummy) => calm' = calm
         /\ ppu'.rendering = ppu.rendering
         /\ calm # 0 /\ ppu.rendering /\ Fetching /\ step = Dummy => calm' = 2
<1>0. PICK c \in {0, 1, 2} : calm = c
  BY DEF BoardTyped
<1>1. CASE ~RenderLine \/ step # Dummy
  <2>1. calm' = calm
    BY <1>1 DEF PpuStep
  <2> QED BY <1>1, <2>1, PpuAdvances, PpuNext DEF Fetching, BoardTyped
<1>2. CASE RenderLine /\ step = Dummy /\ ~ppu.rendering
  <2>1. calm' = 0
    BY <1>2 DEF PpuStep
  <2> QED BY <1>2, <2>1, PpuAdvances, PpuNext DEF Fetching, BoardTyped
<1>3. CASE RenderLine /\ step = Dummy /\ ppu.rendering
  <2>1. calm' = IF calm = 2 THEN 2 ELSE calm + 1
    BY <1>3 DEF PpuStep
  <2>2. calm' # 0 /\ (calm' = 2 => calm = 2 \/ calm = 1) /\ (calm # 0 => calm' = 2)
    BY <1>0, <2>1
  <2> QED BY <1>3, <2>2, PpuAdvances, PpuNext DEF Fetching, BoardTyped
<1> QED BY <1>1, <1>2, <1>3

LEMMA CalmStep ==
  ASSUME BoardTyped, CalmInv, BoardNext
  PROVE  CalmInv'
<1>1. CASE PpuStep
  <2>1. ASSUME calm' # 0 PROVE ppu'.rendering
    BY <1>1, <2>1, CalmPpu DEF CalmInv, Fetching
  <2>2. line' = Vblank => step' = 0
    <3>1. CASE EndOfLine
      BY <1>1, <3>1, PpuAdvances DEF MovesOn
    <3>2. CASE ~EndOfLine
      BY <1>1, <3>2, PpuAdvances DEF MovesOn, EndOfLine, RenderLine
    <3> QED BY <3>1, <3>2
  <2> QED BY <2>1, <2>2 DEF CalmInv, Vblank
<1>2. CASE CpuWrite
  <2>1. ppu' = ppu /\ (calm' = 0 \/ calm' = calm) /\ line' = line /\ step' = step
    BY <1>2 DEF CpuWrite, picture
  <2> QED BY <2>1 DEF CalmInv, Vblank
<1>3. CASE IdleCycle \/ ReadStatus
  BY <1>3 DEF IdleCycle, ReadStatus, history, picture, CalmInv, Vblank
<1>4. CASE WriteCtrl \/ WriteMask \/ ScrollRows \/ TouchVram \/ Reset
  BY <1>4 DEF WriteCtrl, WriteMask, ScrollRows, TouchVram, Reset, Disturbed, picture, CalmInv, Vblank
<1> QED BY <1>1, <1>2, <1>3, <1>4 DEF BoardNext

LEMMA CalmRests == CalmInv /\ UNCHANGED board_vars => CalmInv'
BY DEF CalmInv, board_vars, history, picture, Vblank

LEMMA CalmStart ==
  ASSUME NEW cart, CartKept(cart), BoardInit(cart)
  PROVE  CalmInv
BY DEF CalmInv, BoardInit

(* The fetches of patterns that the MMC5 has counted in an undisturbed     *)
(* line, and the set of banks that it has chosen.                          *)
CountAt(s) == IF s <= Prefetch THEN 2 * s ELSE SprFetchEnd + 1
SetAt(s)   == IF Cols <= s /\ s <= Prefetch THEN "Spr" ELSE "Bg"

LEMMA TileCounts ==
  ASSUME NEW m, ExromKept(m), NEW cell, NEW attr, NEW m2, NEW m3, NEW new, TileSeen(m, cell, attr, m2, m3, new),
         NEW s \in 0..(Dummy - 1), m.fetch_count = CountAt(s)
  PROVE  /\ new.fetch_count = CountAt(s + 1)
         /\ s < Prefetch => m3.fetch_count = 2 * s + 1 /\ new.fetch_count = 2 * s + 2
         /\ s = Prefetch => m3.fetch_count = SprFetchEnd /\ new.fetch_count = SprFetchEnd + 1
         /\ s > Prefetch => m3.fetch_count = SprFetchEnd + 1 /\ new.fetch_count = SprFetchEnd + 1
<1>1. PICK c \in Nat : c = m.fetch_count
  BY DEF ExromKept
<1>2. m2.fetch_count = c
  BY <1>1 DEF TileSeen, Seen
<1>3. m3.fetch_count = IF c > SprFetchEnd THEN c ELSE c + 1
  BY <1>2 DEF TileSeen, Counting
<1>4. PICK d \in Nat : d = m3.fetch_count
  BY DEF TileSeen, ExromKept
<1>5. new.fetch_count = IF d > SprFetchEnd THEN d ELSE d + 1
  BY <1>4 DEF TileSeen, Counting
<1>6. SprFetchEnd = 2 * Prefetch + 1 /\ Prefetch \in Nat
  BY Sizes
<1>7. CASE s < Prefetch
  <2>1. c = 2 * s /\ c <= SprFetchEnd /\ c + 1 <= SprFetchEnd
    BY <1>1, <1>6, <1>7 DEF CountAt
  <2>2. d = 2 * s + 1 /\ new.fetch_count = 2 * s + 2
    BY <1>3, <1>4, <1>5, <2>1, <1>6
  <2> QED BY <1>4, <1>6, <1>7, <2>2 DEF CountAt
<1>8. CASE s = Prefetch
  <2>1. c = 2 * s /\ c + 1 = SprFetchEnd
    BY <1>1, <1>6, <1>8 DEF CountAt
  <2>2. d = SprFetchEnd /\ new.fetch_count = SprFetchEnd + 1
    BY <1>3, <1>4, <1>5, <2>1, <1>6
  <2> QED BY <1>4, <1>6, <1>8, <2>2 DEF CountAt
<1>9. CASE s > Prefetch
  <2>1. c = SprFetchEnd + 1
    BY <1>1, <1>6, <1>9 DEF CountAt
  <2>2. d = SprFetchEnd + 1 /\ new.fetch_count = SprFetchEnd + 1
    BY <1>3, <1>4, <1>5, <2>1, <1>6
  <2> QED BY <1>4, <1>6, <1>9, <2>2 DEF CountAt
<1> QED BY <1>6, <1>7, <1>8, <1>9

LEMMA TilePages ==
  ASSUME NEW m, ExromKept(m), NEW cell, NEW attr, NEW m2, NEW m3, NEW new, TileSeen(m, cell, attr, m2, m3, new)
  PROVE  /\ \A set : PagesFor(m2, set) = PagesFor(m, set) /\ PagesFor(m3, set) = PagesFor(m, set)
                     /\ PagesFor(new, set) = PagesFor(m, set)
         /\ m2.chr.page = m.chr.page /\ m2.tall = m.tall /\ m3.tall = m.tall /\ new.tall = m.tall
         /\ (ExAttr(m2) <=> ExAttr(m)) /\ (ExAttr(m3) <=> ExAttr(m)) /\ (ExAttr(new) <=> ExAttr(m))
<1>1. SamePatterns(m, m2) /\ m2.tall = m.tall /\ CountingSame(m2, m3) /\ CountingSame(m3, new)
  BY DEF TileSeen, Seen
<1>2. m2.chr = m.chr /\ m3.chr.pages = m.chr.pages /\ new.chr.pages = m.chr.pages
  BY <1>1 DEF SamePatterns, TileSeen, Counting
<1>3. ASSUME NEW set PROVE PagesFor(m2, set) = PagesFor(m, set)
  BY <1>1, <1>2, PagesAlike DEF SamePatterns
<1>4. /\ m3.chr_mode = m.chr_mode /\ m3.chr_hi = m.chr_hi /\ m3.spr_banks = m.spr_banks /\ m3.bg_banks = m.bg_banks
      /\ new.chr_mode = m.chr_mode /\ new.chr_hi = m.chr_hi /\ new.spr_banks = m.spr_banks /\ new.bg_banks = m.bg_banks
  BY <1>1 DEF SamePatterns, CountingSame
<1>5. ASSUME NEW set PROVE PagesFor(m3, set) = PagesFor(m, set)
  BY <1>2, <1>4, PagesAlike
<1>6. ASSUME NEW set PROVE PagesFor(new, set) = PagesFor(m, set)
  BY <1>2, <1>4, PagesAlike
<1>7. m3.tall = m.tall /\ new.tall = m.tall /\ m2.exram_mode = m.exram_mode /\ m3.exram_mode = m.exram_mode
      /\ new.exram_mode = m.exram_mode
  BY <1>1 DEF SamePatterns, CountingSame
<1> QED BY <1>1, <1>2, <1>3, <1>5, <1>6, <1>7 DEF ExAttr

LEMMA TileTurns ==
  ASSUME NEW m, ExromKept(m), m.tall, NEW cell, NEW attr, NEW m2, NEW m3, NEW new, TileSeen(m, cell, attr, m2, m3, new),
         NEW s \in 0..(Dummy - 1), m.fetch_count = CountAt(s)
  PROVE  /\ s # Cols - 1 /\ s # Prefetch => m3.chr.page = m.chr.page /\ new.chr.page = m.chr.page
         /\ s = Cols - 1 => new.chr.page = PagesFor(m, "Spr")
         /\ s = Prefetch => m3.chr.page = PagesFor(m, "Bg") /\ new.chr.page = PagesFor(m, "Bg")
<1>1. /\ s < Prefetch => m3.fetch_count = 2 * s + 1 /\ new.fetch_count = 2 * s + 2
      /\ s = Prefetch => m3.fetch_count = SprFetchEnd /\ new.fetch_count = SprFetchEnd + 1
      /\ s > Prefetch => m3.fetch_count = SprFetchEnd + 1 /\ new.fetch_count = SprFetchEnd + 1
  BY TileCounts
<1>2. /\ \A set : PagesFor(m2, set) = PagesFor(m, set) /\ PagesFor(m3, set) = PagesFor(m, set)
      /\ m2.chr.page = m.chr.page /\ m2.tall /\ m3.tall
  BY TilePages
<1>3. Counting(m2, m3) /\ Counting(m3, new)
  BY DEF TileSeen
<1>4. /\ m3.fetch_count = SprFetchEnd => m3.chr.page = PagesFor(m, "Bg")
      /\ m3.fetch_count \notin {SprFetchStart, SprFetchEnd} => m3.chr.page = m.chr.page
  BY <1>2, <1>3 DEF Counting
<1>5. /\ new.fetch_count = SprFetchStart => new.chr.page = PagesFor(m, "Spr")
      /\ new.fetch_count \notin {SprFetchStart, SprFetchEnd} => new.chr.page = m3.chr.page
  BY <1>2, <1>3 DEF Counting
<1>6. /\ Prefetch \in Nat /\ Cols \in Nat /\ Cols > 0 /\ Cols < Prefetch
      /\ SprFetchStart = 2 * Cols /\ SprFetchEnd = 2 * Prefetch + 1
  BY Sizes
<1>7. CASE s = Prefetch
  <2>1. m3.fetch_count = SprFetchEnd /\ new.fetch_count \notin {SprFetchStart, SprFetchEnd}
    BY <1>1, <1>6, <1>7
  <2> QED BY <1>4, <1>5, <1>6, <1>7, <2>1
<1>8. CASE s > Prefetch
  <2>1. m3.fetch_count \notin {SprFetchStart, SprFetchEnd} /\ new.fetch_count \notin {SprFetchStart, SprFetchEnd}
    BY <1>1, <1>6, <1>8
  <2> QED BY <1>4, <1>5, <1>6, <1>8, <2>1
<1>9. CASE s < Prefetch
  <2>1. m3.fetch_count = 2 * s + 1 /\ new.fetch_count = 2 * s + 2
    BY <1>1, <1>9
  <2>2. CASE s = Cols - 1
    <3>1. new.fetch_count = SprFetchStart
      BY <1>6, <2>1, <2>2
    <3> QED BY <1>5, <2>2, <3>1, <1>9
  <2>3. CASE s # Cols - 1
    <3>1. m3.fetch_count \notin {SprFetchStart, SprFetchEnd}
      BY <1>6, <1>9, <2>1
    <3>2. new.fetch_count \notin {SprFetchStart, SprFetchEnd}
      BY <1>6, <1>9, <2>1, <2>3
    <3> QED BY <1>4, <1>5, <1>9, <2>3, <3>1, <3>2
  <2> QED BY <2>2, <2>3
<1> QED BY <1>6, <1>7, <1>8, <1>9

Matches == drawn.shown => drawn.lo = drawn.want /\ drawn.hi = drawn.want

(* The MMC5 has counted the fetches of an undisturbed line, chosen the     *)
(* banks of the sprites or of the background, and drawn from them.         *)
ExTilesInv ==
  mapper.kind = "Exrom" =>
    /\ SizeKnown
    /\ ~ppu.attr_rows /\ calm # 0 => mapper.fetch_count = CountAt(step)
    /\ ~ppu.attr_rows /\ (calm = 2 \/ (calm = 1 /\ step >= Cols)) /\ mapper.tall =>
         mapper.chr.page = PagesFor(mapper, SetAt(step))
    /\ ~ppu.attr_rows /\ (calm = 2 \/ (calm = 1 /\ step > Prefetch)) => Matches

(* The bank that a tile of the MMC5 should come from. *)
LEMMA ExWanted ==
  ASSUME mapper.kind = "Exrom", ExromKept(mapper), NEW set \in {"Bg", "Spr"}, NEW cell, NEW r
  PROVE  /\ set = "Bg" /\ ExAttr(mapper) => Wanted(set, cell, r) = cell
         /\ ~(set = "Bg" /\ ExAttr(mapper)) /\ ppu.tall =>
              Wanted(set, cell, r) = <<"page", PagesFor(mapper, set)[4 * r.table]>>
         /\ ~(set = "Bg" /\ ExAttr(mapper)) /\ ~ppu.tall => Wanted(set, cell, r) = NoPage
<1>1. CASE set = "Bg" /\ ExAttr(mapper)
  BY <1>1 DEF Wanted
<1>2. CASE ~(set = "Bg" /\ ExAttr(mapper)) /\ ppu.tall
  <2>1. PICK n : n = UpdateChr(mapper, set)
    OBVIOUS
  <2>2. n.chr.page = PagesFor(mapper, set)
    BY <2>1, UpdatedChr
  <2>3. Wanted(set, cell, r) = <<"page", UpdateChr(mapper, set).chr.page[4 * r.table]>>
    BY <1>2 DEF Wanted
  <2> QED BY <1>2, <2>1, <2>2, <2>3
<1>3. CASE ~(set = "Bg" /\ ExAttr(mapper)) /\ ~ppu.tall
  BY <1>3 DEF Wanted
<1> QED BY <1>1, <1>2, <1>3

(* What is drawn, from where. *)
Drawn(set, cell, r, shown_, m3) ==
  /\ drawn'.shown => shown_ /\ Wanted(set, cell, r) # NoPage
  /\ drawn'.lo = PatternSource(m3, r.table) /\ drawn'.hi = PatternSource(mapper', r.table)
  /\ drawn'.want = Wanted(set, cell, r)

LEMMA ExDrawn ==
  ASSUME NEW set, NEW cell, NEW r, NEW shown_
  PROVE  ExTile(set, cell, r, shown_) =>
           \E m2, m3 : TileSeen(mapper, cell, ppu.attr_rows, m2, m3, mapper') /\ Drawn(set, cell, r, shown_, m3)
<1> SUFFICES ASSUME ExTile(set, cell, r, shown_)
             PROVE  \E m2, m3 : TileSeen(mapper, cell, ppu.attr_rows, m2, m3, mapper') /\ Drawn(set, cell, r, shown_, m3)
  OBVIOUS
<1>1. PICK m2, m3 :
        /\ TileSeen(mapper, cell, ppu.attr_rows, m2, m3, mapper')
        /\ drawn' = [shown |-> shown_ /\ Wanted(set, cell, r) # NoPage,
                     lo |-> PatternSource(m3, r.table), hi |-> PatternSource(mapper', r.table),
                     want |-> Wanted(set, cell, r)]
  BY DEF ExTile
<1>2. /\ drawn'.lo = PatternSource(m3, r.table) /\ drawn'.hi = PatternSource(mapper', r.table)
      /\ drawn'.want = Wanted(set, cell, r)
  BY <1>1
<1>3. drawn'.shown = (shown_ /\ Wanted(set, cell, r) # NoPage)
  BY <1>1
<1>4. Drawn(set, cell, r, shown_, m3)
  BY <1>2, <1>3 DEF Drawn
<1> QED BY <1>1, <1>4

(* The background in front of the sprites, or after them. *)
LEMMA BackgroundMatches ==
  ASSUME ExromKept(mapper), mapper.kind = "Exrom", SizeKnown, ~ppu.attr_rows,
         step \in 0..(Dummy - 1), mapper.fetch_count = CountAt(step),
         step < Cols - 1 \/ step >= Prefetch,
         step # Prefetch /\ mapper.tall => mapper.chr.page = PagesFor(mapper, "Bg"),
         NEW cell, NEW r, NEW shown_, shown_ => ~(ExAttr(mapper) /\ step = Prefetch),
         NEW m2, NEW m3, TileSeen(mapper, cell, ppu.attr_rows, m2, m3, mapper'), Drawn("Bg", cell, r, shown_, m3)
  PROVE  Matches'
<1> SUFFICES ASSUME drawn'.shown PROVE drawn'.lo = drawn'.want /\ drawn'.hi = drawn'.want
  BY DEF Matches
<1>1. /\ (ExAttr(m3) <=> ExAttr(mapper)) /\ (ExAttr(mapper') <=> ExAttr(mapper))
  BY TilePages
<1>2. drawn'.lo = PatternSource(m3, r.table) /\ drawn'.hi = PatternSource(mapper', r.table)
      /\ drawn'.want = Wanted("Bg", cell, r) /\ Wanted("Bg", cell, r) # NoPage /\ shown_
  BY DEF Drawn
<1>3. CASE ExAttr(mapper)
  <2>1. step # Prefetch
    BY <1>2, <1>3
  <2>2. /\ step < Prefetch => m3.fetch_count = 2 * step + 1 /\ mapper'.fetch_count = 2 * step + 2
        /\ step > Prefetch => m3.fetch_count = SprFetchEnd + 1 /\ mapper'.fetch_count = SprFetchEnd + 1
    BY TileCounts
  <2>3. /\ Prefetch \in Nat /\ Cols \in Nat /\ Cols > 0 /\ Cols < Prefetch
        /\ SprFetchStart = 2 * Cols /\ SprFetchEnd = 2 * Prefetch + 1
    BY Sizes
  <2>4. ~SprFetch(mapper) /\ ~SprFetch(m3) /\ ~SprFetch(mapper')
    <3>1. CASE step < Prefetch
      <4>1. step < Cols - 1 /\ mapper.fetch_count = 2 * step
        <5>1. step < Cols - 1
          BY <2>3, <3>1
        <5>2. step <= Prefetch
          BY <2>3, <3>1
        <5> QED BY <5>1, <5>2 DEF CountAt
      <4> QED BY <2>2, <2>3, <3>1, <4>1 DEF SprFetch
    <3>2. CASE step > Prefetch
      <4>1. mapper.fetch_count = SprFetchEnd + 1
        BY <2>3, <3>2 DEF CountAt
      <4> QED BY <2>2, <2>3, <3>2, <4>1 DEF SprFetch
    <3> QED BY <2>1, <2>3, <3>1, <3>2
  <2>5. m2.tile_cache = cell
    BY <1>3, <2>4 DEF TileSeen, Seen
  <2>6. m3.tile_cache = cell /\ mapper'.tile_cache = cell
    BY <2>5 DEF TileSeen, CountingSame
  <2>7. Wanted("Bg", cell, r) = cell
    BY <1>3, ExWanted
  <2> QED BY <1>1, <1>2, <1>3, <2>4, <2>6, <2>7 DEF PatternSource
<1>4. CASE ~ExAttr(mapper)
  <2>1. ppu.tall
    BY <1>2, <1>4, ExWanted
  <2>2. mapper.tall
    BY <2>1 DEF SizeKnown
  <2>3. Wanted("Bg", cell, r) = <<"page", PagesFor(mapper, "Bg")[4 * r.table]>>
    BY <1>4, <2>1, ExWanted
  <2>4. /\ step # Cols - 1 /\ step # Prefetch => m3.chr.page = mapper.chr.page /\ mapper'.chr.page = mapper.chr.page
        /\ step = Prefetch => m3.chr.page = PagesFor(mapper, "Bg") /\ mapper'.chr.page = PagesFor(mapper, "Bg")
    BY <2>2, TileTurns
  <2>5. step # Cols - 1
    BY Sizes
  <2>6. m3.chr.page = PagesFor(mapper, "Bg") /\ mapper'.chr.page = PagesFor(mapper, "Bg")
    BY <2>2, <2>4, <2>5
  <2> QED BY <1>1, <1>2, <1>4, <2>3, <2>6 DEF PatternSource
<1> QED BY <1>3, <1>4

LEMMA SpritesMatch ==
  ASSUME ExromKept(mapper), mapper.kind = "Exrom", SizeKnown, ~ppu.attr_rows,
         step \in 0..(Dummy - 1), mapper.fetch_count = CountAt(step),
         step >= Cols, step < Prefetch, mapper.tall => mapper.chr.page = PagesFor(mapper, "Spr"),
         NEW cell, NEW r, NEW shown_,
         NEW m2, NEW m3, TileSeen(mapper, cell, ppu.attr_rows, m2, m3, mapper'), Drawn("Spr", cell, r, shown_, m3)
  PROVE  Matches'
<1> SUFFICES ASSUME drawn'.shown PROVE drawn'.lo = drawn'.want /\ drawn'.hi = drawn'.want
  BY DEF Matches
<1>2. drawn'.lo = PatternSource(m3, r.table) /\ drawn'.hi = PatternSource(mapper', r.table)
      /\ drawn'.want = Wanted("Spr", cell, r) /\ Wanted("Spr", cell, r) # NoPage
  BY DEF Drawn
<1>3. ppu.tall /\ mapper.tall
  BY <1>2, ExWanted DEF SizeKnown
<1>4. Wanted("Spr", cell, r) = <<"page", PagesFor(mapper, "Spr")[4 * r.table]>>
  BY <1>3, ExWanted
<1>5. m3.fetch_count = 2 * step + 1 /\ mapper'.fetch_count = 2 * step + 2
  BY TileCounts
<1>6. SprFetch(m3) /\ SprFetch(mapper')
  BY <1>5, Sizes DEF SprFetch
<1>7. step # Cols - 1 /\ step # Prefetch
  BY Sizes
<1>8. m3.chr.page = PagesFor(mapper, "Spr") /\ mapper'.chr.page = PagesFor(mapper, "Spr")
  BY <1>3, <1>7, TileTurns
<1> QED BY <1>2, <1>4, <1>6, <1>8 DEF PatternSource

LEMMA SamePages ==
  ASSUME NEW m, NEW n, SamePatterns(m, n)
  PROVE  n.chr.page = m.chr.page /\ \A set : PagesFor(n, set) = PagesFor(m, set)
<1>1. ASSUME NEW set PROVE PagesFor(n, set) = PagesFor(m, set)
  BY PagesAlike DEF SamePatterns
<1> QED BY <1>1 DEF SamePatterns

LEMMA FrameLeftSame ==
  ASSUME ExromKept(mapper), mapper' = LeaveFrame(mapper)
  PROVE  SamePatterns(mapper, mapper') /\ mapper'.tall = mapper.tall /\ mapper'.fetch_count = mapper.fetch_count
<1>1. Alike(mapper, mapper', {"in_frame", "prev_addr"})
  BY FrameLeft
<1>2. \A f \in ExromFields \ {"in_frame", "prev_addr"} : mapper'[f] = mapper[f]
  BY <1>1, StaysAlike
<1>3. {"chr", "chr_mode", "chr_hi", "spr_banks", "bg_banks", "exram_mode", "tall", "fetch_count"}
        \subseteq ExromFields \ {"in_frame", "prev_addr"}
  BY DEF ExromFields
<1> QED BY <1>2, <1>3 DEF SamePatterns

(* A tile of an undisturbed line. *)
LEMMA ExTileStep ==
  ASSUME BoardTyped, ExTilesInv, mapper.kind = "Exrom", ~ppu.attr_rows, calm # 0,
         step \in 0..(Dummy - 1), ExFetches
  PROVE  /\ mapper'.fetch_count = CountAt(step + 1)
         /\ (calm = 2 \/ (calm = 1 /\ step + 1 >= Cols)) /\ mapper'.tall =>
              mapper'.chr.page = PagesFor(mapper', SetAt(step + 1))
         /\ calm = 2 \/ (calm = 1 /\ step + 1 > Prefetch) => Matches'
<1>0. /\ ExromKept(mapper) /\ SizeKnown /\ mapper.fetch_count = CountAt(step)
      /\ calm \in {0, 1, 2}
      /\ (calm = 2 \/ (calm = 1 /\ step >= Cols)) /\ mapper.tall => mapper.chr.page = PagesFor(mapper, SetAt(step))
  BY DEF BoardTyped, MapperKept, ExTilesInv
<1>1. /\ Prefetch \in Nat /\ Cols \in Nat /\ Cols > 0 /\ Cols < Prefetch /\ FirstSprite = Cols
  BY Sizes
<1>2. PICK cell, m2, m3 : TileSeen(mapper, cell, ppu.attr_rows, m2, m3, mapper')
  BY DEF ExFetches, ExBackground, ExSprite, ExPrefetch, ExTile
<1>3. mapper'.fetch_count = CountAt(step + 1)
  BY <1>0, <1>2, TileCounts
<1>4. ASSUME calm = 2 \/ (calm = 1 /\ step + 1 >= Cols), mapper'.tall
      PROVE  mapper'.chr.page = PagesFor(mapper', SetAt(step + 1))
  <2>1. mapper.tall /\ \A set : PagesFor(mapper', set) = PagesFor(mapper, set)
    BY <1>0, <1>2, <1>4, TilePages
  <2>2. /\ step # Cols - 1 /\ step # Prefetch => mapper'.chr.page = mapper.chr.page
        /\ step = Cols - 1 => mapper'.chr.page = PagesFor(mapper, "Spr")
        /\ step = Prefetch => mapper'.chr.page = PagesFor(mapper, "Bg")
    BY <1>0, <1>2, <2>1, TileTurns
  <2>3. CASE step = Cols - 1
    <3>1. SetAt(step + 1) = "Spr"
      BY <1>1, <2>3 DEF SetAt
    <3> QED BY <2>1, <2>2, <2>3, <3>1
  <2>4. CASE step = Prefetch
    <3>1. SetAt(step + 1) = "Bg"
      BY <1>1, <2>4 DEF SetAt
    <3> QED BY <2>1, <2>2, <2>4, <3>1
  <2>5. CASE step # Cols - 1 /\ step # Prefetch
    <3>1. SetAt(step + 1) = SetAt(step)
      BY <1>1, <2>5 DEF SetAt
    <3>2. calm = 2 \/ (calm = 1 /\ step >= Cols)
      BY <1>1, <1>4, <2>5
    <3> QED BY <1>0, <2>1, <2>2, <2>5, <3>1, <3>2
  <2> QED BY <2>3, <2>4, <2>5
<1>5. ASSUME calm = 2 \/ (calm = 1 /\ step + 1 > Prefetch)
      PROVE  Matches'
  <2>1. CASE step < FirstSprite
    <3>1. calm = 2
      BY <1>1, <1>5, <2>1
    <3>2. ExBackground
      BY <1>1, <2>1 DEF ExFetches
    <3>3. PICK r : ExTile("Bg", Cell(step + 2), r, step < Cols - 1)
      BY <3>2 DEF ExBackground
    <3>4. PICK n2, n3 : /\ TileSeen(mapper, Cell(step + 2), ppu.attr_rows, n2, n3, mapper')
                        /\ Drawn("Bg", Cell(step + 2), r, step < Cols - 1, n3)
      BY <3>3, ExDrawn
    <3>5. CASE step < Cols - 1
      <4>1. step # Prefetch /\ SetAt(step) = "Bg"
        BY <1>1, <3>5 DEF SetAt
      <4>2. mapper.tall => mapper.chr.page = PagesFor(mapper, "Bg")
        BY <1>0, <3>1, <4>1
      <4> QED BY <1>0, <3>4, <3>5, <4>1, <4>2, BackgroundMatches
    <3>6. CASE ~(step < Cols - 1)
      <4>1. ~drawn'.shown
        BY <3>4, <3>6 DEF Drawn
      <4> QED BY <4>1 DEF Matches
    <3> QED BY <3>5, <3>6
  <2>2. CASE step >= FirstSprite /\ step < Prefetch
    <3>1. calm = 2
      BY <1>1, <1>5, <2>2
    <3>2. ExSprite
      BY <1>1, <2>2 DEF ExFetches
    <3>3. PICK r : ExTile("Spr", Cell(0), r, TRUE)
      BY <3>2 DEF ExSprite
    <3>4. PICK n2, n3 : /\ TileSeen(mapper, Cell(0), ppu.attr_rows, n2, n3, mapper')
                        /\ Drawn("Spr", Cell(0), r, TRUE, n3)
      BY <3>3, ExDrawn
    <3>5. SetAt(step) = "Spr" /\ step >= Cols
      BY <1>1, <2>2 DEF SetAt
    <3>6. mapper.tall => mapper.chr.page = PagesFor(mapper, "Spr")
      BY <1>0, <3>1, <3>5
    <3> QED BY <1>0, <2>2, <3>4, <3>5, <3>6, SpritesMatch
  <2>3. CASE step >= Prefetch
    <3>2. ExPrefetch
      BY <1>1, <2>3 DEF ExFetches
    <3>3. PICK r : ExTile("Bg", Cell(step - Prefetch), r, ~(ExAttr(mapper) /\ step = Prefetch))
      BY <3>2 DEF ExPrefetch
    <3>4. PICK n2, n3 : /\ TileSeen(mapper, Cell(step - Prefetch), ppu.attr_rows, n2, n3, mapper')
                        /\ Drawn("Bg", Cell(step - Prefetch), r, ~(ExAttr(mapper) /\ step = Prefetch), n3)
      BY <3>3, ExDrawn
    <3>5. step # Prefetch /\ mapper.tall => mapper.chr.page = PagesFor(mapper, "Bg")
      <4>1. step # Prefetch => SetAt(step) = "Bg"
        BY <1>1, <2>3 DEF SetAt
      <4>2. calm = 2 \/ (calm = 1 /\ step >= Cols)
        BY <1>1, <1>5, <2>3
      <4> QED BY <1>0, <4>1, <4>2
    <3> QED BY <1>0, <2>3, <3>4, <3>5, BackgroundMatches
  <2> QED BY <1>1, <2>1, <2>2, <2>3
<1> QED BY <1>3, <1>4, <1>5

LEMMA ExTilesPpu ==
  ASSUME BoardTyped, LineInv, CalmInv, ExTilesInv, PpuStep, mapper.kind = "Exrom"
  PROVE  ExTilesInv'
<1>0. /\ ExromKept(mapper) /\ PpuTyped(ppu) /\ line \in 0..(Lines + 1) /\ step \in 0..Dummy /\ calm \in {0, 1, 2}
      /\ mapper.prev_match \in {0, 3}
      /\ step = Dummy => mapper.prev_addr # Cell(2)
      /\ SizeKnown
      /\ ~ppu.attr_rows /\ calm # 0 => mapper.fetch_count = CountAt(step)
      /\ ~ppu.attr_rows /\ (calm = 2 \/ (calm = 1 /\ step >= Cols)) /\ mapper.tall =>
           mapper.chr.page = PagesFor(mapper, SetAt(step))
      /\ ~ppu.attr_rows /\ (calm = 2 \/ (calm = 1 /\ step > Prefetch)) => Matches
  BY DEF BoardTyped, MapperKept, Placed, LineInv, ExTilesInv
<1>1. MovesOn
  BY PpuAdvances
<1>2. /\ ppu'.rendering = ppu.rendering /\ ppu'.attr_rows = ppu.attr_rows /\ ppu'.tall = ppu.tall
      /\ ppu'.reset_signal => ppu.reset_signal
  BY <1>0, <1>1, PpuNext
<1>3. /\ Fetching /\ step # Dummy => ExFetches
      /\ Fetching /\ step = Dummy => ExEnds
      /\ ~Fetching => mapper' = LeaveFrame(mapper) /\ drawn' = Nothing
  BY <1>0, ExPpu
<1>4. /\ calm' = 2 => calm = 2 \/ (calm = 1 /\ Fetching /\ step = Dummy)
      /\ calm' # 0 /\ ~(Fetching /\ step = Dummy) => calm' = calm
      /\ calm' # 0 => calm # 0 \/ (Fetching /\ step = Dummy)
      /\ calm # 0 /\ ppu.rendering /\ Fetching /\ step = Dummy => calm' = 2
  BY CalmPpu
<1>5. /\ EndOfLine => step' = 0
      /\ ~EndOfLine => step' = step + 1
  BY <1>1 DEF MovesOn
<1>6. mapper'.tall = mapper.tall => SizeKnown'
  BY <1>0, <1>2 DEF SizeKnown
<1>7. CASE Fetching /\ step # Dummy
  <2>1. PICK cell, m2, m3 : TileSeen(mapper, cell, ppu.attr_rows, m2, m3, mapper')
    BY <1>3, <1>7 DEF ExFetches, ExBackground, ExSprite, ExPrefetch, ExTile
  <2>2. SizeKnown'
    BY <1>0, <1>6, <2>1, TilePages
  <2>3. step' = step + 1 /\ step \in 0..(Dummy - 1)
    BY <1>0, <1>5, <1>7, Sizes DEF EndOfLine, Fetching
  <2>4. CASE ~ppu'.attr_rows /\ calm' # 0
    <3>1. calm' = calm /\ calm # 0 /\ ~ppu.attr_rows
      BY <1>2, <1>4, <1>7, <2>4
    <3>2. /\ mapper'.fetch_count = CountAt(step + 1)
          /\ (calm = 2 \/ (calm = 1 /\ step + 1 >= Cols)) /\ mapper'.tall =>
               mapper'.chr.page = PagesFor(mapper', SetAt(step + 1))
          /\ calm = 2 \/ (calm = 1 /\ step + 1 > Prefetch) => Matches'
      BY <1>3, <1>7, <2>3, <3>1, ExTileStep
    <3> QED BY <2>2, <2>3, <3>1, <3>2 DEF ExTilesInv, CountAt, SetAt, Prefetch
  <2>5. CASE ppu'.attr_rows \/ calm' = 0
    BY <2>2, <2>5 DEF ExTilesInv
  <2> QED BY <2>4, <2>5
<1>8. CASE Fetching /\ step = Dummy
  <2>1. /\ SamePatterns(mapper, mapper') /\ mapper'.tall = mapper.tall /\ drawn' = drawn
        /\ ~ppu.attr_rows => LineSeen(mapper, mapper')
    BY <1>3, <1>8 DEF ExEnds
  <2>2. step' = 0
    BY <1>5, <1>8 DEF EndOfLine
  <2>3. SizeKnown'
    BY <1>6, <2>1
  <2>4. ~ppu'.attr_rows => mapper'.fetch_count = CountAt(0)
    BY <1>2, <2>1, Sizes DEF LineSeen, CountAt
  <2>5. ASSUME ~ppu'.attr_rows, calm' = 2
        PROVE  Matches' /\ (mapper'.tall => mapper'.chr.page = PagesFor(mapper', SetAt(0)))
    <3>1. ~ppu.attr_rows /\ (calm = 2 \/ (calm = 1 /\ step >= Cols)) /\ (calm = 2 \/ (calm = 1 /\ step > Prefetch))
      BY <1>2, <1>4, <1>8, <2>5, Sizes
    <3>2. SetAt(step) = "Bg" /\ SetAt(0) = "Bg"
      BY <1>8, Sizes DEF SetAt
    <3>3. Matches'
      BY <1>0, <2>1, <3>1 DEF Matches
    <3>4. ASSUME mapper'.tall PROVE mapper'.chr.page = PagesFor(mapper', SetAt(0))
      <4>1. mapper.chr.page = PagesFor(mapper, "Bg")
        BY <1>0, <2>1, <3>1, <3>2, <3>4
      <4>2. mapper'.chr.page = mapper.chr.page /\ PagesFor(mapper', "Bg") = PagesFor(mapper, "Bg")
        BY <2>1, SamePages
      <4> QED BY <3>2, <4>1, <4>2
    <3> QED BY <3>3, <3>4
  <2>6. ~(step' >= Cols) /\ ~(step' > Prefetch)
    BY <2>2, Sizes
  <2> QED BY <2>2, <2>3, <2>4, <2>5, <2>6 DEF ExTilesInv, CountAt, SetAt, Prefetch
<1>9. CASE ~Fetching
  <2>1. mapper' = LeaveFrame(mapper) /\ drawn' = Nothing
    BY <1>3, <1>9
  <2>2. SamePatterns(mapper, mapper') /\ mapper'.tall = mapper.tall /\ mapper'.fetch_count = mapper.fetch_count
    BY <1>0, <2>1, FrameLeftSame
  <2>3. SizeKnown'
    BY <1>6, <2>2
  <2>4. Matches'
    BY <2>1 DEF Matches, Nothing
  <2>5. CASE ~ppu'.attr_rows /\ calm' # 0
    <3>1. calm' = calm /\ calm # 0 /\ ~ppu.attr_rows
      BY <1>2, <1>4, <1>9, <2>5
    <3>2. line = Vblank /\ step = 0
      BY <1>9, <3>1 DEF CalmInv, Fetching, RenderLine
    <3>3. step' = 0
      BY <1>5, <3>2 DEF EndOfLine, RenderLine
    <3>4. mapper'.fetch_count = CountAt(0)
      BY <1>0, <2>2, <3>1, <3>2
    <3>5. calm = 2 /\ mapper'.tall => mapper'.chr.page = PagesFor(mapper', SetAt(0))
      <4>1. mapper'.chr.page = mapper.chr.page /\ PagesFor(mapper', SetAt(0)) = PagesFor(mapper, SetAt(0))
        BY <2>2, SamePages
      <4> QED BY <1>0, <2>2, <3>1, <3>2, <4>1
    <3>6. ~(step' >= Cols)
      BY <3>3, Sizes
    <3> QED BY <2>3, <2>4, <3>1, <3>3, <3>4, <3>5, <3>6 DEF ExTilesInv, CountAt, SetAt, Prefetch
  <2>6. CASE ppu'.attr_rows \/ calm' = 0
    BY <2>3, <2>6 DEF ExTilesInv
  <2> QED BY <2>5, <2>6
<1> QED BY <1>7, <1>8, <1>9

LEMMA ExTilesStep ==
  ASSUME BoardTyped, LineInv, CalmInv, ExTilesInv, BoardNext
  PROVE  ExTilesInv'
<1> SUFFICES ASSUME mapper'.kind = "Exrom" PROVE ExTilesInv'
  BY DEF ExTilesInv
<1>0. /\ mapper.kind = "Exrom" /\ ExromKept(mapper)
      /\ SizeKnown
      /\ ~ppu.attr_rows /\ calm # 0 => mapper.fetch_count = CountAt(step)
      /\ ~ppu.attr_rows /\ (calm = 2 \/ (calm = 1 /\ step >= Cols)) /\ mapper.tall =>
           mapper.chr.page = PagesFor(mapper, SetAt(step))
      /\ ~ppu.attr_rows /\ (calm = 2 \/ (calm = 1 /\ step > Prefetch)) => Matches
  BY KindStays DEF BoardTyped, MapperKept, ExTilesInv
<1>1. CASE LeavesFrame
  <2>1. /\ ppu' = ppu /\ step' = step /\ drawn' = drawn /\ mapper'.fetch_count = mapper.fetch_count
        /\ mapper'.tall = mapper.tall /\ (calm' = 0 \/ (calm' = calm /\ SamePatterns(mapper, mapper')))
    BY <1>1 DEF LeavesFrame
  <2>2. SizeKnown'
    BY <1>0, <2>1 DEF SizeKnown
  <2>3. CASE calm' = 0
    BY <2>2, <2>3 DEF ExTilesInv
  <2>4. CASE calm' = calm /\ SamePatterns(mapper, mapper')
    <3>1. mapper'.chr.page = mapper.chr.page /\ PagesFor(mapper', SetAt(step)) = PagesFor(mapper, SetAt(step))
      BY <2>4, SamePages
    <3>2. Matches => Matches'
      BY <2>1 DEF Matches
    <3> QED BY <1>0, <2>1, <2>2, <2>4, <3>1, <3>2 DEF ExTilesInv, CountAt, SetAt, Prefetch
  <2> QED BY <2>1, <2>3, <2>4
<1>2. CASE Interferes /\ SizeKnown'
  BY <1>2 DEF Interferes, ExTilesInv
<1>3. CASE Restarts /\ SizeKnown'
  BY <1>3 DEF Restarts, ExTilesInv
<1>4. CASE PpuStep
  BY <1>0, <1>4, ExTilesPpu
<1>5. ~IdleCycle
  BY <1>0 DEF IdleCycle
<1> QED BY <1>0, <1>1, <1>2, <1>3, <1>4, <1>5, WriteActs, StatusActs, CtrlActs, MaskActs, RowsAct, TouchActs, ResetActs
        DEF BoardNext

LEMMA ExTilesRests == ExTilesInv /\ UNCHANGED board_vars => ExTilesInv'
BY DEF ExTilesInv, SizeKnown, Matches, board_vars, picture, history, CountAt, SetAt, Prefetch

LEMMA ExTilesStart ==
  ASSUME NEW cart, CartKept(cart), BoardInit(cart)
  PROVE  ExTilesInv
BY DEF ExTilesInv, BoardInit, SizeKnown, ResetPpu

-----------------------------------------------------------------------------
(* MMC2: the banks of the tiles. *)

(* The latches of the MMC2 are set by the special tiles seen last.         *)
SeenSets(m, s) ==
  /\ DOMAIN s = Two
  /\ s[0] = \hFD + m.latch[0] /\ s[1] = \hFD + m.latch[1]

LatchInv == mapper.kind = "Pxrom" => Matches /\ SeenSets(mapper, seen)

(* A fetch of the second byte, and what is seen of it. *)
LEMMA SeenLatches ==
  ASSUME NEW m, PxromKept(m), NEW r, Fetch(r), NEW s, SeenSets(m, s), NEW new, new = FetchMmc2(m, r), NEW t,
         t = IF r.hi /\ r.tile # 0 /\ (r.table = 1 \/ r.row = 0) THEN [s EXCEPT ![r.table] = r.tile] ELSE s
  PROVE  SeenSets(new, t)
<1>1. /\ SetsLatch(r) => new.latch = [m.latch EXCEPT ![r.table] = r.tile - \hFD] /\ r.tile - \hFD \in {0, 1}
      /\ ~SetsLatch(r) => new = m
  BY FetchedMmc2
<1>2. CASE SetsLatch(r)
  <2>1. t = [s EXCEPT ![r.table] = r.tile] /\ r.tile \in {\hFD, \hFE} /\ r.table \in Two
    BY <1>2 DEF SetsLatch, Fetch, Two
  <2>2. DOMAIN m.latch = Two /\ m.latch[0] \in {0, 1} /\ m.latch[1] \in {0, 1}
    BY DEF PxromKept, PxromBase
  <2>3. CASE r.table = 0
    <3>1. t[0] = r.tile /\ t[1] = s[1] /\ new.latch[0] = r.tile - \hFD /\ new.latch[1] = m.latch[1]
      BY <1>1, <1>2, <2>1, <2>2, <2>3 DEF SeenSets, Two
    <3> QED BY <2>1, <2>2, <3>1 DEF SeenSets
  <2>4. CASE r.table = 1
    <3>1. t[1] = r.tile /\ t[0] = s[0] /\ new.latch[1] = r.tile - \hFD /\ new.latch[0] = m.latch[0]
      BY <1>1, <1>2, <2>1, <2>2, <2>4 DEF SeenSets, Two
    <3> QED BY <2>1, <2>2, <3>1 DEF SeenSets
  <2> QED BY <2>1, <2>3, <2>4 DEF Two
<1>3. CASE ~SetsLatch(r)
  <2>1. t = s
    BY <1>3 DEF SetsLatch, Fetch
  <2> QED BY <1>1, <1>3, <2>1
<1> QED BY <1>2, <1>3

LEMMA PageOfLatch ==
  ASSUME NEW m, PxromKept(m), NEW s, SeenSets(m, s), NEW table \in {0, 1}
  PROVE  m.chr.page[table] = m.latch_banks[2 * table + (s[table] - \hFD)] % m.chr.pages
<1>1. /\ m.chr.page[0] = m.latch_banks[m.latch[0]] % m.chr.pages
      /\ m.chr.page[1] = m.latch_banks[m.latch[1] + 2] % m.chr.pages
      /\ m.latch[0] \in {0, 1} /\ m.latch[1] \in {0, 1}
  BY DEF PxromKept, PxromBase
<1>2. CASE table = 0
  <2>1. 2 * table + (s[table] - \hFD) = m.latch[0]
    BY <1>1, <1>2 DEF SeenSets
  <2> QED BY <1>1, <1>2, <2>1
<1>3. CASE table = 1
  <2>1. 2 * table + (s[table] - \hFD) = m.latch[1] + 2
    BY <1>1, <1>3 DEF SeenSets
  <2> QED BY <1>1, <1>3, <2>1
<1> QED BY <1>2, <1>3

LEMMA LatchTile ==
  ASSUME MapperKept(mapper), mapper.kind = "Pxrom", SeenSets(mapper, seen), ppu.attr_rows \in BOOLEAN,
         NEW set, NEW cell, NEW table \in {0, 1}, NEW r, TileOf(r, table), NEW shown_, FetchTile(set, cell, r, shown_)
  PROVE  Matches' /\ SeenSets(mapper', seen')
<1>0. PxromKept(mapper)
  BY DEF MapperKept
<1>1. PICK lo, hi, m1, m2, m3 :
        /\ lo = [table |-> r.table, tile |-> r.tile, row |-> r.row, hi |-> FALSE]
        /\ hi = [table |-> r.table, tile |-> r.tile, row |-> r.row, hi |-> TRUE]
        /\ TileRead(mapper, cell, ppu.attr_rows, lo, hi, m1, m2, m3, mapper')
        /\ drawn' = [shown |-> shown_ /\ Wanted(set, cell, r) # NoPage,
                     lo |-> Source(m2, lo), hi |-> Source(m3, hi), want |-> Wanted(set, cell, r)]
        /\ seen' = IF mapper.kind = "Pxrom" /\ r.tile # 0 /\ (r.table = 1 \/ r.row = 0)
                   THEN [seen EXCEPT ![r.table] = r.tile] ELSE seen
  BY TileFetches DEF FetchesTile
<1>2. m1 = mapper /\ m2 = mapper
  BY <1>1 DEF TileRead, ReadScreen
<1>3. m3 = FetchMmc2(mapper, lo)
  BY <1>1, <1>2 DEF TileRead, ReadPattern
<1>4. m3 = mapper
  BY <1>1, <1>3 DEF FetchMmc2, SetsLatch
<1>5. mapper' = FetchMmc2(mapper, hi)
  BY <1>1, <1>4 DEF TileRead, ReadPattern
<1>6. drawn'.lo = <<"page", mapper.chr.page[r.table]>> /\ drawn'.hi = <<"page", mapper.chr.page[r.table]>>
  BY <1>1, <1>2, <1>4 DEF Source
<1>7. drawn'.want = <<"page", mapper.latch_banks[2 * r.table + (seen[r.table] - \hFD)] % mapper.chr.pages>>
  BY <1>1 DEF Wanted
<1>8. r.table \in {0, 1}
  BY DEF TileOf
<1>9. mapper.chr.page[r.table] = mapper.latch_banks[2 * r.table + (seen[r.table] - \hFD)] % mapper.chr.pages
  BY <1>0, <1>8, PageOfLatch
<1>10. Matches'
  BY <1>6, <1>7, <1>9 DEF Matches
<1>11. /\ Fetch(hi) /\ hi.hi = TRUE /\ hi.tile = r.tile /\ hi.table = r.table /\ hi.row = r.row
  BY <1>1 DEF Fetch, TileOf
<1>12. seen' = IF hi.hi /\ hi.tile # 0 /\ (hi.table = 1 \/ hi.row = 0) THEN [seen EXCEPT ![hi.table] = hi.tile] ELSE seen
  BY <1>1, <1>11
<1>13. SeenSets(mapper', seen')
  BY <1>0, <1>5, <1>11, <1>12, SeenLatches
<1> QED BY <1>10, <1>13

LEMMA LatchPpu ==
  ASSUME BoardTyped, LatchInv, PpuStep, mapper.kind = "Pxrom"
  PROVE  LatchInv'
<1>0. /\ MapperKept(mapper) /\ ppu.attr_rows \in BOOLEAN /\ ppu.bg \in {0, 1} /\ ppu.spr \in {0, 1}
      /\ Matches /\ SeenSets(mapper, seen)
  BY DEF BoardTyped, PpuTyped, LatchInv
<1>1. CASE Fetching /\ Background
  <2>1. PICK r \in Tiles(ppu.bg) : FetchTile("Bg", Cell(step + 2), r, step < Cols - 1)
    BY <1>1 DEF Background
  <2>2. TileOf(r, ppu.bg)
    BY TilesAre
  <2>3. Matches' /\ SeenSets(mapper', seen')
    BY <1>0, <2>1, <2>2, LatchTile
  <2> QED BY <2>3 DEF LatchInv
<1>2. CASE Fetching /\ Sprites
  <2>1. PICK table \in SpriteTables : \E r \in Tiles(table) : FetchTile("Spr", Cell(0), r, TRUE)
    BY <1>2 DEF Sprites
  <2>2. PICK r \in Tiles(table) : FetchTile("Spr", Cell(0), r, TRUE)
    BY <2>1
  <2>3. table \in {0, 1}
    BY <1>0 DEF SpriteTables
  <2>4. TileOf(r, table)
    BY TilesAre
  <2>5. Matches' /\ SeenSets(mapper', seen')
    BY <1>0, <2>2, <2>3, <2>4, LatchTile
  <2> QED BY <2>5 DEF LatchInv
<1>3. CASE Fetching /\ PrefetchTile
  <2>1. PICK r \in Tiles(ppu.bg) :
          FetchTile("Bg", Cell(step - Prefetch), r, ~(mapper.kind = "Exrom" /\ ExAttr(mapper) /\ step = Prefetch))
    BY <1>3 DEF PrefetchTile
  <2>2. TileOf(r, ppu.bg)
    BY TilesAre
  <2>3. Matches' /\ SeenSets(mapper', seen')
    BY <1>0, <2>1, <2>2, LatchTile
  <2> QED BY <2>3 DEF LatchInv
<1>4. CASE Fetching /\ DummyFetches
  <2>1. drawn' = drawn /\ seen' = seen
    BY <1>4, DummyReads
  <2>2. mapper' = mapper
    BY <1>4 DEF DummyFetches, ReadScreen
  <2> QED BY <1>0, <2>1, <2>2 DEF LatchInv, Matches
<1>5. CASE ~Fetching /\ NoFetches
  <2>1. mapper' = mapper /\ drawn' = Nothing /\ seen' = seen
    BY <1>5 DEF NoFetches
  <2> QED BY <1>0, <2>1 DEF LatchInv, Matches, Nothing
<1> QED BY <1>1, <1>2, <1>3, <1>4, <1>5 DEF PpuStep

LEMMA LatchStart ==
  ASSUME NEW cart, CartKept(cart), BoardInit(cart)
  PROVE  LatchInv
<1> SUFFICES ASSUME mapper.kind = "Pxrom" PROVE Matches /\ SeenSets(mapper, seen)
  BY DEF LatchInv
<1>1. CartKept(cart) /\ mapper = ResetBoard(Load(cart), TRUE)
  BY DEF BoardInit
<1>2. cart.kind = "Pxrom" /\ cart.prg \in Nat \ {0} /\ cart.chr \in Nat
  BY <1>1, StartKept DEF CartKept
<1>3. PICK old : old = Load(cart)
  OBVIOUS
<1>4. old = LoadMmc2(cart)
  BY <1>2, <1>3 DEF Load
<1>5. PxromBase(old)
  BY <1>2, <1>4, LoadedMmc2
<1>6. mapper = ResetMmc2(old)
  BY <1>1, <1>3, <1>5 DEF PxromBase, ResetBoard
<1>7. mapper.latch = [t \in 0..1 |-> 0]
  BY <1>5, <1>6, ResetLatches
<1>8. drawn = Nothing /\ seen = [t \in 0..1 |-> \hFD]
  BY DEF BoardInit, NothingSeen
<1>9. SeenSets(mapper, seen)
  BY <1>7, <1>8 DEF SeenSets, Two
<1> QED BY <1>8, <1>9 DEF Matches, Nothing

LEMMA LatchesKept ==
  ASSUME NEW m, PxromKept(m), NEW addr \in Nat, NEW val \in Nat, val < 256
  PROVE  WriteMmc2(m, addr, val).latch = m.latch
BY WrittenMmc2

LEMMA LatchStep ==
  ASSUME BoardTyped, LatchInv, BoardNext
  PROVE  LatchInv'
<1> SUFFICES ASSUME mapper'.kind = "Pxrom" PROVE LatchInv'
  BY DEF LatchInv
<1>0. mapper.kind = "Pxrom" /\ PxromKept(mapper) /\ CartKept(program) /\ Matches /\ SeenSets(mapper, seen)
  BY KindStays, ProgramKept DEF BoardTyped, MapperKept, LatchInv
<1>1. CASE CpuWrite
  <2>1. PICK w \in program.writes : mapper' = MapWrite(ClockBoard(mapper), w[1], w[2])
    BY <1>1 DEF CpuWrite
  <2>2. w[1] \in Nat /\ w[2] \in Nat /\ w[2] < 256
    BY <1>0 DEF CartKept
  <2>3. PICK addr \in Nat, val \in Nat : val < 256 /\ addr = w[1] /\ val = w[2]
    BY <2>2
  <2>4. mapper' = WriteMmc2(mapper, addr, val)
    BY <1>0, <2>1, <2>3 DEF ClockBoard, MapWrite
  <2>5. mapper'.latch = mapper.latch
    <3>1. PxromKept(mapper) /\ addr \in Nat /\ val \in Nat /\ val < 256
      BY <1>0, <2>3
    <3>2. WriteMmc2(mapper, addr, val).latch = mapper.latch
      BY <3>1, LatchesKept
    <3> QED BY <2>4, <3>2
  <2>6. drawn' = drawn /\ seen' = seen
    BY <1>1 DEF CpuWrite
  <2> QED BY <1>0, <2>5, <2>6 DEF LatchInv, Matches, SeenSets
<1>2. CASE WriteCtrl \/ WriteMask
  BY <1>0, <1>2 DEF WriteCtrl, WriteMask, LatchInv, Matches
<1>3. CASE TouchVram
  <2>1. PICK table \in 0..1, hi \in BOOLEAN : \E t \in Tiles(table) :
          /\ mapper' = ReadPattern(mapper, [table |-> table, tile |-> t.tile, row |-> t.row, hi |-> hi])
          /\ seen' = IF hi /\ t.tile # 0 /\ (table = 1 \/ t.row = 0) THEN [seen EXCEPT ![table] = t.tile] ELSE seen
    BY <1>3 DEF TouchVram
  <2>2. PICK t \in Tiles(table) :
          /\ mapper' = ReadPattern(mapper, [table |-> table, tile |-> t.tile, row |-> t.row, hi |-> hi])
          /\ seen' = IF hi /\ t.tile # 0 /\ (table = 1 \/ t.row = 0) THEN [seen EXCEPT ![table] = t.tile] ELSE seen
    BY <2>1
  <2>3. PICK r : r = [table |-> table, tile |-> t.tile, row |-> t.row, hi |-> hi]
    OBVIOUS
  <2>4. Fetch(r) /\ r.table = table /\ r.tile = t.tile /\ r.row = t.row /\ r.hi = hi
    BY <2>3, TilesAre DEF Fetch, TileOf
  <2>5. mapper' = FetchMmc2(mapper, r)
    BY <1>0, <2>2, <2>3 DEF ReadPattern
  <2>6. seen' = IF r.hi /\ r.tile # 0 /\ (r.table = 1 \/ r.row = 0) THEN [seen EXCEPT ![r.table] = r.tile] ELSE seen
    BY <2>2, <2>4
  <2>7. SeenSets(mapper', seen')
    BY <1>0, <2>4, <2>5, <2>6, SeenLatches
  <2>8. drawn' = drawn
    BY <1>3 DEF TouchVram
  <2> QED BY <1>0, <2>7, <2>8 DEF LatchInv, Matches
<1>4. CASE Reset
  <2>1. PICK hard \in BOOLEAN : mapper' = ResetBoard(mapper, hard)
    BY <1>4 DEF Reset
  <2>2. mapper' = ResetMmc2(mapper) /\ PxromBase(mapper)
    BY <1>0, <2>1 DEF ResetBoard, PxromKept
  <2>3. mapper'.latch = [t \in 0..1 |-> 0]
    BY <2>2, ResetLatches
  <2>4. drawn' = Nothing /\ seen' = [t \in 0..1 |-> \hFD]
    BY <1>4 DEF Reset, NothingSeen
  <2>5. SeenSets(mapper', seen')
    BY <2>3, <2>4 DEF SeenSets, Two
  <2> QED BY <2>4, <2>5 DEF LatchInv, Matches, Nothing
<1>5. CASE PpuStep
  BY <1>0, <1>5, LatchPpu
<1>6. CASE IdleCycle \/ ScrollRows \/ ReadStatus
  BY <1>0, <1>6 DEF IdleCycle, ScrollRows, ReadStatus
<1> QED BY <1>1, <1>2, <1>3, <1>4, <1>5, <1>6 DEF BoardNext

LEMMA LatchRests == LatchInv /\ UNCHANGED board_vars => LatchInv'
BY DEF LatchInv, Matches, board_vars, history

(* The other boards promise no tile. *)
PlainInv == mapper.kind \notin {"Pxrom", "Exrom"} => ~drawn.shown

LEMMA PlainTile ==
  ASSUME mapper.kind \notin {"Pxrom", "Exrom"}, NEW set, NEW cell, NEW r, NEW shown_, FetchTile(set, cell, r, shown_)
  PROVE  ~drawn'.shown
<1>1. Wanted(set, cell, r) = NoPage
  BY DEF Wanted
<1>2. drawn'.shown = (shown_ /\ Wanted(set, cell, r) # NoPage)
  BY DEF FetchTile
<1> QED BY <1>1, <1>2

LEMMA PlainStart ==
  ASSUME NEW cart, CartKept(cart), BoardInit(cart)
  PROVE  PlainInv
BY DEF BoardInit, PlainInv, Nothing

LEMMA PlainStep ==
  ASSUME BoardTyped, PlainInv, BoardNext
  PROVE  PlainInv'
<1> SUFFICES ASSUME mapper.kind \notin {"Pxrom", "Exrom"}, ~drawn.shown PROVE ~drawn'.shown
  BY KindStays DEF PlainInv
<1>1. CASE PpuStep
  <2>1. CASE Fetching /\ Background
    BY <1>1, <2>1, PlainTile DEF Background
  <2>2. CASE Fetching /\ Sprites
    BY <1>1, <2>2, PlainTile DEF Sprites
  <2>3. CASE Fetching /\ PrefetchTile
    BY <1>1, <2>3, PlainTile DEF PrefetchTile
  <2>4. CASE Fetching /\ DummyFetches
    BY <1>1, <2>4 DEF DummyFetches
  <2>5. CASE ~Fetching /\ NoFetches
    BY <1>1, <2>5 DEF NoFetches, Nothing
  <2> QED BY <1>1, <2>1, <2>2, <2>3, <2>4, <2>5 DEF PpuStep
<1>2. CASE CpuWrite \/ IdleCycle \/ WriteCtrl \/ WriteMask \/ ScrollRows \/ TouchVram \/ ReadStatus
  BY <1>2 DEF CpuWrite, IdleCycle, WriteCtrl, WriteMask, ScrollRows, TouchVram, ReadStatus, history
<1>3. CASE Reset
  BY <1>3 DEF Reset, Nothing
<1> QED BY <1>1, <1>2, <1>3 DEF BoardNext

LEMMA PlainRests == PlainInv /\ UNCHANGED board_vars => PlainInv'
BY DEF PlainInv, board_vars, history

LEMMA TilesMatch == BoardTyped /\ ExTilesInv /\ LatchInv /\ PlainInv => TilesOfTheirBanks
<1> SUFFICES ASSUME BoardTyped, ExTilesInv, LatchInv, PlainInv,
                    drawn.shown, mapper.kind = "Exrom" => calm = 2 /\ ~ppu.attr_rows
             PROVE  Matches
  BY DEF TilesOfTheirBanks, Matches
<1> QED BY DEF ExTilesInv, LatchInv, PlainInv

-----------------------------------------------------------------------------
(* MMC3: the lines until the IRQ. *)

(* The table of the last fetch, in undisturbed lines, and what the MMC3's  *)
(* counter makes of the lines since the reload.                            *)
LastTable(s) == IF FirstSprite < s /\ s <= Prefetch THEN ppu.spr ELSE ppu.bg
NextTable(s) == IF FirstSprite <= s /\ s < Prefetch THEN ppu.spr ELSE ppu.bg

Settled  == calm = 2 \/ (calm = 1 /\ step # 0)
TableInv == Settled /\ ~ppu.tall => mapper.last_clock = LastTable(step)

CountsDown(m, n) ==
  /\ n \in Nat /\ n <= m.irq_latch + 1
  /\ n = 0 => m.irq_reload /\ ~m.irq_pending
  /\ 0 < n /\ n <= m.irq_latch => ~m.irq_reload /\ ~m.irq_pending /\ m.irq_counter = m.irq_latch - n + 1
  /\ m.irq_latch < n /\ m.irq_enabled => m.irq_pending

Countable == calm = 2 /\ ppu.bg # ppu.spr /\ ~ppu.tall

IrqInv ==
  mapper.kind = "Txrom" =>
    /\ TableInv
    /\ lines # Uncounted => Countable /\ CountsDown(mapper, lines)

(* Of the two fetches of a tile only the first can be an edge. *)
LEMMA OneEdge ==
  ASSUME NEW m, TxromKept(m), NEW t \in {0, 1}, NEW m3, Clocked(m, m3, t), NEW new, Clocked(m3, new, t)
  PROVE  Clocked(m, new, t)
<1>1. ~Edge(m3, t)
  BY DEF Edge, Clocked
<1>2. /\ new.last_clock = t /\ new.irq_latch = m.irq_latch /\ new.irq_enabled = m.irq_enabled
      /\ new.revision = m.revision
      /\ new.irq_counter = m3.irq_counter /\ new.irq_pending = m3.irq_pending /\ new.irq_reload = m3.irq_reload
  BY <1>1 DEF Clocked
<1>3. CASE Edge(m, t)
  <2>1. m3.irq_counter = Counted(m) /\ (m3.irq_pending <=> m.irq_pending \/ Trips(m)) /\ ~m3.irq_reload
    BY <1>3 DEF Clocked
  <2> QED BY <1>2, <1>3, <2>1 DEF Clocked
<1>4. CASE ~Edge(m, t)
  <2>1. m3.irq_counter = m.irq_counter /\ m3.irq_pending = m.irq_pending /\ m3.irq_reload = m.irq_reload
    BY <1>4 DEF Clocked
  <2> QED BY <1>2, <1>4, <2>1 DEF Clocked
<1> QED BY <1>3, <1>4

LEMMA TxTile ==
  ASSUME MapperKept(mapper), mapper.kind = "Txrom", ppu.attr_rows \in BOOLEAN,
         NEW set, NEW cell, NEW table \in {0, 1}, NEW r, TileOf(r, table), NEW shown_, FetchTile(set, cell, r, shown_)
  PROVE  Clocked(mapper, mapper', table)
<1>1. PICK lo, hi, m1, m2, m3 :
        /\ lo = [table |-> r.table, tile |-> r.tile, row |-> r.row, hi |-> FALSE]
        /\ hi = [table |-> r.table, tile |-> r.tile, row |-> r.row, hi |-> TRUE]
        /\ TileRead(mapper, cell, ppu.attr_rows, lo, hi, m1, m2, m3, mapper')
  BY TileFetches DEF FetchesTile
<1>2. Fetch(lo) /\ Fetch(hi) /\ lo.table = table /\ hi.table = table
  BY <1>1 DEF Fetch, TileOf
<1>3. m1 = mapper /\ m2 = mapper
  BY <1>1 DEF TileRead, ReadScreen
<1>4. m3 = ReadPattern(mapper, lo) /\ mapper' = ReadPattern(m3, hi)
  BY <1>1, <1>3 DEF TileRead
<1>5. MapperKept(m3) /\ m3.kind = "Txrom" /\ Clocked(mapper, m3, table)
  BY <1>2, <1>4, PatternKept
<1>6. Clocked(m3, mapper', table)
  BY <1>2, <1>4, <1>5, PatternKept
<1> QED BY <1>5, <1>6, OneEdge DEF MapperKept

(* What a step of the picture shows the counter. *)
LEMMA TxFetches ==
  ASSUME BoardTyped, PpuStep, mapper.kind = "Txrom"
  PROVE  /\ ~Fetching \/ step = Dummy => mapper' = mapper
         /\ Fetching /\ step # Dummy => \E t \in {0, 1} : Clocked(mapper, mapper', t) /\ (~ppu.tall => t = NextTable(step))
<1>0. /\ MapperKept(mapper) /\ ppu.attr_rows \in BOOLEAN /\ ppu.bg \in {0, 1} /\ ppu.spr \in {0, 1}
      /\ step \in Nat
  BY Sizes DEF BoardTyped, PpuTyped, Placed
<1>s. /\ FirstSprite \in Nat /\ Prefetch \in Nat /\ Dummy \in Nat /\ FirstSprite < Prefetch /\ Prefetch < Dummy
  BY Sizes
<1>1. CASE Fetching /\ Background
  <2>1. PICK r \in Tiles(ppu.bg) : FetchTile("Bg", Cell(step + 2), r, step < Cols - 1)
    BY <1>1 DEF Background
  <2>2. TileOf(r, ppu.bg)
    BY TilesAre
  <2>3. Clocked(mapper, mapper', ppu.bg)
    BY <1>0, <2>1, <2>2, TxTile
  <2>4. step # Dummy /\ NextTable(step) = ppu.bg
    BY <1>0, <1>s, <1>1 DEF Background, NextTable
  <2> QED BY <1>0, <1>1, <2>3, <2>4
<1>2. CASE Fetching /\ Sprites
  <2>1. PICK table \in SpriteTables : \E r \in Tiles(table) : FetchTile("Spr", Cell(0), r, TRUE)
    BY <1>2 DEF Sprites
  <2>2. PICK r \in Tiles(table) : FetchTile("Spr", Cell(0), r, TRUE)
    BY <2>1
  <2>3. table \in {0, 1} /\ (~ppu.tall => table = ppu.spr)
    BY <1>0 DEF SpriteTables
  <2>4. TileOf(r, table)
    BY TilesAre
  <2>5. Clocked(mapper, mapper', table)
    BY <1>0, <2>2, <2>3, <2>4, TxTile
  <2>6. step # Dummy /\ NextTable(step) = ppu.spr
    BY <1>0, <1>s, <1>2 DEF Sprites, NextTable
  <2> QED BY <1>2, <2>3, <2>5, <2>6
<1>3. CASE Fetching /\ PrefetchTile
  <2>1. PICK r \in Tiles(ppu.bg) :
          FetchTile("Bg", Cell(step - Prefetch), r, ~(mapper.kind = "Exrom" /\ ExAttr(mapper) /\ step = Prefetch))
    BY <1>3 DEF PrefetchTile
  <2>2. TileOf(r, ppu.bg)
    BY TilesAre
  <2>3. Clocked(mapper, mapper', ppu.bg)
    BY <1>0, <2>1, <2>2, TxTile
  <2>4. step # Dummy /\ NextTable(step) = ppu.bg
    BY <1>0, <1>s, <1>3 DEF PrefetchTile, NextTable
  <2> QED BY <1>0, <1>3, <2>3, <2>4
<1>4. CASE Fetching /\ DummyFetches
  BY <1>4 DEF DummyFetches, ReadScreen
<1>5. CASE ~Fetching /\ NoFetches
  BY <1>5 DEF NoFetches
<1> QED BY <1>1, <1>2, <1>3, <1>4, <1>5 DEF PpuStep

(* The line to the board moves where the model says that it does. *)
LEMMA EdgeHere ==
  ASSUME BoardTyped, mapper.kind = "Txrom", Settled, TableInv, ~ppu.tall, ppu.bg # ppu.spr, Fetching
  PROVE  /\ step # Dummy => (Edge(mapper, NextTable(step)) <=> AtEdge)
         /\ step = Dummy => ~AtEdge
<1>1. /\ ppu.bg \in {0, 1} /\ ppu.spr \in {0, 1} /\ step \in Nat
      /\ mapper.last_clock = LastTable(step)
  BY Sizes DEF BoardTyped, PpuTyped, Placed, TableInv
<1>2. FirstSprite \in Nat /\ Prefetch \in Nat /\ Dummy \in Nat /\ FirstSprite < Prefetch /\ Prefetch < Dummy
  BY Sizes
<1>3. EdgeStep = FirstSprite \/ EdgeStep = Prefetch
  BY DEF EdgeStep
<1>4. AtEdge <=> step = EdgeStep
  BY DEF AtEdge
<1>5. PICK acc \in BOOLEAN : acc <=> mapper.revision = "Acc"
  OBVIOUS
<1>6. Edge(mapper, NextTable(step)) <=>
        IF acc THEN LastTable(step) = 1 /\ NextTable(step) = 0 ELSE LastTable(step) = 0 /\ NextTable(step) = 1
  BY <1>1, <1>5 DEF Edge
<1>7. EdgeStep = IF (ppu.bg = 0 /\ ~acc) \/ (ppu.bg # 0 /\ acc) THEN FirstSprite ELSE Prefetch
  BY <1>5 DEF EdgeStep
<1>8. CASE step = FirstSprite
  <2>1. LastTable(step) = ppu.bg /\ NextTable(step) = ppu.spr
    BY <1>2, <1>8 DEF LastTable, NextTable
  <2> QED BY <1>1, <1>2, <1>4, <1>6, <1>7, <1>8, <2>1
<1>9. CASE step = Prefetch
  <2>1. LastTable(step) = ppu.spr /\ NextTable(step) = ppu.bg
    BY <1>2, <1>9 DEF LastTable, NextTable
  <2> QED BY <1>1, <1>2, <1>4, <1>6, <1>7, <1>9, <2>1
<1>10. CASE step # FirstSprite /\ step # Prefetch
  <2>1. LastTable(step) = NextTable(step)
    BY <1>1, <1>2, <1>10 DEF LastTable, NextTable
  <2> QED BY <1>3, <1>4, <1>6, <1>10, <2>1
<1> QED BY <1>8, <1>9, <1>10

(* A line that is counted, and a fetch that is not. *)
LEMMA CountedLine ==
  ASSUME NEW m, TxromKept(m), NEW n, CountsDown(m, n), NEW t \in {0, 1}, NEW new, Clocked(m, new, t)
  PROVE  /\ Edge(m, t) => CountsDown(new, IF n <= m.irq_latch THEN n + 1 ELSE n)
         /\ ~Edge(m, t) => CountsDown(new, n)
<1>0. PICK latch \in Nat, counter \in Nat, k \in Nat : latch = m.irq_latch /\ counter = m.irq_counter /\ k = n
  <2>1. m.irq_latch \in Nat /\ m.irq_latch < 256
    BY DEF TxromKept, TxromBase
  <2>2. m.irq_latch \in Nat /\ m.irq_counter \in Nat /\ n \in Nat
    BY <2>1 DEF TxromKept, TxromBase, CountsDown
  <2> QED BY <2>2
<1>1. /\ new.irq_latch = latch /\ (new.irq_enabled <=> m.irq_enabled)
  BY <1>0 DEF Clocked
<1>2. CASE ~Edge(m, t)
  <2>1. new.irq_counter = m.irq_counter /\ new.irq_pending = m.irq_pending /\ new.irq_reload = m.irq_reload
    BY <1>2 DEF Clocked
  <2> QED BY <1>0, <1>1, <1>2, <2>1 DEF CountsDown
<1>3. CASE Edge(m, t)
  <2>1. new.irq_counter = Counted(m) /\ (new.irq_pending <=> m.irq_pending \/ Trips(m)) /\ ~new.irq_reload
    BY <1>3 DEF Clocked
  <2>2. CASE latch < k
    <3>1. m.irq_enabled => new.irq_pending
      BY <1>0, <2>1, <2>2 DEF CountsDown
    <3>2. CountsDown(new, n)
      BY <1>0, <1>1, <2>2, <3>1 DEF CountsDown
    <3> QED BY <1>0, <1>3, <2>2, <3>2
  <2>3. CASE k <= latch
    <3>1. ~m.irq_pending
      BY <1>0, <2>3 DEF CountsDown
    <3>2. Counted(m) = latch - k
      <4>1. CASE k = 0
        BY <1>0, <4>1 DEF CountsDown, Counted
      <4>2. CASE k # 0
        <5>1. ~m.irq_reload /\ counter = latch - k + 1
          BY <1>0, <2>3, <4>2 DEF CountsDown
        <5> QED BY <1>0, <2>3, <5>1 DEF Counted
      <4> QED BY <4>1, <4>2
    <3>3. k < latch => ~new.irq_pending
      BY <2>1, <3>1, <3>2 DEF Trips
    <3>4. k = latch /\ m.irq_enabled => new.irq_pending
      <4>1. CASE k = 0
        <5>1. m.irq_reload
          BY <1>0, <4>1 DEF CountsDown
        <5> QED BY <2>1, <3>2, <4>1, <5>1 DEF Trips
      <4>2. CASE k # 0
        <5>1. k = latch => counter = 1
          BY <1>0, <4>2 DEF CountsDown
        <5>2. k = latch => counter % 2 = 1
          BY <5>1
        <5> QED BY <1>0, <2>1, <3>2, <5>2 DEF Trips
      <4> QED BY <4>1, <4>2
    <3>5. CountsDown(new, k + 1)
      BY <1>1, <2>1, <2>3, <3>2, <3>3, <3>4 DEF CountsDown
    <3> QED BY <1>0, <1>3, <2>3, <3>5
  <2> QED BY <2>2, <2>3
<1> QED BY <1>2, <1>3

LEMMA IrqPpu ==
  ASSUME BoardTyped, CalmInv, IrqInv, PpuStep, mapper.kind = "Txrom"
  PROVE  IrqInv'
<1>0. /\ TxromKept(mapper) /\ ppu.bg \in {0, 1} /\ ppu.spr \in {0, 1} /\ calm \in {0, 1, 2} /\ step \in Nat
      /\ (lines # Uncounted => Countable /\ CountsDown(mapper, lines)) /\ TableInv /\ ppu.tall \in BOOLEAN
  BY Sizes DEF BoardTyped, PpuTyped, Placed, IrqInv, MapperKept
<1>1. /\ ppu'.bg = ppu.bg /\ ppu'.spr = ppu.spr /\ ppu'.tall = ppu.tall
      /\ step' = IF EndOfLine THEN 0 ELSE step + 1
  BY PpuAdvances, PpuNext DEF BoardTyped, MovesOn
<1>2. lines' = IF AtEdge /\ lines # Uncounted /\ lines <= mapper.irq_latch THEN lines + 1 ELSE lines
  BY DEF PpuStep, CountLine
<1>3. /\ FirstSprite \in Nat /\ Prefetch \in Nat /\ Dummy \in Nat /\ 0 < FirstSprite
      /\ FirstSprite < Prefetch /\ Prefetch < Dummy
  BY Sizes
<1>4. /\ calm' = 2 => calm = 2 \/ (calm = 1 /\ Fetching /\ step = Dummy)
      /\ ~(Fetching /\ step = Dummy) /\ calm' # 0 => calm' = calm
      /\ Fetching /\ step = Dummy /\ calm # 0 => calm' = 2
  BY CalmPpu DEF CalmInv, Fetching
<1>5. Settled' => calm' = 2 \/ (calm' = 1 /\ step' # 0)
  BY DEF Settled
<1>6. CASE Fetching /\ step # Dummy
  <2>1. PICK t \in {0, 1} : Clocked(mapper, mapper', t) /\ (~ppu.tall => t = NextTable(step))
    BY <1>6, TxFetches
  <2>2. step' = step + 1
    BY <1>1, <1>6 DEF EndOfLine, Fetching
  <2>3. LastTable(step)' = NextTable(step)
    BY <1>0, <1>1, <1>3, <2>2 DEF LastTable, NextTable, FirstSprite, Prefetch
  <2>4. TableInv'
    <3> SUFFICES ASSUME ~ppu'.tall PROVE mapper'.last_clock = LastTable(step)'
      BY DEF TableInv
    <3> QED BY <1>1, <2>1, <2>3 DEF Clocked
  <2>5. ASSUME lines' # Uncounted PROVE Countable' /\ CountsDown(mapper', lines')
    <3>1. lines # Uncounted
      BY <1>2, <2>5
    <3>2. Countable /\ CountsDown(mapper, lines)
      BY <1>0, <3>1
    <3>3. calm' = 2
      <4>1. calm' = calm
        BY <1>6 DEF PpuStep
      <4> QED BY <3>2, <4>1 DEF Countable
    <3>4. Countable'
      BY <1>1, <3>2, <3>3 DEF Countable
    <3>5. Edge(mapper, NextTable(step)) <=> AtEdge
      BY <1>0, <1>6, <3>2, EdgeHere DEF Countable, Settled
    <3>6. Edge(mapper, t) <=> AtEdge
      BY <2>1, <3>2, <3>5 DEF Countable
    <3>7. /\ Edge(mapper, t) => CountsDown(mapper', IF lines <= mapper.irq_latch THEN lines + 1 ELSE lines)
          /\ ~Edge(mapper, t) => CountsDown(mapper', lines)
      BY <1>0, <2>1, <3>2, CountedLine
    <3>8. CountsDown(mapper', lines')
      BY <1>2, <3>1, <3>6, <3>7
    <3> QED BY <3>4, <3>8
  <2> QED BY <2>4, <2>5 DEF IrqInv
<1>7. CASE ~Fetching \/ step = Dummy
  <2>1. mapper' = mapper
    BY <1>7, TxFetches
  <2>2. ~AtEdge
    BY <1>3, <1>7 DEF AtEdge, EdgeStep
  <2>3. lines' = lines
    BY <1>2, <2>2
  <2>4. CASE ~ppu.rendering
    <3>1. calm = 0 /\ calm' = 0
      <4>1. calm = 0
        BY <2>4 DEF CalmInv
      <4> QED BY <1>4, <2>4, <4>1 DEF Fetching
    <3>2. lines' = Uncounted /\ ~Settled'
      BY <1>0, <1>5, <2>3, <3>1 DEF Countable
    <3> QED BY <3>2 DEF IrqInv, TableInv, Uncounted
  <2>5. CASE ppu.rendering
    <3>1. step' = 0 /\ (step = 0 \/ step = Dummy)
      <4>1. CASE Fetching
        BY <1>1, <1>7, <4>1 DEF EndOfLine
      <4>2. CASE ~RenderLine
        BY <1>1, <4>2 DEF EndOfLine, RenderLine, CalmInv
      <4> QED BY <2>5, <4>1, <4>2 DEF Fetching
    <3>2. calm' = 2 => Settled
      BY <1>3, <1>4 DEF Settled
    <3>3. calm = 2 => calm' = 2
      <4>1. CASE Fetching
        BY <1>4, <1>7, <4>1
      <4>2. CASE ~RenderLine
        BY <4>2 DEF PpuStep
      <4> QED BY <2>5, <4>1, <4>2 DEF Fetching
    <3>4. LastTable(step) = ppu.bg /\ LastTable(step)' = ppu.bg
      BY <1>1, <1>3, <3>1 DEF LastTable, FirstSprite, Prefetch
    <3>5. TableInv'
      <4> SUFFICES ASSUME Settled', ~ppu'.tall PROVE mapper'.last_clock = LastTable(step)'
        BY DEF TableInv
      <4>1. Settled
        BY <1>5, <3>1, <3>2
      <4> QED BY <1>0, <1>1, <2>1, <3>4, <4>1 DEF TableInv
    <3>6. ASSUME lines' # Uncounted PROVE Countable' /\ CountsDown(mapper', lines')
      BY <1>0, <1>1, <2>1, <2>3, <3>3, <3>6 DEF Countable
    <3> QED BY <3>5, <3>6 DEF IrqInv
  <2> QED BY <2>4, <2>5
<1> QED BY <1>6, <1>7

LEMMA IrqStart ==
  ASSUME NEW cart, CartKept(cart), BoardInit(cart)
  PROVE  IrqInv
BY DEF BoardInit, IrqInv, TableInv, Settled, Uncounted

LEMMA CommandedCount ==
  ASSUME NEW m, TxromKept(m), NEW addr \in TxromAddresses, NEW new, Commanded(m, new, addr),
         NEW n, n # Uncounted => CountsDown(m, n), NEW k, k # Uncounted,
         addr = \hC001 => k = 0 /\ ~m.irq_pending,
         addr \notin {\hC000, \hE000},
         addr = \hE001 => n <= m.irq_latch /\ k = n,
         addr \notin {\hC000, \hC001, \hE000, \hE001} => k = n
  PROVE  CountsDown(new, k)
<1>0. m.irq_latch \in Nat /\ m.irq_latch < 256
  BY DEF TxromKept, TxromBase
<1>1. CASE addr = \hC001
  BY <1>0, <1>1 DEF Commanded, CountsDown
<1>2. CASE addr = \hE001
  <2>1. CountsDown(m, n) /\ k = n /\ n <= m.irq_latch
    BY <1>2
  <2>2. /\ new.irq_reload = m.irq_reload /\ new.irq_pending = m.irq_pending
        /\ new.irq_latch = m.irq_latch /\ new.irq_counter = m.irq_counter
    BY <1>2 DEF Commanded
  <2> QED BY <1>0, <2>1, <2>2 DEF CountsDown
<1>3. CASE addr \notin {\hC000, \hC001, \hE000, \hE001}
  <2>1. CountsDown(m, n) /\ k = n /\ SameIrq(m, new)
    BY <1>3 DEF Commanded
  <2> QED BY <2>1 DEF CountsDown, SameIrq
<1> QED BY <1>1, <1>2, <1>3 DEF TxromAddresses

LEMMA IrqWrite ==
  ASSUME BoardTyped, IrqInv, CpuWrite, mapper.kind = "Txrom"
  PROVE  IrqInv'
<1>0. /\ TxromKept(mapper) /\ CartKept(program) /\ mapper.kind = program.kind
      /\ (lines # Uncounted => Countable /\ CountsDown(mapper, lines)) /\ TableInv
  BY ProgramKept DEF BoardTyped, IrqInv, MapperKept
<1>1. PICK w \in program.writes :
        /\ mapper' = MapWrite(ClockBoard(mapper), w[1], w[2])
        /\ lines' = IF mapper.kind = "Txrom" THEN Recount(w[1]) ELSE lines
        /\ calm' = IF Repaints(mapper, w[1]) THEN 0 ELSE calm
  BY DEF CpuWrite
<1>2. w[1] \in TxromAddresses /\ w[2] \in Nat /\ w[2] < 256
  BY <1>0 DEF CartKept
<1>3. PICK addr \in TxromAddresses, val \in Nat : val < 256 /\ addr = w[1] /\ val = w[2]
  BY <1>2
<1>4. mapper' = WriteMmc3(mapper, addr, val) /\ lines' = Recount(addr) /\ calm' = calm
  BY <1>1, <1>3 DEF ClockBoard, MapWrite, Repaints
<1>5. Commanded(mapper, mapper', addr)
  <2>1. PICK m : m = mapper
    OBVIOUS
  <2>2. PICK new : new = mapper'
    OBVIOUS
  <2>3. TxromKept(m) /\ new = WriteMmc3(m, addr, val)
    BY <1>0, <1>4, <2>1, <2>2
  <2>4. Commanded(m, new, addr)
    BY <1>3, <2>3, WrittenMmc3
  <2> QED BY <2>1, <2>2, <2>4
<1>6. ppu' = ppu /\ step' = step
  BY DEF CpuWrite, picture
<1>7. TableInv'
  BY <1>0, <1>4, <1>5, <1>6 DEF TableInv, Settled, LastTable, FirstSprite, Prefetch, Commanded
<1>8. ASSUME lines' # Uncounted PROVE Countable' /\ CountsDown(mapper', lines')
  <2>0. Recount(addr) # Uncounted
    BY <1>4, <1>8 DEF Uncounted
  <2>1. /\ addr \notin {\hC000, \hE000}
        /\ addr = \hC001 => Recount(addr) = 0 /\ ~mapper.irq_pending /\ Countable
        /\ addr = \hE001 => lines <= mapper.irq_latch /\ Recount(addr) = lines
        /\ addr \notin {\hC000, \hC001, \hE000, \hE001} => Recount(addr) = lines
    <3>1. addr \notin {\hC000, \hE000}
      BY <2>0 DEF Recount
    <3>2. addr = \hC001 => Recount(addr) = 0 /\ ~mapper.irq_pending /\ Countable
      BY <2>0 DEF Recount, Countable
    <3>3. addr = \hE001 => ~(lines > mapper.irq_latch) /\ Recount(addr) = lines
      BY <2>0 DEF Recount
    <3>4. addr = \hE001 => lines \in Nat /\ mapper.irq_latch \in Nat /\ mapper.irq_latch < 256
      BY <1>0, <2>0, <3>3 DEF CountsDown, TxromKept, TxromBase
    <3>5. addr \notin {\hC000, \hC001, \hE000, \hE001} => Recount(addr) = lines
      BY DEF Recount
    <3> QED BY <3>1, <3>2, <3>3, <3>4, <3>5
  <2>2. Countable
    BY <1>0, <2>0, <2>1 DEF TxromAddresses
  <2>3. CountsDown(mapper', Recount(addr))
    BY <1>0, <1>5, <2>0, <2>1, CommandedCount
  <2> QED BY <1>4, <1>6, <2>2, <2>3 DEF Countable
<1> QED BY <1>7, <1>8 DEF IrqInv

LEMMA IrqStep ==
  ASSUME BoardTyped, CalmInv, IrqInv, BoardNext
  PROVE  IrqInv'
<1> SUFFICES ASSUME mapper.kind = "Txrom" PROVE IrqInv'
  BY KindStays DEF IrqInv
<1>1. CASE CpuWrite
  BY <1>1, IrqWrite
<1>2. CASE PpuStep
  BY <1>2, IrqPpu
<1>3. CASE WriteCtrl \/ WriteMask \/ ScrollRows \/ TouchVram \/ Reset
  <2>1. lines' = Uncounted /\ calm' = 0
    BY <1>3 DEF WriteCtrl, WriteMask, ScrollRows, TouchVram, Reset, Disturbed
  <2> QED BY <2>1 DEF IrqInv, TableInv, Settled, Uncounted
<1>4. CASE IdleCycle \/ ReadStatus
  BY <1>4 DEF IdleCycle, ReadStatus
<1> QED BY <1>1, <1>2, <1>3, <1>4 DEF BoardNext

LEMMA IrqRests == IrqInv /\ UNCHANGED board_vars => IrqInv'
BY DEF IrqInv, TableInv, Settled, LastTable, FirstSprite, Prefetch, Countable, CountsDown, Uncounted,
       board_vars, history, picture

LEMMA IrqComes == BoardTyped /\ IrqInv => IrqAfterLatchLines
<1> SUFFICES ASSUME BoardTyped, IrqInv, mapper.kind = "Txrom", lines # Uncounted, mapper.irq_enabled
             PROVE  mapper.irq_pending <=> lines > mapper.irq_latch
  BY DEF IrqAfterLatchLines
<1>1. CountsDown(mapper, lines)
  BY DEF IrqInv
<1>2. PICK latch \in Nat, n \in Nat : latch = mapper.irq_latch /\ n = lines
  <2>1. mapper.irq_latch \in Nat /\ mapper.irq_latch < 256
    BY DEF BoardTyped, MapperKept, TxromKept, TxromBase
  <2> QED BY <1>1, <2>1 DEF CountsDown
<1> QED BY <1>1, <1>2 DEF CountsDown
=============================================================================
