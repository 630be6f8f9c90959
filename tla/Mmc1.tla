-------------------------------- MODULE Mmc1 --------------------------------
(***************************************************************************)
(* Sxrom: the MMC1 (src/src/mapper/m001_sxrom.rs).  Its registers are      *)
(* loaded through a single bit: five writes shift a value in, the last of  *)
(* them says by its address for which register.  A write in the CPU cycle  *)
(* after another one is ignored: the instructions that read, modify and    *)
(* write write twice.                                                      *)
(***************************************************************************)
EXTENDS Banks

DefaultShift   == 16                    (* 0x10: the 1 tells when it is full *)
DefaultPrgMode == 12                    (* 0x0C: mode 3, last bank fixed     *)
PrgRamDisabled == 16

PrgMode(m) == Bits(m.control, 2, 2)
Chr4k(m)   == Bit(m.control, 4)

ControlMirroring(m) ==
  <<"SingleScreenA", "SingleScreenB", "Vertical", "Horizontal">>[(m.control % 4) + 1]

(* In the 512 KB boards a bit of a CHR register selects half of the ROM. *)
HalfSelect(m, addr) ==
  LET extra == IF Block(addr) \in 12..13 /\ Chr4k(m) THEN m.chr1 ELSE m.chr0
  IN IF m.chr_select /\ Bit(extra, 4) THEN 16 ELSE 0

MappedPrg(m, addr) ==
  LET half == HalfSelect(m, addr)
      bank == m.prg_reg % 16
      rom  == m.prg
  IN CASE m.submapper = 5   -> SetRange(rom, 0, 1, 0)
       [] m.submapper # 5 /\ PrgMode(m) \in {0, 1} -> SetRange(rom, 0, 1, half + Even(bank))
       [] m.submapper # 5 /\ PrgMode(m) = 2 -> SetBank(SetBank(rom, 0, half), 1, half + bank)
       [] m.submapper # 5 /\ PrgMode(m) = 3 ->
            SetBank(SetBank(rom, 0, half + bank), 1, LastPage(rom))  (* in the upper half *)

MappedChr(m) ==
  IF Chr4k(m) THEN SetBank(SetBank(m.chr, 0, m.chr0), 1, m.chr1)
              ELSE SetRange(m.chr, 0, 1, Even(m.chr0))

UpdateMmc1(m, addr) ==
  [m EXCEPT !.mirroring = ControlMirroring(m), !.chr = MappedChr(m), !.prg = MappedPrg(m, addr)]

LoadMmc1(cart) ==
  UpdateMmc1([kind |-> "Sxrom", mirroring |-> "SingleScreenA",
              write_just_occurred |-> 0, shift |-> DefaultShift, control |-> DefaultPrgMode,
              chr0 |-> 0, chr1 |-> 0, prg_reg |-> 0, revision |-> cart.revision,
              submapper |-> cart.submapper, chr_select |-> cart.prg = 32,
              chr |-> NewBanks(2, cart.chr), prg |-> NewBanks(2, cart.prg)], 0)

(* A value shifted in completely goes to the register of the address.      *)
Mmc1Register(m, addr, val) ==
  CASE Block(addr) \in 8..9   -> [m EXCEPT !.control = val]
    [] Block(addr) \in 10..11 -> [m EXCEPT !.chr0 = val]
    [] Block(addr) \in 12..13 -> [m EXCEPT !.chr1 = val]
    [] Block(addr) \in 14..15 -> [m EXCEPT !.prg_reg = val]

(* The mode with the last bank fixed is set in the control register; the   *)
(* banks follow only with the next value that is shifted in.               *)
ResetShift(m) ==
  [m EXCEPT !.shift = DefaultShift, !.control = (m.control % 4) + 12 + 16 * Bits(m.control, 4, 1)]

ShiftIn(m, addr, val) ==
  LET shifted == (m.shift \div 2) + 16 * (val % 2)
  IN IF m.shift % 2 = 1
     THEN UpdateMmc1(Mmc1Register([m EXCEPT !.shift = DefaultShift], addr, shifted), addr)
     ELSE [m EXCEPT !.shift = shifted]

(* Mutant: the second write of an instruction counts as well. *)
WriteMmc1Always(m, addr, val) == IF Bit(val, 7) THEN ResetShift(m) ELSE ShiftIn(m, addr, val)

WriteMmc1(m, addr, val) ==
  IF m.write_just_occurred > 0 THEN m
  ELSE LET written == [m EXCEPT !.write_just_occurred = 2]
       IN IF Bit(val, 7) THEN ResetShift(written) ELSE ShiftIn(written, addr, val)

ClockMmc1(m) ==
  [m EXCEPT !.write_just_occurred = IF @ > 0 THEN @ - 1 ELSE 0]

(* Mutant: the banks stay as they were. *)
ResetMmc1Registers(m, hard) ==
  [m EXCEPT !.shift = DefaultShift, !.control = DefaultPrgMode, !.prg_reg = PrgRamDisabled,
            !.write_just_occurred = IF hard THEN 0 ELSE @]

ResetMmc1(m, hard) ==
  LET reset == [m EXCEPT !.shift = DefaultShift, !.control = DefaultPrgMode, !.prg_reg = PrgRamDisabled]
  IN [UpdateMmc1(reset, 0) EXCEPT !.write_just_occurred = IF hard THEN 0 ELSE @]
=============================================================================
