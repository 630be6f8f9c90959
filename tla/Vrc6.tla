-------------------------------- MODULE Vrc6 --------------------------------
(***************************************************************************)
(* Vrc6: the banks and nametables of Konami's VRC6                         *)
(* (src/src/mapper/m024_m026_vrc6.rs).  Its IRQ is VrcIrq, its sound       *)
(* channels are in Sound.                                                  *)
(***************************************************************************)
EXTENDS Banks

(* The banking mode B003: bits 0-3 arrange the banks and the nametables,   *)
(* bit 4 takes the nametables from the CHR-ROM, bit 5 makes the lowest bit *)
(* of a bank that of the address, bit 7 enables the PRG-RAM.               *)
Style(m)       == Bits(m.banking_mode, 0, 4)
RomScreens(m)  == Bit(m.banking_mode, 4)
Paired(m)      == Bit(m.banking_mode, 5)

(* The pages of CIRAM that the four screens show.                          *)
PagesOf(mirroring) ==
  CASE mirroring = "Vertical"      -> <<0, 1, 0, 1>>
    [] mirroring = "Horizontal"    -> <<0, 0, 1, 1>>
    [] mirroring = "SingleScreenA" -> <<0, 0, 0, 0>>
    [] mirroring = "SingleScreenB" -> <<1, 1, 1, 1>>
    [] mirroring = "FourScreen"    -> <<0, 1, 2, 3>>

(* The two halves of a register that stands for two windows. *)
Halves(m, r) ==
  IF Paired(m) THEN <<Even(m.regs[r]), Even(m.regs[r]) + 1>> ELSE <<m.regs[r], m.regs[r]>>

MappedPatterns(m) ==
  LET bank(w) ==
        CASE Bits(m.banking_mode, 0, 2) = 0 -> m.regs[w]
          [] Bits(m.banking_mode, 0, 2) = 1 -> Halves(m, w \div 2)[(w % 2) + 1]
          [] OTHER -> IF w < 4 THEN m.regs[w] ELSE Halves(m, 4 + ((w - 4) \div 2))[(w % 2) + 1]
  IN [m.chr EXCEPT !.page = [w \in 0..7 |-> bank(w) % m.chr.pages]]

(* The four arrangements that are common mirrorings, in paired mode. *)
Arrangement(m) ==
  CASE Paired(m) /\ Style(m) \in {0, 7}    -> "Vertical"
    [] Paired(m) /\ Style(m) \in {3, 4}    -> "Horizontal"
    [] Paired(m) /\ Style(m) \in {8, 15}   -> "SingleScreenA"
    [] Paired(m) /\ Style(m) \in {11, 12}  -> "SingleScreenB"
    [] OTHER                               -> "FourScreen"

(* The registers that name the screens' pages, in the other modes. *)
ScreenRegisters(m) ==
  CASE Style(m) % 8 \in {0, 6, 7} -> <<6, 6, 7, 7>>
    [] Style(m) % 8 \in {1, 5}    -> <<4, 5, 6, 7>>
    [] Style(m) % 8 \in 2..4      -> <<6, 7, 6, 7>>

RomPages(m) ==
  LET lo(r) == Even(m.regs[r])
      hi(r) == lo(r) + 1
  IN CASE Arrangement(m) = "Vertical"      -> <<lo(6), hi(6), lo(7), hi(7)>>
       [] Arrangement(m) = "Horizontal"    -> <<lo(6), lo(7), hi(6), hi(7)>>
       [] Arrangement(m) = "SingleScreenA" -> <<lo(6), lo(6), lo(7), lo(7)>>
       [] Arrangement(m) = "SingleScreenB" -> <<hi(6), hi(7), hi(6), hi(7)>>
       [] OTHER -> [q \in 1..4 |-> m.regs[ScreenRegisters(m)[q]]]

RamPages(m) ==
  IF Arrangement(m) # "FourScreen" THEN PagesOf(Arrangement(m))
  ELSE [q \in 1..4 |-> m.regs[ScreenRegisters(m)[q]] % 2]

UpdateVrc6(m) ==
  [m EXCEPT !.chr = MappedPatterns(m),
            !.mirroring = IF RomScreens(m) THEN "FourScreen" ELSE Arrangement(m),
            !.nt_banks = IF RomScreens(m) THEN RomPages(m) ELSE RamPages(m)]

LoadVrc6(cart) ==
  LET rom == NewBanks(4, cart.prg)
  IN [kind |-> "Vrc6", mirroring |-> cart.mirroring, revision |-> cart.revision,
      banking_mode |-> 0, regs |-> [r \in 0..7 |-> 0], nt_banks |-> <<0, 0, 0, 0>>,
      chr |-> NewBanks(8, cart.chr), prg |-> SetBank(rom, 3, LastPage(rom))]

(* Revision B swaps the two lowest lines of the address. *)
Vrc6Register(m, addr) ==
  IF m.revision = "B" THEN <<0, 2, 1, 3>>[(addr % 4) + 1] ELSE addr % 4

WriteVrc6(m, addr, val) ==
  LET reg == Vrc6Register(m, addr)
  IN CASE Block(addr) = 8 -> [m EXCEPT !.prg = SetRange(m.prg, 0, 1, 2 * (val % 16))]
       [] Block(addr) = 11 /\ reg = 3 -> UpdateVrc6([m EXCEPT !.banking_mode = val])
       [] Block(addr) = 12 -> [m EXCEPT !.prg = SetBank(m.prg, 2, val % 32)]
       [] Block(addr) = 13 -> UpdateVrc6([m EXCEPT !.regs[reg] = val])
       [] Block(addr) = 14 -> UpdateVrc6([m EXCEPT !.regs[4 + reg] = val])
       [] OTHER -> m
=============================================================================
