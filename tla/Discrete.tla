------------------------------ MODULE Discrete ------------------------------
(***************************************************************************)
(* The boards without a counter or a latch: NROM, UxROM, CNROM, AxROM,     *)
(* GxROM and BF909x (src/src/mapper/m000_nrom.rs, m002_uxrom.rs,           *)
(* m003_cnrom.rs, m007_axrom.rs, m066_gxrom.rs, m071_bf909x.rs).           *)
(*                                                                         *)
(* A board is a record: its kind, the mirroring of the nametables, and the *)
(* banks in front of its chips.  A cartridge is a record of the pages of   *)
(* its chips, in the units of the board's windows.                         *)
(***************************************************************************)
EXTENDS Banks

(* The first of the two 16 KB windows switches, the other is the last.     *)
LoadUxrom(cart) ==
  LET banks == NewBanks(2, cart.prg)
  IN [kind |-> "Uxrom", mirroring |-> cart.mirroring, prg |-> SetBank(banks, 1, LastPage(banks))]

(* The same, with a mirroring register on some of the boards. *)
LoadBf909x(cart) ==
  LET banks == NewBanks(2, cart.prg)
  IN [kind |-> "Bf909x", mirroring |-> cart.mirroring, bf9097 |-> cart.submapper = 1,
      prg |-> SetBank(banks, 1, LastPage(banks))]

(* One window of 32 KB. *)
LoadAxrom(cart) ==
  [kind |-> "Axrom", mirroring |-> cart.mirroring, prg |-> NewBanks(1, cart.prg)]

LoadGxrom(cart) ==
  [kind |-> "Gxrom", mirroring |-> cart.mirroring, prg |-> NewBanks(1, cart.prg),
   chr |-> NewBanks(1, cart.chr)]

(* Fixed program banks: the same 16 KB twice, if there are no more. *)
FixedProgram(cart) ==
  [pages |-> cart.prg, page |-> [w \in 0..1 |-> IF cart.prg <= 1 THEN 0 ELSE w]]

LoadNrom(cart) ==
  [kind |-> "Nrom", mirroring |-> cart.mirroring, prg |-> FixedProgram(cart)]

(* The range of the banks is sixteen windows long, of which only the first *)
(* is ever addressed.                                                      *)
LoadCnrom(cart) ==
  [kind |-> "Cnrom", mirroring |-> cart.mirroring, prg |-> FixedProgram(cart),
   chr |-> NewBanks(1, cart.chr)]

-----------------------------------------------------------------------------
(* Writes to $8000-$FFFF. *)

WriteUxrom(m, val) == [m EXCEPT !.prg = SetBank(m.prg, 0, val)]
WriteCnrom(m, val) == [m EXCEPT !.chr = SetBank(m.chr, 0, val)]

WriteAxrom(m, val) ==
  [m EXCEPT !.prg = SetBank(m.prg, 0, Bits(val, 0, 4)),
            !.mirroring = IF Bit(val, 4) THEN "SingleScreenB" ELSE "SingleScreenA"]

WriteGxrom(m, val) ==
  [m EXCEPT !.chr = SetBank(m.chr, 0, Bits(val, 0, 4)),
            !.prg = SetBank(m.prg, 0, Bits(val, 4, 2))]

(* A write to $9000 tells that it is a board with the mirroring register.  *)
WriteBf909x(m, addr, val) ==
  LET bf9097 == m.bf9097 \/ addr = \h9000
  IN IF addr >= \hC000 \/ ~bf9097
     THEN [m EXCEPT !.bf9097 = bf9097, !.prg = SetBank(m.prg, 0, val)]
     ELSE [m EXCEPT !.bf9097 = bf9097,
                    !.mirroring = IF Bit(val, 4) THEN "SingleScreenA" ELSE "SingleScreenB"]
=============================================================================
