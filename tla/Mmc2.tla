-------------------------------- MODULE Mmc2 --------------------------------
(***************************************************************************)
(* Pxrom: the MMC2 (src/src/mapper/m009_pxrom.rs).  Each of the two        *)
(* pattern tables has two banks and a latch that chooses one: the fetch of *)
(* tile $FD or $FE from a table sets its latch, for the tiles after it.    *)
(*                                                                         *)
(* A fetch of a pattern is a record: the table, the tile ($FD, $FE or any  *)
(* other, 0), the row of the tile, and whether it is the second byte.      *)
(***************************************************************************)
EXTENDS Banks

UpdateMmc2(m) ==
  [m EXCEPT !.chr = SetBank(SetBank(m.chr, 0, m.latch_banks[m.latch[0]]),
                            1, m.latch_banks[m.latch[1] + 2])]

LoadMmc2(cart) ==
  LET rom  == NewBanks(4, cart.prg)
      last == LastPage(rom)
  IN [kind |-> "Pxrom", mirroring |-> cart.mirroring,
      latch |-> [t \in 0..1 |-> 0], latch_banks |-> [i \in 0..3 |-> 0],
      chr |-> NewBanks(2, cart.chr),
      prg |-> SetBank(SetBank(SetBank(rom, 1, last - 2), 2, last - 1), 3, last)]

(* Mutant: the first byte sets it already. *)
SetsLatchFirst(r) == r.tile \in {\hFD, \hFE} /\ (r.table = 1 \/ r.row = 0)

(* The second byte of the tile sets the latch: $0FD8 and $0FE8 alone in    *)
(* the lower table, that byte of any row in the upper one.                 *)
SetsLatch(r) == r.hi /\ r.tile \in {\hFD, \hFE} /\ (r.table = 1 \/ r.row = 0)

(* The byte is read before the latch changes. *)
FetchMmc2(m, r) ==
  IF SetsLatch(r) THEN UpdateMmc2([m EXCEPT !.latch[r.table] = r.tile - \hFD]) ELSE m

WriteMmc2(m, addr, val) ==
  CASE Block(addr) = 10 -> [m EXCEPT !.prg = SetBank(m.prg, 0, val % 16)]
    [] Block(addr) \in 11..14 ->
         UpdateMmc2([m EXCEPT !.latch_banks[Block(addr) - 11] = val % 32])
    [] Block(addr) = 15 ->
         [m EXCEPT !.mirroring = IF val % 2 = 0 THEN "Vertical" ELSE "Horizontal"]
    [] OTHER -> m

ResetMmc2(m) ==
  UpdateMmc2([m EXCEPT !.latch = [t \in 0..1 |-> 0], !.latch_banks = [i \in 0..3 |-> 0]])
=============================================================================
