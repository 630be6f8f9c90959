-------------------------------- MODULE Mmc3 --------------------------------
(***************************************************************************)
(* Txrom: the MMC3 (src/src/mapper/m004_txrom.rs).  Its IRQ counts the     *)
(* lines of the picture by the highest line of the pattern tables'         *)
(* addresses: it rises once in a line, when the background is fetched from *)
(* one table and the sprites from the other.                               *)
(***************************************************************************)
EXTENDS Banks

UpdateMmc3(m) ==
  LET last == LastPage(m.prg)
      v    == m.bank_values
      one  == IF Bit(m.bank_select, 6) THEN 0 ELSE 2      (* the fixed window *)
      prg  == SetBank(SetBank(SetBank(SetBank(m.prg, one, last - 1),
                                      1, v[7]), 2 - one, v[6]), 3, last)
      two  == IF Bit(m.bank_select, 7) THEN 4 ELSE 0      (* the 2 KB windows *)
      chr2 == SetRange(SetRange(m.chr, two, two + 1, Even(v[0])), two + 2, two + 3, Even(v[1]))
      chr  == [chr2 EXCEPT !.page = [w \in 0..7 |->
                 IF w \div 4 = two \div 4 THEN chr2.page[w] ELSE v[2 + (w % 4)] % chr2.pages]]
  IN [m EXCEPT !.prg = prg, !.chr = chr]

TxRegs ==
  [bank_select |-> 0, bank_values |-> [i \in 0..7 |-> 0], irq_latch |-> 0, irq_counter |-> 0,
   irq_enabled |-> FALSE, irq_reload |-> FALSE, last_clock |-> 0]

(* The rest of a board with new registers. *)
NewRegs(m) ==
  [f \in DOMAIN TxRegs \cup DOMAIN m |-> IF f \in DOMAIN TxRegs THEN TxRegs[f] ELSE m[f]]

LoadMmc3(cart) ==
  LET rom  == NewBanks(4, cart.prg)
      last == LastPage(rom)
  IN NewRegs(
     [kind |-> "Txrom", mirroring |-> cart.mirroring, irq_pending |-> FALSE,
      revision |-> cart.revision, chr |-> NewBanks(8, cart.chr),
      prg |-> SetBank(SetBank(rom, 2, last - 1), 3, last)])

-----------------------------------------------------------------------------
(* Revision Acc counts when the line falls, the others when it rises. *)
Edge(m, a12) ==
  IF m.revision = "Acc" THEN m.last_clock = 1 /\ a12 = 0 ELSE m.last_clock = 0 /\ a12 = 1

Counted(m) == IF m.irq_counter = 0 \/ m.irq_reload THEN m.irq_latch ELSE m.irq_counter - 1

(* Mutant: a line early. *)
TripsEarly(m) == Counted(m) <= 1 /\ m.irq_enabled

(* Revision A does not trip when a counter of zero is loaded with zero.    *)
Trips(m) ==
  /\ m.irq_counter % 2 = 1 \/ m.revision = "BC" \/ m.irq_reload
  /\ Counted(m) = 0
  /\ m.irq_enabled

(* clock_irq, of an address within the pattern tables. *)
ClockIrq(m, a12) ==
  LET counted == [m EXCEPT !.irq_counter = Counted(m), !.irq_pending = @ \/ Trips(m),
                           !.irq_reload = FALSE]
  IN [(IF Edge(m, a12) THEN counted ELSE m) EXCEPT !.last_clock = a12]

(* Only $8000/1, $A000/1, $C000/1 and $E000/1 are told apart. *)
WriteMmc3(m, addr, val) ==
  CASE addr = \h8000 -> UpdateMmc3([m EXCEPT !.bank_select = val])
    [] addr = \h8001 -> UpdateMmc3([m EXCEPT !.bank_values[m.bank_select % 8] = val])
    [] addr = \hA000 -> IF m.mirroring = "FourScreen" THEN m
                        ELSE UpdateMmc3([m EXCEPT !.mirroring =
                               IF val % 2 = 0 THEN "Vertical" ELSE "Horizontal"])
    [] addr = \hA001 -> m
    [] addr = \hC000 -> [m EXCEPT !.irq_latch = val]
    [] addr = \hC001 -> [m EXCEPT !.irq_reload = TRUE]
    [] addr = \hE000 -> [m EXCEPT !.irq_pending = FALSE, !.irq_enabled = FALSE]
    [] addr = \hE001 -> [m EXCEPT !.irq_enabled = TRUE]

ResetMmc3(m) == UpdateMmc3([NewRegs(m) EXCEPT !.irq_pending = FALSE])
=============================================================================
