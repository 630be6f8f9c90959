------------------------------- MODULE Banks --------------------------------
(***************************************************************************)
(* MemBanks (src/src/mem.rs): a range of addresses cut into windows, each  *)
(* of which shows a page of a chip; and the bits of a value that a program *)
(* writes to a board.                                                      *)
(*                                                                         *)
(* A bank's address is modelled by the number of its page, the address     *)
(* divided by the window.  The code selects a page with "bank & mask",     *)
(* where mask is the number of pages less one: for the powers of two of    *)
(* which chips are made this is the remainder.                             *)
(***************************************************************************)
EXTENDS Naturals

(* Bit number k of a value, and its n bits from k upwards. *)
Bit(val, k)     == (val \div 2^k) % 2 = 1
Bits(val, k, n) == (val \div 2^k) % 2^n
Even(n)         == 2 * (n \div 2)

(* The 4 KB block of an address: its first hexadecimal digit. *)
Block(addr) == addr \div \h1000

(* A range of that many windows, in front of a chip of that many pages. *)
NewBanks(windows, pages) ==
  [pages |-> IF pages = 0 THEN 1 ELSE pages, page |-> [w \in 0..(windows - 1) |-> w]]

(* Mutant: the bank is not brought within the chip. *)
SetBankAnyhow(b, slot, bank) == [b EXCEPT !.page[slot] = bank]

SetBank(b, slot, bank) == [b EXCEPT !.page[slot] = bank % b.pages]

(* Only the first of the pages is brought within the chip. *)
SetRange(b, first, last, bank) ==
  [b EXCEPT !.page = [w \in DOMAIN b.page |->
     IF w \in first..last THEN (bank % b.pages) + (w - first) ELSE b.page[w]]]

LastPage(b) == b.pages - 1

(* Every window shows a page of the chip: debug_assert! in set and         *)
(* set_range, and what translate() relies on.                              *)
WithinChip(b) == \A w \in DOMAIN b.page : b.page[w] < b.pages
=============================================================================
