----------------------------- MODULE OamTransfer -----------------------------
(***************************************************************************)
(* What a program is promised of a sprite page copy, without cycles, halts *)
(* or sample fetches: a write to $4014 asks for a page; its bytes are then *)
(* delivered to OAM one at a time, in order, each to the address after the *)
(* last, until all are; and while they are, the program cannot ask for     *)
(* another page or move the address.  A byte that meets a rendering PPU is *)
(* lost and moves the address by four.                                     *)
(***************************************************************************)
EXTENDS Integers

CONSTANTS OamLen, Pages, OamStarts, NoPage, NoByte, ByteAt(_, _)

VARIABLES
  asked,      (* A page was asked for and is not delivered yet.             *)
  page,       (* The page.                                                  *)
  delivered,  (* Bytes of it delivered so far.                              *)
  oamaddr, oamdata

vars == <<asked, page, delivered, oamaddr, oamdata>>

Wrap(a) == IF a >= OamLen THEN a - OamLen ELSE a

Init ==
  /\ asked = FALSE /\ page = NoPage /\ delivered = 0
  /\ oamaddr = 0
  /\ oamdata = [i \in 0..(OamLen - 1) |-> NoByte]

Ask(p) ==
  /\ delivered = 0
  /\ asked' = TRUE
  /\ page' = p
  /\ UNCHANGED <<delivered, oamaddr, oamdata>>

Move(addr) ==
  /\ delivered = 0
  /\ oamaddr' = addr
  /\ UNCHANGED <<asked, page, delivered, oamdata>>

Advance ==
  /\ asked
  /\ delivered' = IF delivered + 1 = OamLen THEN 0 ELSE delivered + 1
  /\ asked' = (delivered + 1 # OamLen)
  /\ UNCHANGED page

Deliver ==
  /\ Advance
  /\ oamdata' = [oamdata EXCEPT ![oamaddr] = ByteAt(page, delivered)]
  /\ oamaddr' = Wrap(oamaddr + 1)

Lose ==
  /\ Advance
  /\ oamaddr' = Wrap(oamaddr + 4)
  /\ UNCHANGED oamdata

Next ==
  \/ \E p \in Pages : Ask(p)
  \/ \E addr \in OamStarts \union {0} : Move(addr)
  \/ Deliver
  \/ Lose

Spec == Init /\ [][Next]_vars
=============================================================================
