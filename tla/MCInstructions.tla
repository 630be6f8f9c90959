--------------------------- MODULE MCInstructions ---------------------------
(* Instructions for TLC: every operation, with a stack of one byte; and    *)
(* those that move the stack and the I flag, with one that holds a frame.  *)
EXTENDS Instructions

All   == [ops |-> {i.op : i \in Table}, written |-> {"ram", "$4014"}, nmis |-> TRUE, resets |-> TRUE,
          stack |-> 1, frames |-> 0]
Calls == [ops |-> {"JSR", "RTS", "RTI", "BRK", "PLP", "TXS"}, written |-> {"ram"}, nmis |-> FALSE,
          resets |-> FALSE, stack |-> 4, frames |-> 2]

MCPrograms == {All, Calls}
=============================================================================
