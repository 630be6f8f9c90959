--------------------------- MODULE MCFrameCounter ---------------------------
(* FrameCounter for TLC: the tables of both regions, scaled down.  The last *)
(* two steps of four-step mode are a cycle long, as they are in the code.   *)
EXTENDS FrameCounter, Sequences

Table(row) == [s \in Steps |-> row[s + 1]]

ScaledCycles ==
  [r \in Regions |-> [m \in Modes |->
    IF r = "Ntsc" THEN Table(IF m = "Step4" THEN <<3, 2, 4, 3, 1, 1>> ELSE <<3, 2, 4, 4, 2, 1>>)
                  ELSE Table(IF m = "Step4" THEN <<4, 5, 3, 4, 1, 1>> ELSE <<4, 5, 3, 5, 3, 1>>)]]
=============================================================================
