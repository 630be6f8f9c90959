------------------------------ MODULE MCScroll ------------------------------
(* Scroll for TLC. *)
EXTENDS Scroll

(* The picture begins in the last column and the last row of a screen; the *)
(* program may move it to the last of the rows that hold palettes.         *)
CornerCases == {[nt |-> 2, x |-> 6, y |-> FineRows * (Rows - 2) - 1]}
RowCases    == {FineRows * Rows - 1}
=============================================================================
