---------------------------- MODULE MCSpriteEval ----------------------------
(* SpriteEval for TLC, with the constants of the configurations. *)
EXTENDS SpriteEval
=============================================================================
