------------------------------ MODULE Devices ------------------------------
(***************************************************************************)
(* What the program reaches over its bus beside the parts that have a run  *)
(* of their own: the board of its cartridge, the sound channels, the       *)
(* controllers and the memory of the PPU.  In the abstractions chosen they *)
(* have no state in common, so that a behaviour is one of a board, of a    *)
(* channel, of the controllers or of the memory, while the others rest.    *)
(***************************************************************************)
EXTENDS Boards, Channels, Pads, VideoMemory

(* The part that is in use. *)
VARIABLE device

NoCart ==
  [kind |-> "Nrom", prg |-> 1, chr |-> 1, ram |-> 1, mirroring |-> "Horizontal", submapper |-> 0,
   revision |-> "", writes |-> {}, settings |-> {}, uses |-> {}]
NoGame ==
  [mirroring |-> "Horizontal", modes |-> {}, reset |-> "Kept", chr_ram |-> FALSE, exram |-> FALSE,
   hi |-> {}, lo |-> {}]

(* A part that rests. *)
NoBoard  == BoardInit(NoCart)
NoTune   == tune = Silence /\ chan = NewTriangle /\ since = Unknown
NoPads   == PadsInit /\ four_player = "Disabled" /\ input_map = {} /\ ~concurrent
NoMemory == MemoryInit(NoGame)

Init ==
  \/ device = "board"   /\ NoTune /\ NoPads /\ NoMemory /\ \E cart \in Carts : BoardInit(cart)
  \/ device = "channel" /\ NoBoard /\ NoPads /\ NoMemory /\ ChannelInit
  \/ device = "pads"    /\ NoBoard /\ NoTune /\ NoMemory /\ PadsInit
  \/ device = "memory"  /\ NoBoard /\ NoTune /\ NoPads /\ \E g \in Games : MemoryInit(g)

Next ==
  /\ \/ device = "board"   /\ BoardNext   /\ UNCHANGED <<channel_vars, pad_vars, memory_vars>>
     \/ device = "channel" /\ ChannelNext /\ UNCHANGED <<board_vars, pad_vars, memory_vars>>
     \/ device = "pads"    /\ PadsNext    /\ UNCHANGED <<board_vars, channel_vars, memory_vars>>
     \/ device = "memory"  /\ MemoryNext  /\ UNCHANGED <<board_vars, channel_vars, pad_vars>>
  /\ UNCHANGED device

vars == <<device, board_vars, channel_vars, pad_vars, memory_vars>>

Spec == Init /\ [][Next]_vars
=============================================================================
