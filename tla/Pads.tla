-------------------------------- MODULE Pads --------------------------------
(***************************************************************************)
(* The controllers: the four joypads, which the program reads bit by bit   *)
(* at $4016 and $4017, alone, through a Four Score or a Satellite          *)
(* (src/src/input.rs), and what the user's keys, sticks and menus do to    *)
(* their buttons (src/src/nes/event.rs).                                   *)
(*                                                                         *)
(* The user plays or has paused; in the menu, which pauses, the adapter is *)
(* chosen.  The turbo's timer is abstracted to any moment.  The zapper is  *)
(* left out.                                                               *)
(***************************************************************************)
EXTENDS Naturals, Sequences, FiniteSets

CONSTANTS
  Order,      (* The buttons in the order of the report: eight.            *)
  InputMaps,  (* Sets of <<slot, button>>: what the keys are mapped to; a  *)
              (* stick counts as the button "Stick" of its slot.           *)
  MaxReads    (* Bound: reads counted after a strobe.                      *)

ASSUME PadsAssumption ==
  /\ Order \in Seq(STRING) /\ Len(Order) > 0
  /\ \A keys \in InputMaps : keys \subseteq (0..3) \X {"A", "B", "TurboA", "TurboB", "Select", "Start", "Up", "Down", "Left", "Right", "Stick"}
  /\ MaxReads \in Nat /\ MaxReads > 3 * Len(Order)

VARIABLES
  pads,        (* 0..3 the joypads, 4 and 5 the signatures of a Four Score. *)
  four_player, (* The adapter.                                             *)
  playing,     (* mode = Playing.                                          *)
  input_map,   (* config.input_map: the keys and sticks.                   *)
  concurrent,  (* config.concurrent_dpad.                                  *)
  held,        (* The keys that the user holds down.                       *)
  missed,      (* Buttons that no key accounts for: let go while the game  *)
               (* was paused, of a saved state, or of a centred stick.     *)
  centred,     (* The stick was the last to move, to its centre.           *)
  reads        (* Reads of a port since its strobe fell.                   *)

pad_vars == <<pads, four_player, playing, input_map, concurrent, held, missed, centred, reads>>

Ports  == 0..1
Length == Len(Order)

-----------------------------------------------------------------------------
(* Joypad. *)

NewPad == [buttons |-> {}, index |-> 0, strobe |-> FALSE]

Pressed(pad) == pad.index < Length => Order[pad.index + 1] \in pad.buttons

ReadPad(pad) == [pad EXCEPT !.index = IF ~pad.strobe /\ @ < Length THEN @ + 1 ELSE @]

(* Mutant: the report goes on where it was. *)
WritePadOn(pad, strobe) == [pad EXCEPT !.strobe = strobe]

WritePad(pad, strobe) ==
  [pad EXCEPT !.strobe = strobe, !.index = IF pad.strobe /\ ~strobe THEN 0 ELSE @]

SetButton(pad, button, pressed) ==
  [pad EXCEPT !.buttons = IF pressed THEN @ \cup {button} ELSE @ \ {button}]

-----------------------------------------------------------------------------
(* Input::read. *)

(* The pads that a read of the port takes on: with a Four Score the first  *)
(* of three that has not reported all its bits.                            *)
Answering(port) ==
  CASE four_player = "Disabled"  -> {port}
    [] four_player = "Satellite" -> {port, port + 2}
    [] four_player = "FourScore" ->
         {p \in {port, port + 2, port + 4} :
            pads[p].index < Length /\ \A q \in {port, port + 2, port + 4} : q < p => pads[q].index = Length}

(* The bits 0 and 1 of the port. *)
Peek(port) ==
  << \A p \in Answering(port) : p # port + 2 \/ four_player = "FourScore" => Pressed(pads[p]),
     four_player = "Satellite" /\ Pressed(pads[port + 2]) >>

ReadPort ==
  /\ playing
  /\ \E port \in Ports :
       /\ pads' = [p \in 0..5 |-> IF p \in Answering(port) THEN ReadPad(pads[p]) ELSE pads[p]]
       /\ reads' = [reads EXCEPT ![port] = IF pads[port].strobe \/ @ = MaxReads THEN @ ELSE @ + 1]
  /\ UNCHANGED <<four_player, playing, input_map, concurrent, held, missed, centred>>

(* A write of $4016. *)
WriteStrobe ==
  /\ playing
  /\ \E strobe \in BOOLEAN :
       /\ pads' = [p \in 0..5 |-> WritePad(pads[p], strobe)]
       /\ reads' = IF pads[0].strobe /\ ~strobe THEN [port \in Ports |-> 0] ELSE reads
  /\ UNCHANGED <<four_player, playing, input_map, concurrent, held, missed, centred>>

Opposite == [Left |-> "Right", Right |-> "Left", Up |-> "Down", Down |-> "Up"]
Turbo    == [TurboA |-> "A", TurboB |-> "B"]

(* Input::clock, when its timer has run out. *)
TurboClock ==
  /\ playing
  /\ pads' = [p \in 0..5 |->
       LET toggled == {Turbo[t] : t \in pads[p].buttons \cap DOMAIN Turbo}
           buttons == pads[p].buttons
       IN [pads[p] EXCEPT !.buttons = (buttons \ toggled) \cup (toggled \ buttons)]]
  /\ UNCHANGED <<four_player, playing, input_map, concurrent, held, missed, centred, reads>>

-----------------------------------------------------------------------------
(* handle_joypad_pressed. *)

(* The buttons that the event of a button lets go or sets.                 *)
Also(button) == {button} \cup {Turbo[t] : t \in {button} \cap DOMAIN Turbo}

Without(pad, button) ==
  IF button \in DOMAIN Opposite /\ ~concurrent THEN SetButton(pad, Opposite[button], FALSE) ELSE pad

(* Mutant: only the turbo itself is let go. *)
HandledAlone(pad, button, pressed) ==
  SetButton(IF pressed THEN Without(pad, button) ELSE pad, button, pressed)

Handled(pad, button, pressed) ==
  LET set == SetButton(IF pressed THEN Without(pad, button) ELSE pad, button, pressed)
  IN IF button \in DOMAIN Turbo THEN SetButton(set, Turbo[button], pressed) ELSE set

Stick(slot) == <<slot, "Stick">>
Sticks      == {Stick(slot) : slot \in 0..3}

(* A key goes down or up; only while playing is that handled.              *)
PressKey ==
  \E key \in input_map \ (held \cup Sticks) :
    /\ held' = held \cup {key}
    /\ IF playing
       THEN /\ pads' = [pads EXCEPT ![key[1]] = Handled(@, key[2], TRUE)]
            /\ missed' = missed \ {<<key[1], b>> : b \in Also(key[2])}
            /\ centred' = FALSE
       ELSE UNCHANGED <<pads, missed, centred>>
    /\ UNCHANGED <<four_player, playing, input_map, concurrent, reads>>

ReleaseKey ==
  \E key \in held :
    LET let_go == {<<key[1], b>> : b \in Also(key[2])}
    IN /\ held' = held \ {key}
       /\ IF playing
          THEN /\ pads' = [pads EXCEPT ![key[1]] = Handled(@, key[2], FALSE)]
               /\ missed' = missed \ let_go
          ELSE /\ missed' = missed \cup let_go
               /\ UNCHANGED pads
       /\ UNCHANGED <<four_player, playing, input_map, concurrent, centred, reads>>

(* handle_controller_axis: the stick of a controller, mapped as            *)
(* config.json maps it.  In the centre it is "pressed" as well, so the     *)
(* first of the buttons of ZeroAxis is pressed, and no other comes to it.  *)
MoveStick ==
  \E slot \in {s \in 0..3 : Stick(s) \in input_map}, direction \in {"None", "Negative", "Positive"} :
    LET button == IF direction = "Positive" THEN "Right" ELSE "Left"
    IN /\ playing
       /\ pads' = [pads EXCEPT ![slot] = Handled(@, button, TRUE)]
       /\ missed' = missed \cup {<<slot, button>>}
       /\ centred' = (direction = "None")
       /\ UNCHANGED <<four_player, playing, input_map, concurrent, held, reads>>

-----------------------------------------------------------------------------
(* The game is paused, or goes on. *)
TogglePause ==
  /\ playing' = ~playing
  /\ UNCHANGED <<pads, four_player, input_map, concurrent, held, missed, centred, reads>>

ResetPad(pad) == NewPad

(* Another adapter is chosen in the menu. *)
SetFourPlayer ==
  /\ ~playing
  /\ \E adapter \in {"Disabled", "FourScore", "Satellite"} :
       /\ four_player' = adapter
       /\ pads' = [p \in 0..5 |-> ResetPad(pads[p])]
  /\ reads' = [port \in Ports |-> 0]
  /\ missed' = {} /\ centred' = FALSE
  /\ UNCHANGED <<playing, input_map, concurrent, held>>

(* A state is loaded or rewound to, with the buttons of its moment; that   *)
(* it was at another bit of the reports, or of another adapter, is left    *)
(* out.                                                                    *)
LoadState ==
  /\ \E pressed \in SUBSET (input_map \ Sticks) :
       LET buttons(slot) == {k[2] : k \in {key \in pressed : key[1] = slot}}
       IN /\ pads' = [p \in 0..5 |-> [pads[p] EXCEPT !.buttons = buttons(p)]]
          /\ missed' = pressed \cup {<<k[1], Turbo[k[2]]>> : k \in {key \in pressed : key[2] \in DOMAIN Turbo}}
  /\ centred' = FALSE
  /\ UNCHANGED <<four_player, playing, input_map, concurrent, held, reads>>

-----------------------------------------------------------------------------
(* After Nes::new, which sets the adapter of the configuration. *)
PadsInit ==
  /\ pads = [p \in 0..5 |-> NewPad]
  /\ four_player \in {"Disabled", "FourScore", "Satellite"}
  /\ playing = FALSE
  /\ input_map \in InputMaps /\ concurrent \in BOOLEAN
  /\ held = {} /\ missed = {} /\ centred = FALSE
  /\ reads = [port \in Ports |-> 0]

PadsNext ==
  \/ ReadPort \/ WriteStrobe \/ TurboClock \/ PressKey \/ ReleaseKey \/ MoveStick
  \/ TogglePause \/ SetFourPlayer \/ LoadState

-----------------------------------------------------------------------------
(* What the controllers promise. *)

(* The bits that a port reports, counted from the fall of the strobe.      *)
Bit0(port, n) ==
  LET pad == IF four_player = "FourScore" THEN port + (2 * (n \div Length)) ELSE port
      end == IF four_player = "FourScore" THEN 3 * Length ELSE Length
  IN n < end => Order[(n % Length) + 1] \in pads[pad].buttons

(* However the reads of the two ports, the strobes, the keys and a change  *)
(* of the adapter fall, the n-th read of a port after its strobe gives the *)
(* n-th button of the first pad, then with a Four Score of the second and  *)
(* its signature, and with a Satellite that of both at once; and ones from *)
(* then on (Input::read, Joypad::read and write).                          *)
ReadsInOrder ==
  \A port \in Ports : ~pads[port].strobe =>
    Peek(port) = << Bit0(port, reads[port]),
                    /\ four_player = "Satellite"
                    /\ reads[port] < Length => Order[reads[port] + 1] \in pads[port + 2].buttons >>

(* A button that is down has a key that is down, its own or the turbo's;   *)
(* else it was let go while the game was paused, or came with a state      *)
(* ("Ensure that primary button isn't stuck pressed",                      *)
(* handle_joypad_pressed).                                                 *)
NoStuckButton ==
  \A slot \in 0..3 : \A button \in pads[slot].buttons :
    \/ <<slot, button>> \in held \cup missed
    \/ \E t \in DOMAIN Turbo : Turbo[t] = button /\ <<slot, t>> \in held \cup missed

(* With the stick in its centre, none of its buttons is pressed: "No       *)
(* direction, axis is in a deadzone/not pressed".                          *)
CentreReleases ==
  \A slot \in 0..3 : centred /\ Stick(slot) \in input_map => pads[slot].buttons \cap {"Left", "Right"} = {}
=============================================================================
