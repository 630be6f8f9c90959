--------------------------- MODULE DevicesProofs ---------------------------
(***************************************************************************)
(* Theorems about the boards, the controllers, the sound channels and the  *)
(* memory of the PPU, for any cartridges and size of the picture, any      *)
(* order of the buttons and length of the report, any maps of keys, any    *)
(* tunes and any games, with their proofs.                                 *)
(*                                                                         *)
(* Each part has an inductive invariant of its own, which its steps keep   *)
(* and which the other parts do not touch:                                 *)
(*   BoardInv    what BoardsProofs shows of the boards;                    *)
(*   PadsInv     how far each pad has told its bits after so many reads,   *)
(*               and which keys account for the buttons that are down;     *)
(*   ChannelInv  the ranges of the kind of channel, and the envelope, the  *)
(*               counter or the saw of a note that is followed;            *)
(*   MemoryInv   cell by cell, that the memories behind the mirrors hold   *)
(*               what the program stored at its place.                     *)
(***************************************************************************)
EXTENDS Devices, BoardsProofs

-----------------------------------------------------------------------------
(* The controllers (Pads). *)

Names    == {"A", "B", "TurboA", "TurboB", "Select", "Start", "Up", "Down", "Left", "Right", "Stick"}
Adapters == {"Disabled", "FourScore", "Satellite"}
Joypad   == [buttons : SUBSET Names, index : 0..Length, strobe : BOOLEAN]

PadTypes ==
  /\ pads \in [0..5 -> Joypad]
  /\ four_player \in Adapters
  /\ input_map \subseteq (0..3) \X Names
  /\ held \subseteq input_map
  /\ missed \subseteq (0..3) \X Names
  /\ reads \in [Ports -> 0..MaxReads]

(* The length of the report. *)
LEMMA LengthType == Length \in Nat \ {0} /\ MaxReads \in Nat /\ MaxReads > 3 * Length
BY PadsAssumption, SMT DEF Length

LEMMA TurboNames == DOMAIN Turbo = {"TurboA", "TurboB"} /\ Turbo["TurboA"] = "A" /\ Turbo["TurboB"] = "B"
BY DEF Turbo
LEMMA OppositeNames == DOMAIN Opposite \subseteq Names /\ \A b \in DOMAIN Opposite : Opposite[b] \in Names
BY DEF Opposite, Names

LEMMA AlsoNames ==
  ASSUME NEW button \in Names
  PROVE  Also(button) \subseteq Names /\ button \in Also(button)
         /\ (button \in DOMAIN Turbo => Turbo[button] \in Also(button))
         /\ \A c \in Also(button) : c = button \/ (button \in DOMAIN Turbo /\ c = Turbo[button])
BY TurboNames DEF Also, Names

LEMMA SetOn ==
  ASSUME NEW pad \in Joypad, NEW button \in Names, NEW new, new = SetButton(pad, button, TRUE)
  PROVE  /\ new \in Joypad /\ new.index = pad.index /\ new.strobe = pad.strobe
         /\ new.buttons = pad.buttons \cup {button}
BY DEF SetButton, Joypad

LEMMA SetOff ==
  ASSUME NEW pad \in Joypad, NEW button \in Names, NEW new, new = SetButton(pad, button, FALSE)
  PROVE  /\ new \in Joypad /\ new.index = pad.index /\ new.strobe = pad.strobe
         /\ new.buttons = pad.buttons \ {button}
BY DEF SetButton, Joypad

(* What the press of a button does to a joypad. *)
LEMMA PressedPad ==
  ASSUME NEW pad \in Joypad, NEW button \in Names, NEW new, new = Handled(pad, button, TRUE)
  PROVE  /\ new \in Joypad /\ new.index = pad.index /\ new.strobe = pad.strobe
         /\ new.buttons \subseteq pad.buttons \cup Also(button)
<1>1. PICK base : base = Without(pad, button)
  OBVIOUS
<1>2. PICK set : set = SetButton(base, button, TRUE)
  OBVIOUS
<1>3. new = IF button \in DOMAIN Turbo THEN SetButton(set, Turbo[button], TRUE) ELSE set
  BY <1>1, <1>2 DEF Handled
<1>4. /\ base \in Joypad /\ base.index = pad.index /\ base.strobe = pad.strobe
      /\ base.buttons \subseteq pad.buttons
  <2>1. CASE button \in DOMAIN Opposite /\ ~concurrent
    <3>1. PICK other : other = Opposite[button] /\ other \in Names
      BY <2>1, OppositeNames
    <3>2. base = SetButton(pad, other, FALSE)
      BY <1>1, <2>1, <3>1 DEF Without
    <3>3. other \in Names
      BY <3>1
    <3>4. /\ base \in Joypad /\ base.index = pad.index /\ base.strobe = pad.strobe
          /\ base.buttons = pad.buttons \ {other}
      BY <3>2, <3>3, SetOff
    <3> QED BY <3>4
  <2>2. CASE ~(button \in DOMAIN Opposite /\ ~concurrent)
    BY <1>1, <2>2 DEF Without
  <2> QED BY <2>1, <2>2
<1>5. /\ set \in Joypad /\ set.index = pad.index /\ set.strobe = pad.strobe
      /\ set.buttons = base.buttons \cup {button}
  BY <1>2, <1>4, SetOn, ZenonT(60)
<1>6. CASE button \in DOMAIN Turbo
  <2>0. PICK other : other = Turbo[button] /\ other \in Names
    BY <1>6, TurboNames DEF Names
  <2>1. PICK both : both = SetButton(set, other, TRUE)
    OBVIOUS
  <2>2. other \in Names
    BY <2>0
  <2>3. /\ both \in Joypad /\ both.index = set.index /\ both.strobe = set.strobe
        /\ both.buttons = set.buttons \cup {other}
    BY <1>5, <2>1, <2>2, SetOn, ZenonT(60)
  <2>4. new = both
    BY <1>3, <1>6, <2>0, <2>1
  <2> QED BY <1>4, <1>5, <1>6, <2>0, <2>3, <2>4, AlsoNames
<1>7. CASE button \notin DOMAIN Turbo
  BY <1>3, <1>4, <1>5, <1>7, AlsoNames
<1> QED BY <1>6, <1>7

(* What its release does. *)
LEMMA ReleasedPad ==
  ASSUME NEW pad \in Joypad, NEW button \in Names, NEW new, new = Handled(pad, button, FALSE)
  PROVE  /\ new \in Joypad /\ new.index = pad.index /\ new.strobe = pad.strobe
         /\ new.buttons \subseteq pad.buttons \ Also(button)
<1>1. PICK set : set = SetButton(pad, button, FALSE)
  OBVIOUS
<1>2. new = IF button \in DOMAIN Turbo THEN SetButton(set, Turbo[button], FALSE) ELSE set
  BY <1>1 DEF Handled
<1>3. /\ set \in Joypad /\ set.index = pad.index /\ set.strobe = pad.strobe
      /\ set.buttons = pad.buttons \ {button}
  BY <1>1, SetOff, ZenonT(60)
<1>4. CASE button \in DOMAIN Turbo
  <2>0. PICK other : other = Turbo[button] /\ other \in Names
    BY <1>4, TurboNames DEF Names
  <2>1. PICK both : both = SetButton(set, other, FALSE)
    OBVIOUS
  <2>2. other \in Names
    BY <2>0
  <2>3. /\ both \in Joypad /\ both.index = set.index /\ both.strobe = set.strobe
        /\ both.buttons = set.buttons \ {other}
    BY <1>3, <2>1, <2>2, SetOff, ZenonT(60)
  <2>4. new = both
    BY <1>2, <1>4, <2>0, <2>1
  <2> QED BY <1>3, <1>4, <2>0, <2>3, <2>4, AlsoNames
<1>5. CASE button \notin DOMAIN Turbo
  BY <1>2, <1>3, <1>5, AlsoNames
<1> QED BY <1>4, <1>5

(* One button goes down, or up. *)
LEMMA PressOne ==
  ASSUME PadTypes, NEW slot \in 0..3, NEW button \in Names
  PROVE  pads' = [pads EXCEPT ![slot] = Handled(@, button, TRUE)] =>
           /\ pads' \in [0..5 -> Joypad]
           /\ \A p \in 0..5 : pads'[p].index = pads[p].index /\ pads'[p].strobe = pads[p].strobe
           /\ \A p \in 0..5 : p # slot => pads'[p] = pads[p]
           /\ pads'[slot].buttons \subseteq pads[slot].buttons \cup Also(button)
<1>1. SUFFICES ASSUME pads' = [pads EXCEPT ![slot] = Handled(@, button, TRUE)]
               PROVE  /\ pads' \in [0..5 -> Joypad]
                      /\ \A p \in 0..5 : pads'[p].index = pads[p].index /\ pads'[p].strobe = pads[p].strobe
                      /\ \A p \in 0..5 : p # slot => pads'[p] = pads[p]
                      /\ pads'[slot].buttons \subseteq pads[slot].buttons \cup Also(button)
  OBVIOUS
<1>2. PICK old : old = pads[slot]
  OBVIOUS
<1>3. PICK pad : pad = Handled(old, button, TRUE)
  OBVIOUS
<1>4. old \in Joypad
  BY <1>2 DEF PadTypes
<1>5. /\ pad \in Joypad /\ pad.index = old.index /\ pad.strobe = old.strobe
      /\ pad.buttons \subseteq old.buttons \cup Also(button)
  BY <1>3, <1>4, PressedPad
<1>6. pads' = [pads EXCEPT ![slot] = pad]
  BY <1>1, <1>2, <1>3
<1>7. /\ pads' \in [0..5 -> Joypad] /\ pads'[slot] = pad
      /\ \A p \in 0..5 : p # slot => pads'[p] = pads[p]
  BY <1>5, <1>6 DEF PadTypes
<1> QED BY <1>2, <1>5, <1>7

LEMMA ReleaseOne ==
  ASSUME PadTypes, NEW slot \in 0..3, NEW button \in Names
  PROVE  pads' = [pads EXCEPT ![slot] = Handled(@, button, FALSE)] =>
           /\ pads' \in [0..5 -> Joypad]
           /\ \A p \in 0..5 : pads'[p].index = pads[p].index /\ pads'[p].strobe = pads[p].strobe
           /\ \A p \in 0..5 : p # slot => pads'[p] = pads[p]
           /\ pads'[slot].buttons \subseteq pads[slot].buttons \ Also(button)
<1>1. SUFFICES ASSUME pads' = [pads EXCEPT ![slot] = Handled(@, button, FALSE)]
               PROVE  /\ pads' \in [0..5 -> Joypad]
                      /\ \A p \in 0..5 : pads'[p].index = pads[p].index /\ pads'[p].strobe = pads[p].strobe
                      /\ \A p \in 0..5 : p # slot => pads'[p] = pads[p]
                      /\ pads'[slot].buttons \subseteq pads[slot].buttons \ Also(button)
  OBVIOUS
<1>2. PICK old : old = pads[slot]
  OBVIOUS
<1>3. PICK pad : pad = Handled(old, button, FALSE)
  OBVIOUS
<1>4. old \in Joypad
  BY <1>2 DEF PadTypes
<1>5. /\ pad \in Joypad /\ pad.index = old.index /\ pad.strobe = old.strobe
      /\ pad.buttons \subseteq old.buttons \ Also(button)
  BY <1>3, <1>4, ReleasedPad
<1>6. pads' = [pads EXCEPT ![slot] = pad]
  BY <1>1, <1>2, <1>3
<1>7. /\ pads' \in [0..5 -> Joypad] /\ pads'[slot] = pad
      /\ \A p \in 0..5 : p # slot => pads'[p] = pads[p]
  BY <1>5, <1>6 DEF PadTypes
<1> QED BY <1>2, <1>5, <1>7

(* What the k-th pad in turn has told of its bits after n reads. *)
Told(n, k) == IF n <= k * Length THEN 0 ELSE IF n >= (k + 1) * Length THEN Length ELSE n - (k * Length)

InStep ==
  /\ \A p \in 0..5 : pads[p].strobe = pads[0].strobe
  /\ \A jack \in Ports :
       /\ pads[jack].index = Told(reads[jack], 0)
       /\ four_player = "Satellite" => pads[jack + 2].index = Told(reads[jack], 0)
       /\ four_player = "FourScore" => pads[jack + 2].index = Told(reads[jack], 1) /\ pads[jack + 4].index = Told(reads[jack], 2)

PadsInv == PadTypes /\ NoStuckButton /\ InStep

(* The keys that may have pressed a button. *)
Accounted(slot, button, keys) ==
  \/ <<slot, button>> \in keys
  \/ \E t \in DOMAIN Turbo : Turbo[t] = button /\ <<slot, t>> \in keys

LEMMA StuckButton ==
  NoStuckButton <=> \A slot \in 0..3 : \A button \in pads[slot].buttons : Accounted(slot, button, held \cup missed)
BY DEF NoStuckButton, Accounted

(* Steps that leave the reports alone. *)
LEMMA ReportsKept ==
  ASSUME InStep, UNCHANGED <<four_player, reads>>,
         \A p \in 0..5 : pads'[p].index = pads[p].index /\ pads'[p].strobe = pads[p].strobe
  PROVE  InStep'
<1>1. \A jack \in Ports : jack \in 0..5 /\ jack + 2 \in 0..5 /\ jack + 4 \in 0..5
  BY DEF Ports
<1>2. reads' = reads /\ four_player' = four_player
  OBVIOUS
<1> QED BY <1>1, <1>2 DEF InStep

(* Steps that leave the buttons and the keys alone. *)
LEMMA ButtonsKept ==
  ASSUME NoStuckButton, UNCHANGED <<held, missed>>, \A p \in 0..5 : pads'[p].buttons = pads[p].buttons
  PROVE  NoStuckButton'
<1>1. held' = held /\ missed' = missed
  OBVIOUS
<1>2. \A slot \in 0..3 : pads'[slot].buttons = pads[slot].buttons
  OBVIOUS
<1> QED BY <1>1, <1>2 DEF NoStuckButton

LEMMA ToldStart == Told(0, 0) = 0 /\ Told(0, 1) = 0 /\ Told(0, 2) = 0
BY LengthType DEF Told

LEMMA ToldNext ==
  ASSUME NEW n \in 0..MaxReads, NEW m, m = IF n = MaxReads THEN n ELSE n + 1
  PROVE  /\ Told(m, 0) = IF Told(n, 0) < Length THEN Told(n, 0) + 1 ELSE Told(n, 0)
         /\ Told(m, 1) = IF Told(n, 0) = Length /\ Told(n, 1) < Length THEN Told(n, 1) + 1 ELSE Told(n, 1)
         /\ Told(m, 2) = IF Told(n, 0) = Length /\ Told(n, 1) = Length /\ Told(n, 2) < Length
                         THEN Told(n, 2) + 1 ELSE Told(n, 2)
BY LengthType DEF Told

LEMMA PadsStart == PadsInit => PadsInv
<1> SUFFICES ASSUME PadsInit PROVE PadsInv
  OBVIOUS
<1>1. PadTypes
  BY PadsAssumption, LengthType DEF PadsInit, PadTypes, NewPad, Joypad, Adapters, Names, Ports
<1>2. NoStuckButton
  BY DEF PadsInit, NoStuckButton, NewPad
<1>3. InStep
  BY ToldStart DEF PadsInit, InStep, NewPad, Ports
<1> QED BY <1>1, <1>2, <1>3 DEF PadsInv

LEMMA PressStep ==
  ASSUME PadsInv, PressKey
  PROVE  PadsInv'
<1>1. PICK key \in input_map \ (held \cup Sticks) :
        /\ held' = held \cup {key}
        /\ IF playing
           THEN /\ pads' = [pads EXCEPT ![key[1]] = Handled(@, key[2], TRUE)]
                /\ missed' = missed \ {<<key[1], b>> : b \in Also(key[2])}
                /\ centred' = FALSE
           ELSE UNCHANGED <<pads, missed, centred>>
        /\ UNCHANGED <<four_player, playing, input_map, concurrent, reads>>
  BY DEF PressKey
<1>2. PICK slot \in 0..3, button \in Names : key = <<slot, button>>
  BY <1>1 DEF PadsInv, PadTypes
<1>3. UNCHANGED <<four_player, input_map, reads>> /\ held' = held \cup {<<slot, button>>}
      /\ <<slot, button>> \in input_map
  BY <1>1, <1>2
<1>4. CASE playing
  <2>1. /\ pads' = [pads EXCEPT ![slot] = Handled(@, button, TRUE)]
        /\ missed' = missed \ {<<slot, b>> : b \in Also(button)}
    BY <1>1, <1>2, <1>4
  <2>2. /\ pads' \in [0..5 -> Joypad]
        /\ \A p \in 0..5 : pads'[p].index = pads[p].index /\ pads'[p].strobe = pads[p].strobe
        /\ \A p \in 0..5 : p # slot => pads'[p] = pads[p]
        /\ pads'[slot].buttons \subseteq pads[slot].buttons \cup Also(button)
    BY <2>1, PressOne DEF PadsInv
  <2>3. PadTypes'
    BY <1>3, <2>1, <2>2 DEF PadsInv, PadTypes
  <2>4. InStep'
    BY <1>3, <2>2, ReportsKept DEF PadsInv
  <2>5. ASSUME NEW s \in 0..3, NEW b \in pads'[s].buttons
        PROVE  Accounted(s, b, held' \cup missed')
    <3>1. CASE s = slot /\ b \in Also(button)
      BY <1>3, <3>1, AlsoNames DEF Accounted
    <3>2. CASE ~(s = slot /\ b \in Also(button))
      <4>1. b \in pads[s].buttons
        BY <2>2, <2>5, <3>2
      <4>2. Accounted(s, b, held \cup missed)
        BY <4>1, StuckButton DEF PadsInv
      <4>3. \A t : <<s, t>> \in held \cup missed => <<s, t>> \in held' \cup missed' \/ (s = slot /\ t \in Also(button))
        BY <1>3, <2>1
      <4>4. CASE s # slot
        BY <4>2, <4>3, <4>4 DEF Accounted
      <4>5. CASE s = slot
        <5>1. b \notin Also(button)
          BY <3>2, <4>5
        <5>2. CASE <<s, b>> \in held \cup missed
          BY <4>3, <5>1, <5>2 DEF Accounted
        <5>3. ASSUME NEW t \in DOMAIN Turbo, Turbo[t] = b, <<s, t>> \in held \cup missed
              PROVE  Accounted(s, b, held' \cup missed')
          <6>1. t # button
            BY <5>1, <5>3, AlsoNames
          <6>2. t \notin Also(button)
            BY <5>3, <6>1, AlsoNames, TurboNames
          <6> QED BY <4>3, <5>3, <6>2 DEF Accounted
        <5> QED BY <4>2, <5>2, <5>3 DEF Accounted
      <4> QED BY <4>4, <4>5
    <3> QED BY <3>1, <3>2
  <2>6. NoStuckButton'
    BY <2>5 DEF NoStuckButton, Accounted
  <2> QED BY <2>3, <2>4, <2>6 DEF PadsInv
<1>5. CASE ~playing
  <2>1. UNCHANGED <<pads, missed>>
    BY <1>1, <1>5
  <2>2. PadTypes'
    BY <1>3, <2>1 DEF PadsInv, PadTypes
  <2>3. InStep'
    BY <1>3, <2>1, ReportsKept DEF PadsInv
  <2>4. NoStuckButton'
    BY <1>3, <2>1 DEF PadsInv, NoStuckButton
  <2> QED BY <2>2, <2>3, <2>4 DEF PadsInv
<1> QED BY <1>4, <1>5

LEMMA ReleaseStep ==
  ASSUME PadsInv, ReleaseKey
  PROVE  PadsInv'
<1>1. PICK key \in held :
        /\ held' = held \ {key}
        /\ IF playing
           THEN /\ pads' = [pads EXCEPT ![key[1]] = Handled(@, key[2], FALSE)]
                /\ missed' = missed \ {<<key[1], b>> : b \in Also(key[2])}
           ELSE /\ missed' = missed \cup {<<key[1], b>> : b \in Also(key[2])}
                /\ UNCHANGED pads
        /\ UNCHANGED <<four_player, playing, input_map, concurrent, centred, reads>>
  BY DEF ReleaseKey
<1>2. PICK slot \in 0..3, button \in Names : key = <<slot, button>>
  BY <1>1 DEF PadsInv, PadTypes
<1>3. /\ UNCHANGED <<four_player, input_map, reads>> /\ held' = held \ {<<slot, button>>}
      /\ <<slot, button>> \in held
  BY <1>1, <1>2
<1>4. CASE playing
  <2>1. /\ pads' = [pads EXCEPT ![slot] = Handled(@, button, FALSE)]
        /\ missed' = missed \ {<<slot, b>> : b \in Also(button)}
    BY <1>1, <1>2, <1>4
  <2>2. /\ pads' \in [0..5 -> Joypad]
        /\ \A p \in 0..5 : pads'[p].index = pads[p].index /\ pads'[p].strobe = pads[p].strobe
        /\ \A p \in 0..5 : p # slot => pads'[p] = pads[p]
        /\ pads'[slot].buttons \subseteq pads[slot].buttons \ Also(button)
    BY <2>1, ReleaseOne DEF PadsInv
  <2>3. PadTypes'
    BY <1>3, <2>1, <2>2 DEF PadsInv, PadTypes
  <2>4. InStep'
    BY <1>3, <2>2, ReportsKept DEF PadsInv
  <2>5. ASSUME NEW s \in 0..3, NEW b \in pads'[s].buttons
        PROVE  Accounted(s, b, held' \cup missed')
    <3>1. b \in pads[s].buttons /\ (s = slot => b \notin Also(button))
      BY <2>2, <2>5
    <3>2. Accounted(s, b, held \cup missed)
      BY <3>1, StuckButton DEF PadsInv
    <3>3. \A t : <<s, t>> \in held \cup missed =>
            <<s, t>> \in held' \cup missed' \/ (s = slot /\ t \in Also(button))
      BY <1>3, <2>1, AlsoNames
    <3>4. CASE s # slot
      BY <3>2, <3>3, <3>4 DEF Accounted
    <3>5. CASE s = slot
      <4>1. CASE <<s, b>> \in held \cup missed
        BY <3>1, <3>3, <3>5, <4>1 DEF Accounted
      <4>2. ASSUME NEW t \in DOMAIN Turbo, Turbo[t] = b, <<s, t>> \in held \cup missed
            PROVE  Accounted(s, b, held' \cup missed')
        <5>1. t # button
          BY <3>1, <3>5, <4>2, AlsoNames
        <5>2. t \notin Also(button)
          BY <4>2, <5>1, AlsoNames, TurboNames
        <5> QED BY <3>3, <4>2, <5>2 DEF Accounted
      <4> QED BY <3>2, <4>1, <4>2 DEF Accounted
    <3> QED BY <3>4, <3>5
  <2>6. NoStuckButton'
    BY <2>5 DEF NoStuckButton, Accounted
  <2> QED BY <2>3, <2>4, <2>6 DEF PadsInv
<1>5. CASE ~playing
  <2>1. UNCHANGED pads /\ missed' = missed \cup {<<slot, b>> : b \in Also(button)}
    BY <1>1, <1>2, <1>5
  <2>2. held \cup missed \subseteq held' \cup missed'
    BY <1>3, <2>1, AlsoNames
  <2>3. PadTypes'
    BY <1>3, <2>1, AlsoNames DEF PadsInv, PadTypes
  <2>4. InStep'
    BY <1>3, <2>1, ReportsKept DEF PadsInv
  <2>5. NoStuckButton'
    BY <2>1, <2>2 DEF PadsInv, NoStuckButton
  <2> QED BY <2>3, <2>4, <2>5 DEF PadsInv
<1> QED BY <1>4, <1>5

LEMMA StickStep ==
  ASSUME PadsInv, MoveStick
  PROVE  PadsInv'
<1>1. PICK slot \in 0..3, button \in {"Left", "Right"} :
        /\ pads' = [pads EXCEPT ![slot] = Handled(@, button, TRUE)]
        /\ missed' = missed \cup {<<slot, button>>}
        /\ UNCHANGED <<four_player, input_map, held, reads>>
  BY DEF MoveStick
<1>2. button \in Names /\ button \notin DOMAIN Turbo
  BY TurboNames DEF Names
<1>3. /\ pads' \in [0..5 -> Joypad]
      /\ \A p \in 0..5 : pads'[p].index = pads[p].index /\ pads'[p].strobe = pads[p].strobe
      /\ \A p \in 0..5 : p # slot => pads'[p] = pads[p]
      /\ pads'[slot].buttons \subseteq pads[slot].buttons \cup Also(button)
  BY <1>1, <1>2, PressOne DEF PadsInv
<1>4. PadTypes'
  <2>1. missed' \subseteq (0..3) \X Names
    BY <1>1, <1>2 DEF PadsInv, PadTypes
  <2>2. UNCHANGED <<four_player, input_map, held, reads>>
    BY <1>1
  <2> QED BY <1>3, <2>1, <2>2 DEF PadsInv, PadTypes
<1>5. InStep'
  BY <1>1, <1>3, ReportsKept DEF PadsInv
<1>6. ASSUME NEW s \in 0..3, NEW b \in pads'[s].buttons
      PROVE  Accounted(s, b, held' \cup missed')
  <2>1. CASE s = slot /\ b = button
    BY <1>1, <2>1 DEF Accounted
  <2>2. CASE ~(s = slot /\ b = button)
    <3>1. b \in pads[s].buttons
      BY <1>2, <1>3, <1>6, <2>2, AlsoNames
    <3>2. Accounted(s, b, held \cup missed)
      BY <3>1, StuckButton DEF PadsInv
    <3> QED BY <1>1, <3>2 DEF Accounted
  <2> QED BY <2>1, <2>2
<1>7. NoStuckButton'
  BY <1>6 DEF NoStuckButton, Accounted
<1> QED BY <1>4, <1>5, <1>7 DEF PadsInv

LEMMA TurboStep ==
  ASSUME PadsInv, TurboClock
  PROVE  PadsInv'
<1> DEFINE toggled(p) == {Turbo[t] : t \in pads[p].buttons \cap DOMAIN Turbo}
<1>1. /\ pads' = [p \in 0..5 |-> [pads[p] EXCEPT
                     !.buttons = (pads[p].buttons \ toggled(p)) \cup (toggled(p) \ pads[p].buttons)]]
      /\ UNCHANGED <<four_player, input_map, held, missed, reads>>
  BY DEF TurboClock
<1>2. \A p \in 0..5 : toggled(p) \subseteq Names
  BY TurboNames DEF Names
<1>3. /\ pads' \in [0..5 -> Joypad]
      /\ \A p \in 0..5 : pads'[p].index = pads[p].index /\ pads'[p].strobe = pads[p].strobe
      /\ \A p \in 0..5 : pads'[p].buttons \subseteq pads[p].buttons \cup toggled(p)
  <2> HIDE DEF toggled
  <2> QED BY <1>1, <1>2 DEF PadsInv, PadTypes, Joypad
<1>4. PadTypes'
  BY <1>1, <1>3 DEF PadsInv, PadTypes
<1>5. InStep'
  BY <1>1, <1>3, ReportsKept DEF PadsInv
<1>6. ASSUME NEW s \in 0..3, NEW b \in pads'[s].buttons
      PROVE  Accounted(s, b, held \cup missed)
  <2>1. CASE b \in pads[s].buttons
    BY <2>1, StuckButton DEF PadsInv
  <2>2. CASE b \notin pads[s].buttons
    <3>1. PICK t \in pads[s].buttons \cap DOMAIN Turbo : b = Turbo[t]
      BY <1>3, <1>6, <2>2
    <3>2. Accounted(s, t, held \cup missed)
      BY <3>1, StuckButton DEF PadsInv
    <3>3. <<s, t>> \in held \cup missed
      BY <3>1, <3>2, TurboNames DEF Accounted
    <3> QED BY <3>1, <3>3 DEF Accounted
  <2> QED BY <2>1, <2>2
<1>7. NoStuckButton'
  BY <1>1, <1>6 DEF NoStuckButton, Accounted
<1> QED BY <1>4, <1>5, <1>7 DEF PadsInv

LEMMA LoadStep ==
  ASSUME PadsInv, LoadState
  PROVE  PadsInv'
<1>1. PICK pressed \in SUBSET (input_map \ Sticks) :
        /\ pads' = [p \in 0..5 |-> [pads[p] EXCEPT !.buttons = {k[2] : k \in {key \in pressed : key[1] = p}}]]
        /\ missed' = pressed \cup {<<k[1], Turbo[k[2]]>> : k \in {key \in pressed : key[2] \in DOMAIN Turbo}}
        /\ UNCHANGED <<four_player, input_map, held, reads>>
  BY DEF LoadState
<1>2. pressed \subseteq (0..3) \X Names
  BY DEF PadsInv, PadTypes
<1>3. missed' \subseteq (0..3) \X Names
  BY <1>1, <1>2, TurboNames DEF Names
<1>4. \A p \in 0..5 : {k[2] : k \in {key \in pressed : key[1] = p}} \subseteq Names
  BY <1>2
<1>5. /\ pads' \in [0..5 -> Joypad]
      /\ \A p \in 0..5 : /\ pads'[p].index = pads[p].index /\ pads'[p].strobe = pads[p].strobe
                         /\ pads'[p].buttons = {k[2] : k \in {key \in pressed : key[1] = p}}
  BY <1>1, <1>4 DEF PadsInv, PadTypes, Joypad
<1>6. PadTypes'
  BY <1>1, <1>3, <1>5 DEF PadsInv, PadTypes
<1>7. InStep'
  BY <1>1, <1>5, ReportsKept DEF PadsInv
<1>8. ASSUME NEW s \in 0..3, NEW b \in pads'[s].buttons
      PROVE  <<s, b>> \in missed'
  <2>1. PICK k \in pressed : k[1] = s /\ k[2] = b
    BY <1>5, <1>8
  <2>2. k = <<s, b>>
    BY <1>2, <2>1
  <2> QED BY <1>1, <2>2
<1>9. NoStuckButton'
  BY <1>8 DEF NoStuckButton
<1> QED BY <1>6, <1>7, <1>9 DEF PadsInv

LEMMA StrobeStep ==
  ASSUME PadsInv, WriteStrobe
  PROVE  PadsInv'
<1>1. PICK strobe \in BOOLEAN :
        /\ pads' = [p \in 0..5 |-> WritePad(pads[p], strobe)]
        /\ reads' = IF pads[0].strobe /\ ~strobe THEN [jack \in Ports |-> 0] ELSE reads
  BY DEF WriteStrobe
<1>2. UNCHANGED <<four_player, input_map, held, missed>>
  BY DEF WriteStrobe
<1>3. ASSUME NEW p \in 0..5
      PROVE  /\ pads'[p] \in Joypad /\ pads'[p].buttons = pads[p].buttons
             /\ pads'[p].strobe = strobe
             /\ pads'[p].index = IF pads[0].strobe /\ ~strobe THEN 0 ELSE pads[p].index
  <2>1. pads'[p] = WritePad(pads[p], strobe)
    BY <1>1
  <2>2. pads[p] \in Joypad /\ pads[p].strobe = pads[0].strobe
    BY DEF PadsInv, PadTypes, InStep
  <2>3. 0 \in 0..Length
    BY LengthType
  <2> QED BY <2>1, <2>2, <2>3 DEF WritePad, Joypad
<1>4. pads' \in [0..5 -> Joypad]
  BY <1>1, <1>3
<1>5. reads' \in [Ports -> 0..MaxReads]
  BY <1>1, LengthType DEF PadsInv, PadTypes
<1>6. PadTypes'
  BY <1>2, <1>4, <1>5 DEF PadsInv, PadTypes
<1>7. NoStuckButton'
  BY <1>2, <1>3, ButtonsKept DEF PadsInv
<1>8. InStep'
  <2>1. \A jack \in Ports : jack \in 0..5 /\ jack + 2 \in 0..5 /\ jack + 4 \in 0..5
    BY DEF Ports
  <2>2. CASE pads[0].strobe /\ ~strobe
    <3>1. \A jack \in Ports : reads'[jack] = 0
      BY <1>1, <2>2
    <3>2. \A p \in 0..5 : pads'[p].index = 0 /\ pads'[p].strobe = strobe
      BY <1>3, <2>2
    <3> QED BY <2>1, <3>1, <3>2, ToldStart DEF InStep
  <2>3. CASE ~(pads[0].strobe /\ ~strobe)
    <3>1. reads' = reads
      BY <1>1, <2>3
    <3>2. \A p \in 0..5 : pads'[p].index = pads[p].index /\ pads'[p].strobe = strobe
      BY <1>3, <2>3
    <3> QED BY <1>2, <2>1, <3>1, <3>2 DEF PadsInv, InStep
  <2> QED BY <2>2, <2>3
<1> QED BY <1>6, <1>7, <1>8 DEF PadsInv

LEMMA AdapterStep ==
  ASSUME PadsInv, SetFourPlayer
  PROVE  PadsInv'
<1>1. /\ pads' = [p \in 0..5 |-> NewPad]
      /\ four_player' \in Adapters
      /\ reads' = [jack \in Ports |-> 0]
      /\ missed' = {} /\ UNCHANGED <<input_map, held>>
  BY DEF SetFourPlayer, ResetPad, Adapters
<1>2. NewPad \in Joypad
  BY LengthType DEF NewPad, Joypad
<1>3. PadTypes'
  BY <1>1, <1>2, LengthType DEF PadsInv, PadTypes
<1>4. NoStuckButton'
  BY <1>1 DEF NoStuckButton, NewPad
<1>5. InStep'
  BY <1>1, ToldStart DEF InStep, NewPad, Ports
<1> QED BY <1>3, <1>4, <1>5 DEF PadsInv

(* The pads that a read of the port does not take on stay as they are. *)
LEMMA ReadStep ==
  ASSUME PadsInv, ReadPort
  PROVE  PadsInv'
<1>1. PICK jack \in Ports :
        /\ pads' = [p \in 0..5 |-> IF p \in Answering(jack) THEN ReadPad(pads[p]) ELSE pads[p]]
        /\ reads' = [reads EXCEPT ![jack] = IF pads[jack].strobe \/ @ = MaxReads THEN @ ELSE @ + 1]
  BY DEF ReadPort
<1>2. UNCHANGED <<four_player, input_map, held, missed>>
  BY DEF ReadPort
<1>3. /\ 0 \in 0..5
      /\ \A q \in Ports : q \in 0..5 /\ q + 2 \in 0..5 /\ q + 4 \in 0..5
  BY DEF Ports
<1>4. ASSUME NEW p \in 0..5
      PROVE  /\ pads[p] \in Joypad /\ pads[p].strobe = pads[0].strobe
             /\ pads'[p] \in Joypad /\ pads'[p].buttons = pads[p].buttons /\ pads'[p].strobe = pads[p].strobe
             /\ pads'[p].index = IF p \in Answering(jack) /\ ~pads[0].strobe /\ pads[p].index < Length
                                 THEN pads[p].index + 1 ELSE pads[p].index
  <2>1. pads[p] \in Joypad /\ pads[p].strobe = pads[0].strobe
    BY DEF PadsInv, PadTypes, InStep
  <2>2. pads'[p] = IF p \in Answering(jack) THEN ReadPad(pads[p]) ELSE pads[p]
    BY <1>1
  <2> QED BY <2>1, <2>2, LengthType DEF ReadPad, Joypad
<1>5. /\ reads' \in [Ports -> 0..MaxReads]
      /\ \A q \in Ports : reads'[q] = IF q = jack /\ ~pads[0].strobe
                                      THEN IF reads[q] = MaxReads THEN reads[q] ELSE reads[q] + 1
                                      ELSE reads[q]
  <2>1. pads[jack].strobe = pads[0].strobe
    BY <1>3, <1>4
  <2> QED BY <1>1, <2>1, LengthType DEF PadsInv, PadTypes
<1>6. PadTypes'
  <2>1. pads' \in [0..5 -> Joypad]
    BY <1>1, <1>4
  <2> QED BY <1>2, <1>5, <2>1 DEF PadsInv, PadTypes
<1>7. NoStuckButton'
  BY <1>2, <1>4, ButtonsKept DEF PadsInv
<1>8. \A p \in 0..5 : pads'[p].strobe = pads'[0].strobe
  BY <1>3, <1>4
<1>9. InStep'
  <2>1. CASE pads[0].strobe
    <3>1. \A p \in 0..5 : pads'[p].index = pads[p].index
      BY <1>4, <2>1
    <3>2. \A q \in Ports : reads'[q] = reads[q]
      BY <1>5, <2>1
    <3> QED BY <1>2, <1>3, <1>8, <3>1, <3>2 DEF PadsInv, InStep
  <2>2. CASE ~pads[0].strobe
    <3>1. ASSUME NEW q \in Ports, q # jack
          PROVE  /\ reads'[q] = reads[q] /\ pads'[q].index = pads[q].index
                 /\ pads'[q + 2].index = pads[q + 2].index
                 /\ pads'[q + 4].index = pads[q + 4].index
      <4>1. q \notin Answering(jack) /\ q + 2 \notin Answering(jack) /\ q + 4 \notin Answering(jack)
        BY <3>1 DEF Answering, Ports, PadsInv, PadTypes, Adapters
      <4> QED BY <1>3, <1>4, <1>5, <3>1, <4>1
    <3>2. reads[jack] \in 0..MaxReads
          /\ reads'[jack] = IF reads[jack] = MaxReads THEN reads[jack] ELSE reads[jack] + 1
      BY <1>5, <2>2 DEF PadsInv, PadTypes
    <3>3. /\ pads[jack].index \in 0..Length /\ pads[jack + 2].index \in 0..Length
          /\ pads[jack + 4].index \in 0..Length
      BY <1>3, <1>4 DEF Joypad
    <3>4. pads[jack].index = Told(reads[jack], 0)
      BY DEF PadsInv, InStep
    <3>5. four_player # "FourScore" => jack \in Answering(jack)
      BY DEF Answering, PadsInv, PadTypes, Adapters
    <3>6. pads'[jack].index = Told(reads'[jack], 0)
      <4>1. Told(reads'[jack], 0) = IF Told(reads[jack], 0) < Length THEN Told(reads[jack], 0) + 1 ELSE Told(reads[jack], 0)
        BY <3>2, ToldNext
      <4>2. pads[jack].index < Length => jack \in Answering(jack)
        BY <3>5, LengthType DEF Answering, Ports, PadsInv, PadTypes, Adapters
      <4> QED BY <1>3, <1>4, <2>2, <3>4, <4>1, <4>2
    <3>7. CASE four_player = "Satellite"
      <4>1. jack + 2 \in Answering(jack)
        BY <3>7 DEF Answering
      <4>2. pads[jack + 2].index = Told(reads[jack], 0)
        BY <3>7 DEF PadsInv, InStep
      <4>3. pads'[jack + 2].index = Told(reads'[jack], 0)
        <5>1. Told(reads'[jack], 0) = IF Told(reads[jack], 0) < Length THEN Told(reads[jack], 0) + 1 ELSE Told(reads[jack], 0)
          BY <3>2, ToldNext
        <5> QED BY <1>3, <1>4, <2>2, <4>1, <4>2, <5>1
      <4> QED BY <1>2, <1>8, <3>1, <3>6, <3>7, <4>3 DEF PadsInv, InStep
    <3>8. CASE four_player = "FourScore"
      <4>1. pads[jack + 2].index = Told(reads[jack], 1) /\ pads[jack + 4].index = Told(reads[jack], 2)
        BY <3>8 DEF PadsInv, InStep
      <4>2. /\ jack + 2 \in Answering(jack) <=> (pads[jack + 2].index < Length /\ pads[jack].index = Length)
            /\ jack + 4 \in Answering(jack) <=> (pads[jack + 4].index < Length /\ pads[jack].index = Length
                                                  /\ pads[jack + 2].index = Length)
        BY <3>8 DEF Answering, Ports
      <4>3. /\ Told(reads'[jack], 1) = IF Told(reads[jack], 0) = Length /\ Told(reads[jack], 1) < Length
                                       THEN Told(reads[jack], 1) + 1 ELSE Told(reads[jack], 1)
            /\ Told(reads'[jack], 2) = IF Told(reads[jack], 0) = Length /\ Told(reads[jack], 1) = Length /\ Told(reads[jack], 2) < Length
                                       THEN Told(reads[jack], 2) + 1 ELSE Told(reads[jack], 2)
        BY <3>2, ToldNext
      <4>4. pads'[jack + 2].index = Told(reads'[jack], 1)
        BY <1>3, <1>4, <2>2, <3>4, <4>1, <4>2, <4>3
      <4>5. pads'[jack + 4].index = Told(reads'[jack], 2)
        BY <1>3, <1>4, <2>2, <3>4, <4>1, <4>2, <4>3
      <4> QED BY <1>2, <1>8, <3>1, <3>6, <3>8, <4>4, <4>5 DEF PadsInv, InStep
    <3>9. CASE four_player = "Disabled"
      BY <1>2, <1>8, <3>1, <3>6, <3>9 DEF PadsInv, InStep
    <3> QED BY <3>7, <3>8, <3>9 DEF PadsInv, PadTypes, Adapters
  <2> QED BY <2>1, <2>2
<1> QED BY <1>6, <1>7, <1>9 DEF PadsInv

LEMMA PadsStep ==
  ASSUME PadsInv, [PadsNext]_pad_vars
  PROVE  PadsInv'
<1>1. CASE TogglePause
  <2>1. UNCHANGED <<pads, four_player, input_map, held, missed, reads>>
    BY <1>1 DEF TogglePause
  <2> QED BY <2>1, ReportsKept DEF PadsInv, PadTypes, NoStuckButton
<1>2. CASE UNCHANGED pad_vars
  <2>1. UNCHANGED <<pads, four_player, input_map, held, missed, reads>>
    BY <1>2 DEF pad_vars
  <2> QED BY <2>1, ReportsKept DEF PadsInv, PadTypes, NoStuckButton
<1> QED BY <1>1, <1>2, ReadStep, StrobeStep, TurboStep, PressStep, ReleaseStep, StickStep, AdapterStep,
           LoadStep DEF PadsNext

(* The quotient and the rest of the reads that a Four Score divides among its pads. *)
LEMMA Turn ==
  ASSUME NEW n \in Nat, NEW k \in 0..2, k * Length <= n, n < (k + 1) * Length
  PROVE  n \div Length = k /\ n % Length = n - (k * Length)
BY LengthType, SMTT(30)

(* The pad whose bit is due is the one that answers, at its bit. *)
LEMMA PadsInOrder == PadsInv => ReadsInOrder
<1> SUFFICES ASSUME PadsInv, NEW jack \in Ports
             PROVE  Peek(jack) = << Bit0(jack, reads[jack]),
                      /\ four_player = "Satellite"
                      /\ reads[jack] < Length => Order[reads[jack] + 1] \in pads[jack + 2].buttons >>
  BY DEF ReadsInOrder
<1> DEFINE first  == \A p \in Answering(jack) : p # jack + 2 \/ four_player = "FourScore" => Pressed(pads[p])
           second == four_player = "Satellite" /\ Pressed(pads[jack + 2])
           due    == /\ four_player = "Satellite"
                     /\ reads[jack] < Length => Order[reads[jack] + 1] \in pads[jack + 2].buttons
           bit    == Bit0(jack, reads[jack])
<1>1. /\ jack \in 0..5 /\ jack + 2 \in 0..5 /\ jack + 4 \in 0..5 /\ jack \in Nat
      /\ jack + 2 # jack /\ jack + 4 # jack /\ jack + 4 # jack + 2
  BY DEF Ports
<1>2. /\ reads[jack] \in Nat /\ pads[jack].index = Told(reads[jack], 0)
  BY LengthType DEF PadsInv, PadTypes, InStep
<1>3. Told(reads[jack], 0) = IF reads[jack] < Length THEN reads[jack] ELSE Length
  BY <1>2, LengthType DEF Told
<1>4. first <=> bit
  <2>1. CASE four_player # "FourScore"
    <3>1. Answering(jack) \subseteq {jack, jack + 2} /\ jack \in Answering(jack)
      BY <2>1 DEF Answering, PadsInv, PadTypes, Adapters
    <3>2. first <=> Pressed(pads[jack])
      BY <1>1, <2>1, <3>1
    <3>3. Pressed(pads[jack]) <=> (reads[jack] < Length => Order[reads[jack] + 1] \in pads[jack].buttons)
      BY <1>2, <1>3, LengthType DEF Pressed
    <3>4. bit <=> (reads[jack] < Length => Order[(reads[jack] % Length) + 1] \in pads[jack].buttons)
      BY <2>1 DEF Bit0
    <3>5. reads[jack] < Length => reads[jack] % Length = reads[jack]
      BY <1>2, LengthType, Turn
    <3> QED BY <3>2, <3>3, <3>4, <3>5
  <2>2. CASE four_player = "FourScore"
    <3>1. pads[jack + 2].index = Told(reads[jack], 1) /\ pads[jack + 4].index = Told(reads[jack], 2)
      BY <2>2 DEF PadsInv, InStep
    <3>2. \A p : p \in Answering(jack) <=>
            \/ p = jack /\ pads[jack].index < Length
            \/ p = jack + 2 /\ pads[jack].index = Length /\ pads[jack + 2].index < Length
            \/ p = jack + 4 /\ pads[jack].index = Length /\ pads[jack + 2].index = Length
               /\ pads[jack + 4].index < Length
      BY <1>1, <2>2 DEF Answering
    <3>3. ASSUME NEW k \in 0..2, k * Length <= reads[jack], reads[jack] < (k + 1) * Length
          PROVE  first <=> bit
      <4>1. reads[jack] \div Length = k /\ reads[jack] % Length = reads[jack] - (k * Length)
        BY <1>2, <3>3, Turn
      <4>2. bit <=> Order[(reads[jack] - (k * Length)) + 1] \in pads[jack + (2 * k)].buttons
        <5>1. reads[jack] < 3 * Length
          BY <1>2, <3>3, LengthType
        <5> QED BY <2>2, <4>1, <5>1 DEF Bit0
      <4>3. /\ pads[jack + (2 * k)].index = reads[jack] - (k * Length)
            /\ \A p : p \in Answering(jack) <=> p = jack + (2 * k)
        BY <1>1, <1>2, <3>1, <3>2, <3>3, LengthType DEF Told
      <4>4. reads[jack] - (k * Length) < Length
        BY <1>2, <3>3, LengthType
      <4> QED BY <2>2, <4>2, <4>3, <4>4 DEF Pressed
    <3>4. ASSUME reads[jack] >= 3 * Length
          PROVE  first <=> bit
      <4>1. \A p : p \notin Answering(jack)
        BY <1>2, <3>1, <3>2, <3>4, LengthType DEF Told
      <4>2. bit
        BY <1>2, <2>2, <3>4, LengthType DEF Bit0
      <4> QED BY <4>1, <4>2
    <3>5. \/ reads[jack] < Length \/ (Length <= reads[jack] /\ reads[jack] < 2 * Length)
          \/ (2 * Length <= reads[jack] /\ reads[jack] < 3 * Length) \/ reads[jack] >= 3 * Length
      BY <1>2, LengthType
    <3> HIDE DEF first, bit
    <3> QED BY <1>2, <3>3, <3>4, <3>5, LengthType
  <2> QED BY <2>1, <2>2
<1>5. second <=> due
  <2>1. CASE four_player = "Satellite"
    <3>1. pads[jack + 2].index = Told(reads[jack], 0)
      BY <2>1 DEF PadsInv, InStep
    <3> QED BY <1>2, <1>3, <2>1, <3>1, LengthType DEF Pressed
  <2> QED BY <2>1
<1>6. first \in BOOLEAN /\ second \in BOOLEAN /\ due \in BOOLEAN /\ bit \in BOOLEAN
  BY DEF Bit0
<1>7. Peek(jack) = <<first, second>>
  BY DEF Peek
<1>8. first = bit /\ second = due
  <2> HIDE DEF first, second, due, bit
  <2> QED BY <1>4, <1>5, <1>6
<1> QED BY <1>7, <1>8

-----------------------------------------------------------------------------
(* The sound channels (Channels). *)

LengthKept(c) ==
  /\ {"enabled", "counter"} \subseteq DOMAIN c.length
  /\ c.length.counter \in Nat
  /\ c.enabled \/ c.length.counter = 0

EnvelopeKept(e) ==
  /\ {"loops", "reset", "volume", "constant_volume", "counter"} \subseteq DOMAIN e
  /\ e.volume \in Nat /\ e.constant_volume \in Nat /\ e.counter \in Nat

(* Only a pulse that has a sweep is bent, and by a share of its pitch. *)
SweepKept(c) ==
  /\ {"enabled", "reload", "negate", "timer", "counter", "shift"} \subseteq DOMAIN c.sweep
  /\ c.sweep.timer \in Nat /\ c.sweep.counter \in Nat /\ c.sweep.shift \in 0..7
  /\ c.sweep.enabled => c.sweep.shift \in 1..7 /\ ~c.ultrasonic

PulseKept(c) ==
  /\ {"kind", "ultrasonic", "enabled", "freq_timer", "length", "envelope", "sweep"} \subseteq DOMAIN c
  /\ c.kind = "pulse"
  /\ c.freq_timer \in Nat /\ c.freq_timer < 2048
  /\ LengthKept(c) /\ EnvelopeKept(c.envelope) /\ SweepKept(c)

TriangleKept(c) ==
  /\ {"kind", "enabled", "freq_timer", "length", "linear"} \subseteq DOMAIN c
  /\ {"reload", "control", "load", "counter"} \subseteq DOMAIN c.linear
  /\ c.kind = "triangle"
  /\ c.linear.load \in Nat /\ c.linear.counter \in Nat
  /\ LengthKept(c)

NoiseKept(c) ==
  /\ {"kind", "enabled", "shift", "length", "envelope"} \subseteq DOMAIN c
  /\ c.kind = "noise"
  /\ c.shift \in Nat /\ 1 <= c.shift /\ c.shift < 16384
  /\ LengthKept(c) /\ EnvelopeKept(c.envelope)

Vrc6Kept(c) ==
  /\ {"kind", "enabled", "halt", "freq_shift", "frequency", "timer", "step", "accum", "accum_rate"} \subseteq DOMAIN c
  /\ c.kind \in {"vrc6_pulse", "saw"}
  /\ c.freq_shift \in {0, 4, 8} /\ c.frequency \in Nat /\ c.timer \in Nat \ {0}
  /\ c.step \in Nat /\ c.accum \in Nat /\ c.accum_rate \in Nat
  /\ ~c.enabled => c.step = 0 /\ c.accum = 0

LEMMA LengthLoads == \A val \in Nat : val < 256 => LengthTable[(val \div 8) + 1] \in Nat
<1>1. ASSUME NEW i \in 1..32 PROVE LengthTable[i] \in Nat
  BY DEF LengthTable
<1> QED BY <1>1

LEMMA SweepBits == \A val \in Nat : val < 256 => Bits(val, 4, 3) \in 0..7 /\ val % 8 \in 0..7
BY Powers DEF Bits

(* The share of a pitch that a sweep takes. *)
Power(k) == 2^k

LEMMA PowerType ==
  ASSUME NEW k, k \in 1..7
  PROVE  Power(k) \in {2, 4, 8, 16, 32, 64, 128}
<1>1. Power(1) = 2 /\ Power(2) = 4 /\ Power(3) = 8 /\ Power(4) = 16 /\ Power(5) = 32 /\ Power(6) = 64 /\ Power(7) = 128
  BY DEF Power
<1> QED BY <1>1

(* A bend that is not silenced stays within eleven bits. *)
LEMMA BentType ==
  ASSUME NEW c, PulseKept(c), c.sweep.enabled, ~SweepForcingSilence(c)
  PROVE  Bent(c) \in Nat /\ Bent(c) < 2048
<1>1. PICK f : f = c.freq_timer
  OBVIOUS
<1>2. PICK k : k = c.sweep.shift
  OBVIOUS
<1>3. PICK d : d = Power(k)
  OBVIOUS
<1>4. f \in Nat /\ f < 2048 /\ k \in 1..7 /\ ~c.ultrasonic
  BY <1>1, <1>2 DEF PulseKept, SweepKept
<1>5. PICK share : share = f \div d
  OBVIOUS
<1>6. share \in Nat /\ 2 * share <= f
  <2>1. d \in {2, 4, 8, 16, 32, 64, 128}
    BY <1>3, <1>4, PowerType
  <2> QED BY <1>4, <1>5, <2>1
<1>7. share = Share(c)
  BY <1>1, <1>2, <1>3, <1>5 DEF Share, Power
<1>8. ~(f < 8 \/ (~c.sweep.negate /\ f + share >= 2048))
  BY <1>1, <1>4, <1>7 DEF SweepForcingSilence
<1>9. CASE c.sweep.negate
  <2>1. PICK one \in {0, 1} : Bent(c) = (f - share - one) % 65536
    BY <1>1, <1>7, <1>9, Powers DEF Bent
  <2>2. f \in Nat /\ 8 <= f /\ f <= 2047
    BY <1>4, <1>8
  <2>3. f - share - one \in Nat /\ f - share - one < 2048
    BY <1>6, <2>2
  <2> QED BY <2>1, <2>3
<1>10. CASE ~c.sweep.negate
  <2>1. Bent(c) = (f + share) % 65536
    BY <1>1, <1>7, <1>10, Powers DEF Bent
  <2>2. f + share \in Nat /\ f + share < 2048
    BY <1>4, <1>6, <1>8, <1>10
  <2> QED BY <2>1, <2>2
<1> QED BY <1>9, <1>10

LEMMA EnvelopeType ==
  ASSUME NEW e, EnvelopeKept(e)
  PROVE  EnvelopeKept(ClockEnvelope(e))
<1>1. CASE e.reset
  BY <1>1 DEF ClockEnvelope, EnvelopeKept
<1>2. CASE ~e.reset /\ e.counter > 0
  BY <1>2 DEF ClockEnvelope, EnvelopeKept
<1>3. CASE ~e.reset /\ e.counter = 0
  <2>1. PICK v \in Nat : v = Decay(e)
    BY DEF Decay, EnvelopeKept
  <2>2. ClockEnvelope(e) = [e EXCEPT !.counter = e.constant_volume, !.volume = v]
    BY <1>3, <2>1 DEF ClockEnvelope
  <2> QED BY <2>1, <2>2 DEF EnvelopeKept
<1> QED BY <1>1, <1>2, <1>3 DEF EnvelopeKept

-----------------------------------------------------------------------------
(* Pulses. *)

LEMMA PulseClock ==
  ASSUME NEW c, PulseKept(c)
  PROVE  PulseKept(ClockPulse(c)) /\ ClockPulse(c).envelope = c.envelope
BY DEF ClockPulse, RunTimer, PulseKept, LengthKept, SweepKept

LEMMA PulseQuarter ==
  ASSUME NEW c, PulseKept(c)
  PROVE  PulseKept(ClockQuarterFrame(c)) /\ ClockQuarterFrame(c).envelope = ClockEnvelope(c.envelope)
<1>1. PICK e : e = ClockEnvelope(c.envelope)
  OBVIOUS
<1>2. EnvelopeKept(e)
  BY <1>1, EnvelopeType DEF PulseKept
<1>3. ClockQuarterFrame(c) = [c EXCEPT !.envelope = e]
  BY <1>1 DEF ClockQuarterFrame, PulseKept
<1> QED BY <1>1, <1>2, <1>3 DEF PulseKept, LengthKept, SweepKept

(* A sweep unit that changes keeps the rest of the pulse. *)
LEMMA OtherSweep ==
  ASSUME NEW c, PulseKept(c), NEW s, NEW d, d = [c EXCEPT !.sweep = s],
         {"enabled", "reload", "negate", "timer", "counter", "shift"} \subseteq DOMAIN s,
         s.timer \in Nat, s.counter \in Nat, s.shift \in 0..7, s.enabled => s.shift \in 1..7 /\ ~c.ultrasonic
  PROVE  PulseKept(d) /\ d.envelope = c.envelope
<1>1. /\ d.kind = c.kind /\ d.freq_timer = c.freq_timer /\ d.length = c.length /\ d.enabled = c.enabled
      /\ d.envelope = c.envelope /\ d.sweep = s /\ d.ultrasonic = c.ultrasonic /\ DOMAIN d = DOMAIN c
  BY DEF PulseKept
<1> QED BY <1>1 DEF PulseKept, LengthKept, SweepKept

LEMMA PulseSweep ==
  ASSUME NEW c, PulseKept(c)
  PROVE  PulseKept(ClockSweep(c)) /\ ClockSweep(c).envelope = c.envelope
<1>1. CASE c.sweep.reload
  <2>1. PICK s : s = [c.sweep EXCEPT !.counter = c.sweep.timer, !.reload = FALSE]
    OBVIOUS
  <2>2. ClockSweep(c) = [c EXCEPT !.sweep = s]
    BY <1>1, <2>1 DEF ClockSweep
  <2>3. /\ {"enabled", "reload", "negate", "timer", "counter", "shift"} \subseteq DOMAIN s
        /\ s.timer \in Nat /\ s.counter \in Nat /\ s.shift \in 0..7
        /\ s.enabled => s.shift \in 1..7 /\ ~c.ultrasonic
    BY <2>1 DEF PulseKept, SweepKept
  <2> QED BY <2>2, <2>3, OtherSweep
<1>2. CASE ~c.sweep.reload /\ c.sweep.counter > 0
  BY <1>2 DEF ClockSweep, PulseKept, LengthKept, SweepKept
<1>3. CASE ~c.sweep.reload /\ c.sweep.counter = 0
  <2>0. ASSUME c.sweep.enabled, ~SweepForcingSilence(c) PROVE Bent(c) \in Nat /\ Bent(c) < 2048
    BY <2>0, BentType
  <2>1. PICK f : f = IF c.sweep.enabled /\ ~SweepForcingSilence(c) THEN Bent(c) ELSE c.freq_timer
    OBVIOUS
  <2>2. ClockSweep(c) = [c EXCEPT !.sweep.counter = c.sweep.timer, !.freq_timer = f]
    BY <1>3, <2>1 DEF ClockSweep
  <2>3. f \in Nat /\ f < 2048
    <3>1. c.freq_timer \in Nat /\ c.freq_timer < 2048
      BY DEF PulseKept
    <3> QED BY <2>0, <2>1, <3>1
  <2> QED BY <2>2, <2>3 DEF PulseKept, LengthKept, SweepKept
<1> QED BY <1>1, <1>2, <1>3 DEF PulseKept, SweepKept

LEMMA PulseLength ==
  ASSUME NEW c, PulseKept(c)
  PROVE  PulseKept(ClockLength(c)) /\ ClockLength(c).envelope = c.envelope
BY DEF ClockLength, PulseKept, LengthKept, SweepKept

LEMMA PulseHalf ==
  ASSUME NEW c, PulseKept(c)
  PROVE  PulseKept(ClockHalfFrame(c)) /\ ClockHalfFrame(c).envelope = c.envelope
<1>1. PICK d : d = ClockSweep(c)
  OBVIOUS
<1>2. PulseKept(d) /\ d.envelope = c.envelope
  BY <1>1, PulseSweep
<1>3. ClockHalfFrame(c) = ClockLength(d)
  BY <1>1 DEF ClockHalfFrame, PulseKept
<1> QED BY <1>2, <1>3, PulseLength

LEMMA PulseEnables ==
  ASSUME NEW c, PulseKept(c)
  PROVE  PulseKept(SetEnabled(c, ~c.enabled)) /\ SetEnabled(c, ~c.enabled).envelope = c.envelope
BY DEF SetEnabled, PulseKept, LengthKept, SweepKept

LEMMA PulseWrite ==
  ASSUME NEW c, PulseKept(c), NEW reg \in 0..3, NEW val \in Nat, val < 256
  PROVE  /\ PulseKept(WritePulse(c, reg, val))
         /\ reg = 3 => WritePulse(c, reg, val).envelope.reset
         /\ reg \in {1, 2} => WritePulse(c, reg, val).envelope = c.envelope
<1>1. CASE reg = 0
  <2>1. val % 16 \in Nat
    OBVIOUS
  <2>2. WritePulse(c, reg, val) = WriteEnvelope([c EXCEPT !.duty_cycle = val \div 64], val)
    BY <1>1 DEF WritePulse
  <2>3. PICK e : e = [c.envelope EXCEPT !.loops = Bit(val, 5), !.enabled = ~Bit(val, 4), !.constant_volume = val % 16]
    OBVIOUS
  <2>4. EnvelopeKept(e)
    BY <2>1, <2>3 DEF PulseKept, EnvelopeKept
  <2>5. WritePulse(c, reg, val)
          = [c EXCEPT !.duty_cycle = val \div 64, !.length.enabled = ~Bit(val, 5), !.envelope = e]
    BY <2>2, <2>3 DEF WriteEnvelope
  <2>6. PulseKept([c EXCEPT !.duty_cycle = val \div 64, !.length.enabled = ~Bit(val, 5), !.envelope = e])
    BY <2>4 DEF PulseKept, LengthKept, SweepKept
  <2> QED BY <1>1, <2>5, <2>6
<1>2. CASE reg = 1
  <2>1. CASE c.ultrasonic
    BY <1>2, <2>1 DEF WritePulse
  <2>2. CASE ~c.ultrasonic
    <3>1. WritePulse(c, reg, val) = WriteSweep(c, val)
      BY <1>2, <2>2 DEF WritePulse
    <3>2. PICK t, k : t = Bits(val, 4, 3) /\ k = val % 8
      OBVIOUS
    <3>3. t \in Nat /\ k \in 0..7
      BY <3>2, SweepBits
    <3>0. PICK on : on = (Bit(val, 7) /\ k # 0)
      OBVIOUS
    <3>4. PICK s : s = [c.sweep EXCEPT !.timer = t, !.negate = Bit(val, 3), !.shift = k,
                                       !.enabled = on, !.reload = TRUE]
      OBVIOUS
    <3>5. WriteSweep(c, val) = [c EXCEPT !.sweep = s]
      BY <3>0, <3>2, <3>4 DEF WriteSweep
    <3>6. /\ {"enabled", "reload", "negate", "timer", "counter", "shift"} \subseteq DOMAIN s
          /\ s.timer \in Nat /\ s.counter \in Nat /\ s.shift \in 0..7
          /\ s.enabled => s.shift \in 1..7 /\ ~c.ultrasonic
      <4>1. DOMAIN s = DOMAIN c.sweep /\ s.timer = t /\ s.shift = k /\ s.counter = c.sweep.counter
        BY <3>4 DEF PulseKept, SweepKept
      <4>2. s.enabled = on
        BY <3>4 DEF PulseKept, SweepKept
      <4>3. on => k # 0
        BY <3>0
      <4> QED BY <2>2, <3>3, <4>1, <4>2, <4>3 DEF PulseKept, SweepKept
    <3> QED BY <1>2, <3>1, <3>5, <3>6, OtherSweep
  <2> QED BY <2>1, <2>2
<1>3. CASE reg = 2
  <2>1. PICK f : f = 256 * (c.freq_timer \div 256) + val
    OBVIOUS
  <2>2. f \in Nat /\ f < 2048
    <3>1. PICK old : old = c.freq_timer
      OBVIOUS
    <3>2. old \in Nat /\ old < 2048
      BY <3>1 DEF PulseKept
    <3>3. 256 * (old \div 256) + val \in Nat /\ 256 * (old \div 256) + val < 2048
      <4>1. val % 8 \in 0..7 /\ old % 256 \in Nat /\ old % 256 < 256 /\ old \div 256 \in 0..7
        BY <3>2
      <4> QED BY <4>1
    <3> QED BY <2>1, <3>1, <3>3
  <2>3. WritePulse(c, reg, val) = [c EXCEPT !.freq_timer = f]
    BY <1>3, <2>1 DEF WritePulse, WriteTimerLo
  <2> QED BY <1>3, <2>2, <2>3 DEF PulseKept, LengthKept, SweepKept
<1>4. CASE reg = 3
  <2>1. PICK f : f = 256 * (val % 8) + (c.freq_timer % 256)
    OBVIOUS
  <2>2. f \in Nat /\ f < 2048
    <3>1. PICK old : old = c.freq_timer
      OBVIOUS
    <3>2. old \in Nat /\ old < 2048
      BY <3>1 DEF PulseKept
    <3>3. 256 * (val % 8) + (old % 256) \in Nat /\ 256 * (val % 8) + (old % 256) < 2048
      <4>1. val % 8 \in 0..7 /\ old % 256 \in Nat /\ old % 256 < 256 /\ old \div 256 \in 0..7
        BY <3>2
      <4> QED BY <4>1
    <3> QED BY <2>1, <3>1, <3>3
  <2>3. PICK n : n = LengthTable[(val \div 8) + 1]
    OBVIOUS
  <2>4. n \in Nat
    BY <2>3, LengthLoads
  <2>5. PICK d : d = [c EXCEPT !.freq_timer = f, !.freq_counter = f, !.duty_counter = 0, !.envelope.reset = TRUE]
    OBVIOUS
  <2>6. PulseKept(d) /\ d.envelope.reset
    BY <2>2, <2>5 DEF PulseKept, LengthKept, SweepKept, EnvelopeKept
  <2>7. WritePulse(c, reg, val) = LoadLength(d, val)
    BY <1>4, <2>1, <2>5 DEF WritePulse, WriteTimerHi
  <2>8. WritePulse(c, reg, val) = IF d.enabled THEN [d EXCEPT !.length.counter = n] ELSE d
    BY <2>3, <2>7 DEF LoadLength
  <2> QED BY <1>4, <2>4, <2>6, <2>8 DEF PulseKept, LengthKept, SweepKept
<1> QED BY <1>1, <1>2, <1>3, <1>4

(* The triangle. *)

LEMMA TriangleRuns ==
  ASSUME NEW c, TriangleKept(c)
  PROVE  TriangleKept(ClockTriangle(c)) /\ ClockTriangle(c).linear = c.linear
<1>1. PICK t : t = [c EXCEPT !.ultrasonic = c.length.counter > 0 /\ c.freq_timer < 2 /\ c.freq_counter = 0]
  OBVIOUS
<1>2. TriangleKept(t) /\ t.linear = c.linear
  BY <1>1 DEF TriangleKept, LengthKept
<1>3. \/ ClockTriangle(c) = t
      \/ ClockTriangle(c) = [t EXCEPT !.freq_counter = t.freq_counter - 1]
      \/ ClockTriangle(c) = [[t EXCEPT !.step = (t.step + 1) % 32] EXCEPT !.freq_counter = t.freq_timer]
  BY <1>1 DEF ClockTriangle, RunTimer
<1>4. CASE ClockTriangle(c) = t
  BY <1>2, <1>4
<1>5. CASE ClockTriangle(c) = [t EXCEPT !.freq_counter = t.freq_counter - 1]
  BY <1>2, <1>5 DEF TriangleKept, LengthKept
<1>6. CASE ClockTriangle(c) = [[t EXCEPT !.step = (t.step + 1) % 32] EXCEPT !.freq_counter = t.freq_timer]
  BY <1>2, <1>6 DEF TriangleKept, LengthKept
<1> QED BY <1>3, <1>4, <1>5, <1>6

LEMMA TriangleQuarter ==
  ASSUME NEW c, TriangleKept(c)
  PROVE  /\ TriangleKept(ClockQuarterFrame(c))
         /\ LET l == c.linear
                k == ClockQuarterFrame(c).linear
            IN /\ k.counter = IF l.reload THEN l.load ELSE IF l.counter > 0 THEN l.counter - 1 ELSE 0
               /\ k.reload <=> l.reload /\ l.control
               /\ k.load = l.load /\ (k.control <=> l.control)
<1>1. PICK n : n = IF c.linear.reload THEN c.linear.load ELSE IF c.linear.counter > 0 THEN c.linear.counter - 1 ELSE 0
  OBVIOUS
<1>2. n \in Nat
  BY <1>1 DEF TriangleKept
<1>3. PICK k : k = [c.linear EXCEPT !.counter = n, !.reload = c.linear.reload /\ c.linear.control]
  OBVIOUS
<1>4. ClockQuarterFrame(c) = [c EXCEPT !.linear = k]
  BY <1>1, <1>3 DEF ClockQuarterFrame, ClockLinear, TriangleKept
<1>5. /\ k.counter = n /\ (k.reload <=> c.linear.reload /\ c.linear.control)
      /\ k.load = c.linear.load /\ (k.control <=> c.linear.control) /\ DOMAIN k = DOMAIN c.linear
  BY <1>3 DEF TriangleKept
<1>6. TriangleKept([c EXCEPT !.linear = k]) /\ [c EXCEPT !.linear = k].linear = k
  BY <1>2, <1>5 DEF TriangleKept, LengthKept
<1> QED BY <1>1, <1>4, <1>5, <1>6

LEMMA TriangleHalf ==
  ASSUME NEW c, TriangleKept(c)
  PROVE  TriangleKept(ClockHalfFrame(c)) /\ ClockHalfFrame(c).linear = c.linear
<1>1. ClockHalfFrame(c) = ClockLength(c)
  BY DEF ClockHalfFrame, TriangleKept
<1> QED BY <1>1 DEF ClockLength, TriangleKept, LengthKept

LEMMA TriangleEnables ==
  ASSUME NEW c, TriangleKept(c)
  PROVE  TriangleKept(SetEnabled(c, ~c.enabled)) /\ SetEnabled(c, ~c.enabled).linear = c.linear
BY DEF SetEnabled, TriangleKept, LengthKept

LEMMA TriangleWrite ==
  ASSUME NEW c, TriangleKept(c), NEW reg \in 0..3, NEW val \in Nat, val < 256
  PROVE  /\ TriangleKept(WriteTriangle(c, reg, val))
         /\ reg = 3 => WriteTriangle(c, reg, val).linear.reload
         /\ reg \in {1, 2} => WriteTriangle(c, reg, val).linear = c.linear
<1>1. CASE reg = 0
  <2>1. PICK l : l = [c.linear EXCEPT !.control = Bit(val, 7), !.load = val \div 2]
    OBVIOUS
  <2>2. val \div 2 \in Nat
    OBVIOUS
  <2>3. WriteTriangle(c, reg, val) = [c EXCEPT !.linear = l, !.length.enabled = ~Bit(val, 7)]
    BY <1>1, <2>1 DEF WriteTriangle
  <2>4. DOMAIN l = DOMAIN c.linear /\ l.load \in Nat /\ l.counter \in Nat
    BY <2>1, <2>2 DEF TriangleKept
  <2>5. TriangleKept([c EXCEPT !.linear = l, !.length.enabled = ~Bit(val, 7)])
    BY <2>4 DEF TriangleKept, LengthKept
  <2> QED BY <1>1, <2>3, <2>5
<1>2. CASE reg = 1
  BY <1>2 DEF WriteTriangle
<1>3. CASE reg = 2
  BY <1>3 DEF WriteTriangle, WriteTimerLo, TriangleKept, LengthKept
<1>4. CASE reg = 3
  <2>1. PICK n : n = LengthTable[(val \div 8) + 1]
    OBVIOUS
  <2>2. n \in Nat
    BY <2>1, LengthLoads
  <2>3. PICK f : f = 256 * (val % 8) + (c.freq_timer % 256)
    OBVIOUS
  <2>4. PICK d : d = [c EXCEPT !.freq_timer = f, !.freq_counter = f, !.linear.reload = TRUE]
    OBVIOUS
  <2>5. TriangleKept(d) /\ d.linear.reload
    BY <2>4 DEF TriangleKept, LengthKept
  <2>6. WriteTriangle(c, reg, val) = LoadLength(d, val)
    BY <1>4, <2>3, <2>4 DEF WriteTriangle, WriteTimerHi
  <2>7. WriteTriangle(c, reg, val) = IF d.enabled THEN [d EXCEPT !.length.counter = n] ELSE d
    BY <2>1, <2>6 DEF LoadLength
  <2> QED BY <1>4, <2>2, <2>5, <2>7 DEF TriangleKept, LengthKept
<1> QED BY <1>1, <1>2, <1>3, <1>4

-----------------------------------------------------------------------------
(* The noise. *)

(* The register is never zero and never has more than fourteen bits. *)
LEMMA ShiftedType ==
  ASSUME NEW c, NoiseKept(c)
  PROVE  Shifted(c) \in Nat /\ 1 <= Shifted(c) /\ Shifted(c) < 16384
<1>1. PICK s : s = c.shift
  OBVIOUS
<1>2. s \in Nat /\ 1 <= s /\ s < 16384
  BY <1>1 DEF NoiseKept
<1>3. PICK d \in {2, 64} : Bit(s, Tap(c)) <=> (s \div d) % 2 = 1
  BY Powers DEF Tap, Bit
<1>4. Bit(s, 0) <=> s % 2 = 1
  BY <1>2, Powers DEF Bit
<1>5. PICK t : t = IF Bit(s, 0) <=> Bit(s, Tap(c)) THEN 0 ELSE 16384
  OBVIOUS
<1>6. Shifted(c) = (s + t) \div 2
  <2>1. (Bit(s, 0) = Bit(s, Tap(c))) <=> (Bit(s, 0) <=> Bit(s, Tap(c)))
    BY DEF Bit
  <2> QED BY <1>1, <1>5, <2>1, Powers DEF Shifted
<1>7. s = 1 => t = 16384
  BY <1>3, <1>4, <1>5
<1>8. t \in {0, 16384}
  BY <1>5
<1> QED BY <1>2, <1>6, <1>7, <1>8

LEMMA NoiseClock ==
  ASSUME NEW c, NoiseKept(c)
  PROVE  NoiseKept(ClockNoise(c)) /\ ClockNoise(c).envelope = c.envelope
<1>1. PICK s : s = Shifted(c)
  OBVIOUS
<1>2. s \in Nat /\ 1 <= s /\ s < 16384
  BY <1>1, ShiftedType
<1>3. \/ ClockNoise(c) = [c EXCEPT !.freq_counter = c.freq_counter - 1]
      \/ ClockNoise(c) = [[c EXCEPT !.shift = s] EXCEPT !.freq_counter = c.freq_timer]
  BY <1>1 DEF ClockNoise, RunTimer
<1>4. CASE ClockNoise(c) = [c EXCEPT !.freq_counter = c.freq_counter - 1]
  BY <1>4 DEF NoiseKept, LengthKept
<1>5. CASE ClockNoise(c) = [[c EXCEPT !.shift = s] EXCEPT !.freq_counter = c.freq_timer]
  BY <1>2, <1>5 DEF NoiseKept, LengthKept
<1> QED BY <1>3, <1>4, <1>5

LEMMA NoiseQuarter ==
  ASSUME NEW c, NoiseKept(c)
  PROVE  NoiseKept(ClockQuarterFrame(c)) /\ ClockQuarterFrame(c).envelope = ClockEnvelope(c.envelope)
<1>1. PICK e : e = ClockEnvelope(c.envelope)
  OBVIOUS
<1>2. EnvelopeKept(e)
  BY <1>1, EnvelopeType DEF NoiseKept
<1>3. ClockQuarterFrame(c) = [c EXCEPT !.envelope = e]
  BY <1>1 DEF ClockQuarterFrame, NoiseKept
<1> QED BY <1>1, <1>2, <1>3 DEF NoiseKept, LengthKept

LEMMA NoiseHalf ==
  ASSUME NEW c, NoiseKept(c)
  PROVE  NoiseKept(ClockHalfFrame(c)) /\ ClockHalfFrame(c).envelope = c.envelope
<1>1. ClockHalfFrame(c) = ClockLength(c)
  BY DEF ClockHalfFrame, NoiseKept
<1> QED BY <1>1 DEF ClockLength, NoiseKept, LengthKept

LEMMA NoiseEnables ==
  ASSUME NEW c, NoiseKept(c)
  PROVE  NoiseKept(SetEnabled(c, ~c.enabled)) /\ SetEnabled(c, ~c.enabled).envelope = c.envelope
BY DEF SetEnabled, NoiseKept, LengthKept

LEMMA NoiseWrite ==
  ASSUME NEW c, NoiseKept(c), NEW reg \in 0..3, NEW val \in Nat, val < 256
  PROVE  /\ NoiseKept(WriteNoise(c, reg, val))
         /\ reg = 3 => WriteNoise(c, reg, val).envelope.reset
         /\ reg \in {1, 2} => WriteNoise(c, reg, val).envelope = c.envelope
<1>1. CASE reg = 0
  <2>1. val % 16 \in Nat
    OBVIOUS
  <2>2. PICK e : e = [c.envelope EXCEPT !.loops = Bit(val, 5), !.enabled = ~Bit(val, 4), !.constant_volume = val % 16]
    OBVIOUS
  <2>3. EnvelopeKept(e)
    BY <2>1, <2>2 DEF NoiseKept, EnvelopeKept
  <2>4. WriteNoise(c, reg, val) = [c EXCEPT !.length.enabled = ~Bit(val, 5), !.envelope = e]
    BY <1>1, <2>2 DEF WriteNoise, WriteEnvelope
  <2>5. NoiseKept([c EXCEPT !.length.enabled = ~Bit(val, 5), !.envelope = e])
    BY <2>3 DEF NoiseKept, LengthKept
  <2> QED BY <1>1, <2>4, <2>5
<1>2. CASE reg = 1
  BY <1>2 DEF WriteNoise
<1>3. CASE reg = 2
  <2>1. PICK f : f = FreqTable(c.pal)[(val % 16) + 1] - 1
    OBVIOUS
  <2>2. PICK m : m = IF Bit(val, 7) THEN "One" ELSE "Zero"
    OBVIOUS
  <2>3. WriteNoise(c, reg, val) = [c EXCEPT !.freq_timer = f, !.shift_mode = m]
    BY <1>3, <2>1, <2>2 DEF WriteNoise
  <2>4. PICK d : d = [c EXCEPT !.freq_timer = f, !.shift_mode = m]
    OBVIOUS
  <2>5. NoiseKept(d) /\ d.envelope = c.envelope
    BY <2>4 DEF NoiseKept, LengthKept
  <2>6. WriteNoise(c, reg, val) = d
    BY <2>3, <2>4
  <2> QED BY <1>3, <2>5, <2>6
<1>4. CASE reg = 3
  <2>1. PICK n : n = LengthTable[(val \div 8) + 1]
    OBVIOUS
  <2>2. n \in Nat
    BY <2>1, LengthLoads
  <2>3. PICK d : d = LoadLength(c, val)
    OBVIOUS
  <2>4. d = IF c.enabled THEN [c EXCEPT !.length.counter = n] ELSE c
    BY <2>1, <2>3 DEF LoadLength
  <2>5. NoiseKept(d)
    BY <2>2, <2>4 DEF NoiseKept, LengthKept
  <2>6. WriteNoise(c, reg, val) = [d EXCEPT !.envelope.reset = TRUE]
    BY <1>4, <2>3 DEF WriteNoise
  <2>7. PICK b : b = [d EXCEPT !.envelope.reset = TRUE]
    OBVIOUS
  <2>8. NoiseKept(b) /\ b.envelope.reset
    BY <2>5, <2>7 DEF NoiseKept, LengthKept, EnvelopeKept
  <2>9. WriteNoise(c, reg, val) = b
    BY <2>6, <2>7
  <2> QED BY <1>4, <2>8, <2>9
<1> QED BY <1>1, <1>2, <1>3, <1>4

(* The VRC6. *)

(* One of the seven double steps of the saw. *)
LEMMA SawNext ==
  ASSUME NEW n \in 0..13, NEW rate \in Nat, NEW a, a = ((n \div 2) * rate) % 256, NEW m, m = (n + 1) % 14
  PROVE  /\ m = 0 => ((m \div 2) * rate) % 256 = 0
         /\ m # 0 /\ m % 2 = 0 => ((m \div 2) * rate) % 256 = (a + rate) % 256
         /\ m # 0 /\ m % 2 # 0 => ((m \div 2) * rate) % 256 = a
<1>1. CASE m = 0
  <2>1. m \div 2 = 0 /\ 0 * rate = 0
    BY <1>1
  <2> QED BY <1>1, <2>1
<1>2. CASE m # 0 /\ m % 2 # 0
  <2>1. m \div 2 = n \div 2
    BY <1>2
  <2> QED BY <1>2, <2>1
<1>3. CASE m # 0 /\ m % 2 = 0
  <2>1. PICK k \in 0..5 : n \div 2 = k /\ m \div 2 = k + 1
    BY <1>3
  <2>2. PICK x : x = k * rate
    OBVIOUS
  <2>3. x \in Nat /\ (k + 1) * rate = x + rate
    <3>1. CASE k = 0
      BY <2>2, <3>1
    <3>2. CASE k = 1
      BY <2>2, <3>2
    <3>3. CASE k = 2
      BY <2>2, <3>3
    <3>4. CASE k = 3
      BY <2>2, <3>4
    <3>5. CASE k = 4
      BY <2>2, <3>5
    <3>6. CASE k = 5
      BY <2>2, <3>6
    <3> QED BY <2>1, <3>1, <3>2, <3>3, <3>4, <3>5, <3>6
  <2>4. a = x % 256
    BY <2>1, <2>2
  <2>5. (x + rate) % 256 = (a + rate) % 256
    BY <2>3, <2>4
  <2>6. ((m \div 2) * rate) % 256 = (x + rate) % 256
    BY <2>1, <2>3
  <2> QED BY <1>3, <2>5, <2>6
<1> QED BY <1>1, <1>2, <1>3

LEMMA FreqType ==
  ASSUME NEW f, f \in Nat, NEW k, k \in {0, 4, 8}
  PROVE  (f \div 2^k) + 1 \in Nat \ {0}
<1>1. CASE k = 0
  BY <1>1
<1>2. CASE k = 4
  BY <1>2
<1>3. CASE k = 8
  BY <1>3
<1> QED BY <1>1, <1>2, <1>3

LEMMA Vrc6Clock ==
  ASSUME NEW c, Vrc6Kept(c)
  PROVE  /\ Vrc6Kept(ClockVrc6(c)) /\ ClockVrc6(c).kind = c.kind
         /\ ClockVrc6(c).accum_rate = c.accum_rate
         /\ c.kind = "saw" =>
              IF ~c.halt /\ c.enabled /\ c.timer = 1
              THEN /\ ClockVrc6(c).step = (c.step + 1) % 14
                   /\ ClockVrc6(c).accum = CASE (c.step + 1) % 14 = 0 -> 0
                                             [] (c.step + 1) % 14 # 0 /\ ((c.step + 1) % 14) % 2 = 0
                                                  -> (c.accum + c.accum_rate) % 256
                                             [] OTHER -> c.accum
              ELSE ClockVrc6(c).step = c.step /\ ClockVrc6(c).accum = c.accum
<1>1. CASE c.halt \/ ~c.enabled
  BY <1>1 DEF ClockVrc6
<1>2. CASE ~c.halt /\ c.enabled /\ c.timer > 1
  <2>1. ClockVrc6(c) = [c EXCEPT !.timer = c.timer - 1]
    BY <1>2 DEF ClockVrc6
  <2>2. c.timer - 1 \in Nat \ {0} /\ c.timer # 1
    BY <1>2 DEF Vrc6Kept
  <2> QED BY <1>2, <2>1, <2>2 DEF Vrc6Kept
<1>3. CASE ~c.halt /\ c.enabled /\ c.timer = 1
  <2>1. PICK n : n = (c.frequency \div 2^c.freq_shift) + 1
    OBVIOUS
  <2>2. n \in Nat \ {0}
    <3>1. PICK f, k : f = c.frequency /\ k = c.freq_shift
      OBVIOUS
    <3>2. f \in Nat /\ k \in {0, 4, 8}
      BY <3>1 DEF Vrc6Kept
    <3>3. (f \div 2^k) + 1 \in Nat \ {0}
      BY <3>2, FreqType
    <3> QED BY <2>1, <3>1, <3>3
  <2>3. ClockVrc6(c) = [StepVrc6(c) EXCEPT !.timer = n]
    BY <1>3, <2>1 DEF ClockVrc6
  <2>4. CASE c.kind = "saw"
    <3>1. PICK m : m = (c.step + 1) % 14
      OBVIOUS
    <3>2. PICK a : a = CASE m = 0 -> 0 [] m # 0 /\ m % 2 = 0 -> (c.accum + c.accum_rate) % 256 [] OTHER -> c.accum
      OBVIOUS
    <3>3. m \in Nat /\ a \in Nat
      BY <3>1, <3>2 DEF Vrc6Kept
    <3>4. StepVrc6(c) = [c EXCEPT !.step = m, !.accum = a]
      BY <2>4, <3>1, <3>2 DEF StepVrc6, StepSaw
    <3>5. ClockVrc6(c) = [c EXCEPT !.step = m, !.accum = a, !.timer = n]
      BY <2>3, <3>4
    <3>6. PICK d : d = [c EXCEPT !.step = m, !.accum = a, !.timer = n]
      OBVIOUS
    <3>7. Vrc6Kept(d) /\ d.kind = c.kind /\ d.accum_rate = c.accum_rate /\ d.step = m /\ d.accum = a
      BY <1>3, <2>2, <3>3, <3>6 DEF Vrc6Kept
    <3>8. ClockVrc6(c) = d
      BY <3>5, <3>6
    <3> QED BY <1>3, <3>1, <3>2, <3>7, <3>8
  <2>5. CASE c.kind # "saw"
    <3>1. PICK m : m = (c.step + 1) % 16
      OBVIOUS
    <3>2. m \in Nat
      BY <3>1 DEF Vrc6Kept
    <3>3. StepVrc6(c) = [c EXCEPT !.step = m]
      BY <2>5, <3>1 DEF StepVrc6
    <3>4. PICK d : d = [c EXCEPT !.step = m, !.timer = n]
      OBVIOUS
    <3>5. Vrc6Kept(d) /\ d.kind = c.kind /\ d.accum_rate = c.accum_rate
      BY <1>3, <2>2, <3>2, <3>4 DEF Vrc6Kept
    <3>6. ClockVrc6(c) = d
      BY <2>3, <3>3, <3>4
    <3> QED BY <2>5, <3>5, <3>6
  <2> QED BY <2>4, <2>5
<1> QED BY <1>1, <1>2, <1>3 DEF Vrc6Kept

LEMMA Vrc6Halt ==
  ASSUME NEW c, Vrc6Kept(c)
  PROVE  LET d == [c EXCEPT !.halt = FALSE]
         IN Vrc6Kept(d) /\ d.kind = c.kind /\ d.step = c.step /\ d.accum = c.accum /\ d.accum_rate = c.accum_rate
BY DEF Vrc6Kept

LEMMA Vrc6Write ==
  ASSUME NEW c, Vrc6Kept(c), NEW reg \in 0..3, NEW val \in Nat, val < 256
  PROVE  LET d == WriteVrc6Sound(c, reg, val)
         IN /\ Vrc6Kept(d) /\ d.kind = c.kind
            /\ reg # 0 /\ d.enabled => d.step = c.step /\ d.accum = c.accum /\ d.accum_rate = c.accum_rate
<1>1. PICK d : d = WriteVrc6Sound(c, reg, val)
  OBVIOUS
<1>2. CASE reg = 0 /\ c.kind = "saw"
  <2>1. d = [c EXCEPT !.accum_rate = val % 64]
    BY <1>1, <1>2 DEF WriteVrc6Sound
  <2>2. val % 64 \in Nat
    OBVIOUS
  <2>3. Vrc6Kept(d) /\ d.kind = c.kind
    BY <2>1, <2>2 DEF Vrc6Kept
  <2> QED BY <1>1, <1>2, <2>3
<1>3. CASE reg = 0 /\ c.kind # "saw"
  <2>1. d = [c EXCEPT !.volume = val % 16, !.duty_cycle = Bits(val, 4, 3), !.ignore_duty = Bit(val, 7)]
    BY <1>1, <1>3 DEF WriteVrc6Sound
  <2>3. Vrc6Kept(d) /\ d.kind = c.kind
    BY <2>1 DEF Vrc6Kept
  <2> QED BY <1>1, <1>3, <2>3
<1>4. CASE reg = 1
  <2>1. PICK f : f = 256 * (c.frequency \div 256) + val
    OBVIOUS
  <2>2. f \in Nat
    BY <2>1 DEF Vrc6Kept
  <2>3. d = [c EXCEPT !.frequency = f]
    BY <1>1, <1>4, <2>1 DEF WriteVrc6Sound
  <2>4. Vrc6Kept(d) /\ d.kind = c.kind /\ d.step = c.step /\ d.accum = c.accum /\ d.accum_rate = c.accum_rate
    BY <2>2, <2>3 DEF Vrc6Kept
  <2> QED BY <1>1, <2>4
<1>5. CASE reg = 2
  <2>1. PICK f : f = 256 * (val % 16) + (c.frequency % 256)
    OBVIOUS
  <2>2. f \in Nat
    BY <2>1 DEF Vrc6Kept
  <2>3. PICK on : on = Bit(val, 7)
    OBVIOUS
  <2>4. PICK n, a : n = (IF on THEN c.step ELSE 0) /\ a = (IF on THEN c.accum ELSE 0)
    OBVIOUS
  <2>5. d = [c EXCEPT !.frequency = f, !.enabled = on, !.step = n, !.accum = a]
    BY <1>1, <1>5, <2>1, <2>3, <2>4 DEF WriteVrc6Sound
  <2>6. /\ DOMAIN d = DOMAIN c /\ d.kind = c.kind /\ d.enabled = on /\ d.step = n /\ d.accum = a
        /\ d.frequency = f /\ d.freq_shift = c.freq_shift /\ d.timer = c.timer /\ d.accum_rate = c.accum_rate
    BY <2>5 DEF Vrc6Kept
  <2>7. n \in Nat /\ a \in Nat /\ (~on => n = 0 /\ a = 0)
    BY <2>4 DEF Vrc6Kept
  <2>8. Vrc6Kept(d) /\ d.kind = c.kind
    BY <2>2, <2>6, <2>7 DEF Vrc6Kept
  <2>9. d.enabled => d.step = c.step /\ d.accum = c.accum /\ d.accum_rate = c.accum_rate
    BY <2>4, <2>6
  <2> QED BY <1>1, <2>8, <2>9
<1>6. CASE reg = 3
  <2>1. PICK k : k = IF Bit(val, 2) THEN 8 ELSE IF Bit(val, 1) THEN 4 ELSE 0
    OBVIOUS
  <2>2. k \in {0, 4, 8}
    BY <2>1
  <2>3. d = [c EXCEPT !.halt = Bit(val, 0), !.freq_shift = k]
    BY <1>1, <1>6, <2>1 DEF WriteVrc6Sound
  <2>4. Vrc6Kept(d) /\ d.kind = c.kind /\ d.step = c.step /\ d.accum = c.accum /\ d.accum_rate = c.accum_rate
    BY <2>2, <2>3 DEF Vrc6Kept
  <2> QED BY <1>1, <2>4
<1> QED BY <1>2, <1>3, <1>4, <1>5, <1>6

-----------------------------------------------------------------------------
(* The level of a note. *)

LEMMA DivStep ==
  ASSUME NEW m \in Nat, NEW p \in Nat \ {0}
  PROVE  /\ m \div p \in Nat /\ m % p \in 0..(p - 1)
         /\ m % p < p - 1 => (m + 1) % p = (m % p) + 1 /\ (m + 1) \div p = m \div p
         /\ m % p = p - 1 => (m + 1) % p = 0 /\ (m + 1) \div p = (m \div p) + 1
<1>1. m \div p \in Nat /\ m % p \in 0..(p - 1) /\ m = p * (m \div p) + (m % p)
  BY SMTT(30)
<1>2. CASE m % p < p - 1
  BY <1>1, <1>2, SMTT(30)
<1>3. CASE m % p = p - 1
  BY <1>1, <1>3, SMTT(30)
<1> QED BY <1>1, <1>2, <1>3

DueVolume(loops, steps) ==
  IF loops THEN 15 - (steps % 16) ELSE IF steps < 15 THEN 15 - steps ELSE 0

(* An envelope after n quarter frames of its note. *)
NoteOn(e, n) ==
  IF n = 0 THEN e.reset
  ELSE /\ ~e.reset
       /\ e.counter = e.constant_volume - ((n - 1) % (e.constant_volume + 1))
       /\ e.volume = DueVolume(e.loops, (n - 1) \div (e.constant_volume + 1))

LEMMA DecayDue ==
  ASSUME NEW e, EnvelopeKept(e), NEW q \in Nat, e.volume = DueVolume(e.loops, q)
  PROVE  Decay(e) = DueVolume(e.loops, q + 1)
<1>1. CASE e.loops
  BY <1>1 DEF Decay, DueVolume, EnvelopeKept
<1>2. CASE ~e.loops
  BY <1>2 DEF Decay, DueVolume, EnvelopeKept
<1> QED BY <1>1, <1>2

LEMMA NoteNext ==
  ASSUME NEW e, EnvelopeKept(e), NEW n \in Nat, NoteOn(e, n)
  PROVE  NoteOn(ClockEnvelope(e), n + 1)
<1>1. PICK d : d = ClockEnvelope(e)
  OBVIOUS
<1>2. PICK p : p = e.constant_volume + 1
  OBVIOUS
<1>3. p \in Nat \ {0} /\ e.constant_volume = p - 1
  BY <1>2 DEF EnvelopeKept
<1>4. CASE n = 0
  <2>1. d = [e EXCEPT !.reset = FALSE, !.volume = 15, !.counter = e.constant_volume]
    BY <1>1, <1>4 DEF ClockEnvelope, NoteOn
  <2>2. /\ ~d.reset /\ d.volume = 15 /\ d.counter = e.constant_volume /\ d.loops = e.loops
        /\ d.constant_volume = e.constant_volume
    BY <2>1 DEF EnvelopeKept
  <2>3. (n + 1) - 1 = 0 /\ n + 1 # 0
    BY <1>4
  <2>4. 0 % p = 0 /\ 0 \div p = 0
    BY <1>3
  <2>5. DueVolume(d.loops, 0) = 15
    BY DEF DueVolume
  <2>6. d.counter = d.constant_volume - (0 % p)
    BY <1>3, <2>2, <2>4
  <2>7. d.constant_volume + 1 = p
    BY <1>2, <2>2
  <2> QED BY <1>1, <2>2, <2>3, <2>4, <2>5, <2>6, <2>7 DEF NoteOn
<1>5. CASE n > 0
  <2>1. PICK m : m = n - 1
    OBVIOUS
  <2>2. m \in Nat /\ n = m + 1 /\ n # 0 /\ (n + 1) - 1 = m + 1 /\ n + 1 # 0
    BY <1>5, <2>1
  <2>3. /\ ~e.reset /\ e.counter = e.constant_volume - (m % p)
        /\ e.volume = DueVolume(e.loops, m \div p)
    BY <1>2, <2>1, <2>2 DEF NoteOn
  <2>4. /\ m \div p \in Nat /\ m % p \in 0..(p - 1)
        /\ m % p < p - 1 => (m + 1) % p = (m % p) + 1 /\ (m + 1) \div p = m \div p
        /\ m % p = p - 1 => (m + 1) % p = 0 /\ (m + 1) \div p = (m \div p) + 1
    BY <1>3, <2>2, DivStep
  <2>5. CASE m % p < p - 1
    <3>1. e.counter > 0
      BY <1>3, <2>3, <2>4, <2>5
    <3>2. d = [e EXCEPT !.counter = e.counter - 1]
      BY <1>1, <2>3, <3>1 DEF ClockEnvelope
    <3>3. /\ ~d.reset /\ d.volume = e.volume /\ d.counter = e.counter - 1 /\ d.loops = e.loops
          /\ d.constant_volume = e.constant_volume
      BY <2>3, <3>2 DEF EnvelopeKept
    <3>4. d.counter = d.constant_volume - ((m + 1) % p)
      BY <1>3, <2>3, <2>4, <2>5, <3>3
    <3>5. d.volume = DueVolume(d.loops, (m + 1) \div p)
      BY <2>3, <2>4, <2>5, <3>3
    <3>6. d.constant_volume + 1 = p
      BY <1>2, <3>3
    <3> QED BY <1>1, <2>2, <3>3, <3>4, <3>5, <3>6 DEF NoteOn
  <2>6. CASE m % p = p - 1
    <3>1. e.counter = 0
      BY <1>3, <2>3, <2>4, <2>6
    <3>2. PICK v : v = Decay(e)
      OBVIOUS
    <3>3. d = [e EXCEPT !.counter = e.constant_volume, !.volume = v]
      BY <1>1, <2>3, <3>1, <3>2 DEF ClockEnvelope
    <3>4. /\ ~d.reset /\ d.volume = v /\ d.counter = e.constant_volume /\ d.loops = e.loops
          /\ d.constant_volume = e.constant_volume
      BY <2>3, <3>3 DEF EnvelopeKept
    <3>5. d.counter = d.constant_volume - ((m + 1) % p)
      BY <1>3, <2>4, <2>6, <3>4
    <3>6. PICK q : q = m \div p
      OBVIOUS
    <3>7. q \in Nat /\ e.volume = DueVolume(e.loops, q)
      BY <2>3, <2>4, <3>6
    <3>8. v = DueVolume(e.loops, q + 1)
      BY <3>2, <3>7, DecayDue
    <3>9. d.volume = DueVolume(d.loops, (m + 1) \div p)
      BY <2>4, <2>6, <3>4, <3>6, <3>8
    <3>10. d.constant_volume + 1 = p
      BY <1>2, <3>4
    <3> QED BY <1>1, <2>2, <3>4, <3>5, <3>9, <3>10 DEF NoteOn
  <2> QED BY <1>3, <2>4, <2>5, <2>6
<1> QED BY <1>4, <1>5

(* The linear counter after n quarter frames of its note. *)
LinearOn(l, n) ==
  IF n = 0 THEN l.reload
  ELSE /\ l.reload <=> l.control
       /\ l.counter = IF l.control THEN l.load ELSE IF l.load >= n THEN l.load - (n - 1) ELSE 0

LEMMA LinearNext ==
  ASSUME NEW c, TriangleKept(c), NEW n \in Nat, LinearOn(c.linear, n)
  PROVE  LinearOn(ClockQuarterFrame(c).linear, n + 1)
<1>1. PICK k : k = ClockQuarterFrame(c).linear
  OBVIOUS
<1>2. PICK l : l = c.linear
  OBVIOUS
<1>3. /\ k.counter = IF l.reload THEN l.load ELSE IF l.counter > 0 THEN l.counter - 1 ELSE 0
      /\ k.reload <=> l.reload /\ l.control
      /\ k.load = l.load /\ (k.control <=> l.control)
  BY <1>1, <1>2, TriangleQuarter
<1>4. l.load \in Nat /\ l.counter \in Nat
  BY <1>2 DEF TriangleKept
<1>5. LinearOn(l, n)
  BY <1>2
<1>6. LinearOn(k, n + 1)
  BY <1>3, <1>4, <1>5 DEF LinearOn
<1> QED BY <1>1, <1>6

-----------------------------------------------------------------------------
(* A channel and what is followed of it. *)

Kept(c) == PulseKept(c) \/ TriangleKept(c) \/ NoiseKept(c) \/ Vrc6Kept(c)

SawOn(c, n) == n \in 0..13 /\ c.step = n /\ c.accum = ((n \div 2) * c.accum_rate) % 256

NoteKept(c, n) ==
  n # Unknown =>
    /\ c.kind \in {"pulse", "noise"} => NoteOn(c.envelope, n)
    /\ c.kind = "triangle" => LinearOn(c.linear, n)
    /\ c.kind = "saw" => SawOn(c, n)

ChannelInv ==
  /\ Kept(chan)
  /\ since \in Nat \cup {Unknown}
  /\ NoteKept(chan, since)
  /\ tune \in Tunes => tune.kind = chan.kind

LEMMA KeptKinds ==
  ASSUME NEW c, Kept(c)
  PROVE  /\ c.kind \in Kinds
         /\ c.kind = "pulse" <=> PulseKept(c)
         /\ c.kind = "triangle" <=> TriangleKept(c)
         /\ c.kind = "noise" <=> NoiseKept(c)
         /\ c.kind \in {"vrc6_pulse", "saw"} <=> Vrc6Kept(c)
<1>1. /\ PulseKept(c) => c.kind = "pulse"
      /\ TriangleKept(c) => c.kind = "triangle"
      /\ NoiseKept(c) => c.kind = "noise"
      /\ Vrc6Kept(c) => c.kind \in {"vrc6_pulse", "saw"}
  BY DEF PulseKept, TriangleKept, NoiseKept, Vrc6Kept
<1> QED BY <1>1 DEF Kept, Kinds

LEMMA NewKept ==
  ASSUME NEW t \in Tunes
  PROVE  Kept(New(t)) /\ New(t).kind = t.kind
<1>1. t.kind \in Kinds
  BY ChannelsAssumption
<1>2. CASE t.kind = "pulse"
  <2>1. PICK a, b : a = t.channel /\ b = t.ultrasonic
    OBVIOUS
  <2>2. New(t) = NewPulse(a, b)
    BY <1>2, <2>1 DEF New
  <2>3. PulseKept(NewPulse(a, b)) /\ NewPulse(a, b).kind = "pulse"
    BY DEF NewPulse, NewEnvelope, NewSweep, PulseKept, LengthKept, SweepKept, EnvelopeKept
  <2> QED BY <1>2, <2>2, <2>3 DEF Kept
<1>3. CASE t.kind = "triangle"
  BY <1>3 DEF New, NewTriangle, TriangleKept, LengthKept, Kept
<1>4. CASE t.kind = "noise"
  BY <1>4 DEF New, NewNoise, NewEnvelope, NoiseKept, LengthKept, EnvelopeKept, Kept
<1>5. CASE t.kind \in {"vrc6_pulse", "saw"}
  <2>1. PICK k \in {"vrc6_pulse", "saw"} : t.kind = k
    BY <1>5
  <2>2. New(t) = NewVrc6(k)
    BY <2>1 DEF New
  <2>3. Vrc6Kept(NewVrc6(k)) /\ NewVrc6(k).kind = k
    BY <2>1 DEF NewVrc6, Vrc6Kept
  <2> QED BY <2>1, <2>2, <2>3 DEF Kept
<1> QED BY <1>1, <1>2, <1>3, <1>4, <1>5 DEF Kinds

LEMMA ChannelStart == ChannelInit => ChannelInv /\ tune \in Tunes
<1> SUFFICES ASSUME ChannelInit PROVE ChannelInv /\ tune \in Tunes
  OBVIOUS
<1>1. tune \in Tunes /\ since = Unknown
  BY DEF ChannelInit
<1>2. Kept(chan) /\ chan.kind = tune.kind
  <2>1. CASE tune.pitch = 0
    BY <1>1, <2>1, NewKept DEF ChannelInit
  <2>2. CASE tune.pitch # 0
    <3>1. PICK f : f = tune.pitch
      OBVIOUS
    <3>2. f \in Nat /\ f < 2048 /\ tune.kind = "pulse"
      BY <1>1, <2>2, <3>1, ChannelsAssumption
    <3>3. PICK c : c = New(tune)
      OBVIOUS
    <3>4. PulseKept(c) /\ c.kind = tune.kind
      BY <1>1, <3>2, <3>3, NewKept, KeptKinds
    <3>5. chan = [c EXCEPT !.freq_timer = f, !.freq_counter = f]
      BY <2>2, <3>1, <3>3 DEF ChannelInit
    <3>6. PulseKept(chan) /\ chan.kind = c.kind
      BY <3>2, <3>4, <3>5 DEF PulseKept, LengthKept, SweepKept
    <3> QED BY <3>4, <3>6 DEF Kept
  <2> QED BY <2>1, <2>2
<1> QED BY <1>1, <1>2 DEF ChannelInv, NoteKept

(* A new channel that is of the old one's kind. *)
LEMMA SameKind ==
  ASSUME ChannelInv, UNCHANGED tune, Kept(chan'), chan'.kind = chan.kind,
         since' \in Nat \cup {Unknown}, NoteKept(chan', since')
  PROVE  ChannelInv'
<1>1. tune' \in Tunes => tune'.kind = chan'.kind
  BY DEF ChannelInv
<1> QED BY <1>1 DEF ChannelInv

LEMMA ChannelClocked ==
  ASSUME ChannelInv, ClockChannel
  PROVE  ChannelInv'
<1>1. Kept(chan) /\ since \in Nat \cup {Unknown} /\ NoteKept(chan, since) /\ UNCHANGED tune
  BY DEF ChannelInv, ClockChannel
<1>2. chan.kind # "saw" => since' = since
  BY DEF ClockChannel
<1>3. CASE chan.kind = "pulse"
  <2>1. chan' = ClockPulse(chan)
    BY <1>3 DEF ClockChannel, OnVrc6
  <2>2. PulseKept(chan') /\ chan'.envelope = chan.envelope
    BY <1>1, <1>3, <2>1, PulseClock, KeptKinds
  <2>3. Kept(chan') /\ chan'.kind = "pulse"
    BY <2>2 DEF Kept, PulseKept
  <2> QED BY <1>1, <1>2, <1>3, <2>2, <2>3, SameKind DEF NoteKept
<1>4. CASE chan.kind = "triangle"
  <2>1. chan' = ClockTriangle(chan)
    BY <1>4 DEF ClockChannel, OnVrc6
  <2>2. TriangleKept(chan') /\ chan'.linear = chan.linear
    BY <1>1, <1>4, <2>1, TriangleRuns, KeptKinds
  <2>3. Kept(chan') /\ chan'.kind = "triangle"
    BY <2>2 DEF Kept, TriangleKept
  <2> QED BY <1>1, <1>2, <1>4, <2>2, <2>3, SameKind DEF NoteKept
<1>5. CASE chan.kind = "noise"
  <2>1. chan' = ClockNoise(chan)
    BY <1>5 DEF ClockChannel, OnVrc6
  <2>2. NoiseKept(chan') /\ chan'.envelope = chan.envelope
    BY <1>1, <1>5, <2>1, NoiseClock, KeptKinds
  <2>3. Kept(chan') /\ chan'.kind = "noise"
    BY <2>2 DEF Kept, NoiseKept
  <2> QED BY <1>1, <1>2, <1>5, <2>2, <2>3, SameKind DEF NoteKept
<1>6. CASE OnVrc6
  <2>1. chan' = ClockVrc6(chan)
    BY <1>6 DEF ClockChannel, OnVrc6
  <2>2. Vrc6Kept(chan) /\ chan.kind \in {"vrc6_pulse", "saw"}
    BY <1>1, <1>6, KeptKinds DEF OnVrc6
  <2>3. /\ Vrc6Kept(chan') /\ chan'.kind = chan.kind /\ chan'.accum_rate = chan.accum_rate
        /\ chan.kind = "saw" =>
             IF ~chan.halt /\ chan.enabled /\ chan.timer = 1
             THEN /\ chan'.step = (chan.step + 1) % 14
                  /\ chan'.accum = CASE (chan.step + 1) % 14 = 0 -> 0
                                     [] (chan.step + 1) % 14 # 0 /\ ((chan.step + 1) % 14) % 2 = 0
                                          -> (chan.accum + chan.accum_rate) % 256
                                     [] OTHER -> chan.accum
             ELSE chan'.step = chan.step /\ chan'.accum = chan.accum
    BY <2>1, <2>2, Vrc6Clock
  <2>4. Kept(chan')
    BY <2>3 DEF Kept
  <2>5. CASE chan.kind = "vrc6_pulse"
    BY <1>1, <1>2, <2>3, <2>4, <2>5, SameKind DEF NoteKept
  <2>6. CASE chan.kind = "saw" /\ since # Unknown /\ chan.enabled /\ ~chan.halt /\ chan.timer = 1
    <3>1. since' = (since + 1) % 14
      BY <2>6 DEF ClockChannel
    <3>2. SawOn(chan, since)
      BY <1>1, <2>6 DEF NoteKept
    <3>3. PICK n, r, a, m : n = since /\ r = chan.accum_rate /\ a = chan.accum /\ m = (n + 1) % 14
      OBVIOUS
    <3>4. n \in 0..13 /\ r \in Nat /\ a = ((n \div 2) * r) % 256 /\ a \in Nat /\ m \in 0..13
      BY <2>2, <3>2, <3>3 DEF SawOn, Vrc6Kept
    <3>5. m = (n + 1) % 14
      BY <3>3
    <3>6. /\ m = 0 => ((m \div 2) * r) % 256 = 0
          /\ m # 0 /\ m % 2 = 0 => ((m \div 2) * r) % 256 = (a + r) % 256
          /\ m # 0 /\ m % 2 # 0 => ((m \div 2) * r) % 256 = a
      BY <3>4, <3>5, SawNext
    <3>7. chan'.step = m /\ since' = m /\ chan'.accum_rate = r
      BY <2>3, <2>6, <3>1, <3>2, <3>3 DEF SawOn
    <3>8. chan'.accum = CASE m = 0 -> 0 [] m # 0 /\ m % 2 = 0 -> (a + r) % 256 [] OTHER -> a
      BY <2>3, <2>6, <3>2, <3>3 DEF SawOn
    <3>9. chan'.accum = ((m \div 2) * r) % 256
      BY <3>4, <3>6, <3>8
    <3>10. SawOn(chan', since') /\ since' \in Nat
      BY <3>4, <3>7, <3>9 DEF SawOn
    <3> QED BY <1>1, <2>3, <2>4, <2>6, <3>10, SameKind DEF NoteKept
  <2>7. CASE chan.kind = "saw" /\ ~(since # Unknown /\ chan.enabled /\ ~chan.halt /\ chan.timer = 1)
    <3>1. since' = since
      BY <2>7 DEF ClockChannel
    <3>2. CASE since = Unknown
      BY <1>1, <2>3, <2>4, <3>1, <3>2, SameKind DEF NoteKept
    <3>3. CASE since # Unknown
      <4>1. SawOn(chan, since)
        BY <1>1, <2>7, <3>3 DEF NoteKept
      <4>2. SawOn(chan', since)
        BY <2>3, <2>7, <3>3, <4>1 DEF SawOn
      <4> QED BY <1>1, <2>3, <2>4, <2>7, <3>1, <4>2, SameKind DEF NoteKept
    <3> QED BY <3>2, <3>3
  <2> QED BY <2>2, <2>5, <2>6, <2>7
<1> QED BY <1>1, <1>3, <1>4, <1>5, <1>6, KeptKinds DEF Kinds, OnVrc6

LEMMA OneMoreType ==
  ASSUME since \in Nat \cup {Unknown}
  PROVE  /\ OneMore \in Nat \cup {Unknown}
         /\ OneMore = Unknown \/ (since \in Nat /\ since # Unknown /\ OneMore = since + 1)
BY DEF OneMore, Unknown

(* One quarter frame. *)
LEMMA QuarterKept ==
  ASSUME ChannelInv, ~OnVrc6, NEW d, d = ClockQuarterFrame(chan)
  PROVE  Kept(d) /\ d.kind = chan.kind /\ NoteKept(d, OneMore)
<1>1. OneMore = Unknown \/ (since \in Nat /\ since # Unknown /\ OneMore = since + 1)
  BY OneMoreType DEF ChannelInv
<1>2. CASE chan.kind \in {"pulse", "noise"}
  <2>1. /\ Kept(d) /\ d.kind = chan.kind
        /\ d.envelope = ClockEnvelope(chan.envelope) /\ EnvelopeKept(chan.envelope)
    <3>1. CASE chan.kind = "pulse"
      <4>1. PulseKept(chan)
        BY <3>1, KeptKinds DEF ChannelInv
      <4>2. PulseKept(d) /\ d.envelope = ClockEnvelope(chan.envelope)
        BY <4>1, PulseQuarter
      <4> QED BY <3>1, <4>1, <4>2 DEF Kept, PulseKept
    <3>2. CASE chan.kind = "noise"
      <4>1. NoiseKept(chan)
        BY <3>2, KeptKinds DEF ChannelInv
      <4>2. NoiseKept(d) /\ d.envelope = ClockEnvelope(chan.envelope)
        BY <4>1, NoiseQuarter
      <4> QED BY <3>2, <4>1, <4>2 DEF Kept, NoiseKept
    <3> QED BY <1>2, <3>1, <3>2
  <2>2. ASSUME since \in Nat, since # Unknown, OneMore = since + 1
        PROVE  NoteOn(d.envelope, OneMore)
    <3>1. NoteOn(chan.envelope, since)
      BY <1>2, <2>2 DEF ChannelInv, NoteKept
    <3>2. NoteOn(ClockEnvelope(chan.envelope), since + 1)
      BY <2>1, <2>2, <3>1, NoteNext
    <3> QED BY <2>1, <2>2, <3>2
  <2> QED BY <1>1, <1>2, <2>1, <2>2 DEF NoteKept
<1>3. CASE chan.kind = "triangle"
  <2>1. TriangleKept(chan)
    BY <1>3, KeptKinds DEF ChannelInv
  <2>2. TriangleKept(d)
    BY <2>1, TriangleQuarter
  <2>3. Kept(d) /\ d.kind = "triangle"
    BY <2>2 DEF Kept, TriangleKept
  <2>4. ASSUME since \in Nat, since # Unknown, OneMore = since + 1
        PROVE  LinearOn(d.linear, OneMore)
    <3>1. LinearOn(chan.linear, since)
      BY <1>3, <2>4 DEF ChannelInv, NoteKept
    <3>2. LinearOn(ClockQuarterFrame(chan).linear, since + 1)
      BY <2>1, <2>4, <3>1, LinearNext
    <3> QED BY <2>4, <3>2
  <2> QED BY <1>1, <1>3, <2>3, <2>4 DEF NoteKept
<1> QED BY <1>2, <1>3, KeptKinds DEF ChannelInv, Kinds, OnVrc6

(* Steps that do not touch the note. *)
LEMMA NoteSame ==
  ASSUME NEW c, NEW n, NoteKept(c, n), NEW d, d.kind = c.kind, c.kind \in {"pulse", "noise", "triangle"},
         c.kind \in {"pulse", "noise"} => d.envelope = c.envelope, c.kind = "triangle" => d.linear = c.linear
  PROVE  NoteKept(d, n)
BY DEF NoteKept

(* Half a frame, and a write of the enables. *)
LEMMA HalfKept ==
  ASSUME NEW c, Kept(c), c.kind \in {"pulse", "noise", "triangle"}, NEW n, NoteKept(c, n),
         NEW d, d = ClockHalfFrame(c) \/ d = SetEnabled(c, ~c.enabled)
  PROVE  Kept(d) /\ d.kind = c.kind /\ NoteKept(d, n)
<1>1. CASE c.kind = "pulse"
  <2>1. PulseKept(c)
    BY <1>1, KeptKinds
  <2>2. PulseKept(d) /\ d.envelope = c.envelope
    BY <2>1, PulseHalf, PulseEnables
  <2>3. d.kind = "pulse" /\ Kept(d)
    BY <2>2 DEF PulseKept, Kept
  <2> QED BY <1>1, <2>2, <2>3, NoteSame
<1>2. CASE c.kind = "noise"
  <2>1. NoiseKept(c)
    BY <1>2, KeptKinds
  <2>2. NoiseKept(d) /\ d.envelope = c.envelope
    BY <2>1, NoiseHalf, NoiseEnables
  <2>3. d.kind = "noise" /\ Kept(d)
    BY <2>2 DEF NoiseKept, Kept
  <2> QED BY <1>2, <2>2, <2>3, NoteSame
<1>3. CASE c.kind = "triangle"
  <2>1. TriangleKept(c)
    BY <1>3, KeptKinds
  <2>2. TriangleKept(d) /\ d.linear = c.linear
    BY <2>1, TriangleHalf, TriangleEnables
  <2>3. d.kind = "triangle" /\ Kept(d)
    BY <2>2 DEF TriangleKept, Kept
  <2> QED BY <1>3, <2>2, <2>3, NoteSame
<1> QED BY <1>1, <1>2, <1>3

LEMMA ChannelFrames ==
  ASSUME ChannelInv, QuarterFrame \/ HalfFrame \/ WriteEnables
  PROVE  ChannelInv'
<1>1. chan.kind \in {"pulse", "noise", "triangle"}
  <2>1. ~OnVrc6
    BY DEF QuarterFrame, HalfFrame, WriteEnables
  <2> QED BY <2>1, KeptKinds DEF ChannelInv, OnVrc6, Kinds
<1>2. ~OnVrc6
  BY <1>1 DEF OnVrc6
<1>3. PICK c : c = ClockQuarterFrame(chan)
  OBVIOUS
<1>4. Kept(c) /\ c.kind = chan.kind /\ NoteKept(c, OneMore)
  BY <1>2, <1>3, QuarterKept
<1>5. OneMore \in Nat \cup {Unknown}
  BY OneMoreType DEF ChannelInv
<1>6. CASE QuarterFrame
  <2>1. chan' = c /\ since' = OneMore /\ UNCHANGED tune
    BY <1>3, <1>6 DEF QuarterFrame
  <2> QED BY <1>4, <1>5, <2>1, SameKind
<1>7. CASE HalfFrame
  <2>1. chan' = ClockHalfFrame(c) /\ since' = OneMore /\ UNCHANGED tune
    BY <1>3, <1>7 DEF HalfFrame
  <2>2. Kept(chan') /\ chan'.kind = c.kind /\ NoteKept(chan', OneMore)
    BY <1>1, <1>4, <2>1, HalfKept
  <2> QED BY <1>4, <1>5, <2>1, <2>2, SameKind
<1>8. CASE WriteEnables
  <2>1. chan' = SetEnabled(chan, ~chan.enabled) /\ since' = since /\ UNCHANGED tune
    BY <1>8 DEF WriteEnables
  <2>2. Kept(chan') /\ chan'.kind = chan.kind /\ NoteKept(chan', since)
    BY <1>1, <2>1, HalfKept DEF ChannelInv
  <2>3. since' \in Nat \cup {Unknown} /\ NoteKept(chan', since')
    BY <2>1, <2>2 DEF ChannelInv
  <2> QED BY <2>1, <2>2, <2>3, SameKind
<1> QED BY <1>6, <1>7, <1>8

LEMMA ChannelRegion ==
  ASSUME ChannelInv, SetRegion
  PROVE  ChannelInv'
<1>1. chan.kind = "noise" /\ since' = since /\ UNCHANGED tune
  BY DEF SetRegion
<1>2. NoiseKept(chan)
  BY <1>1, KeptKinds DEF ChannelInv
<1>3. PICK b : chan' = [chan EXCEPT !.pal = b]
  BY DEF SetRegion
<1>4. NoiseKept(chan') /\ chan'.envelope = chan.envelope
  BY <1>2, <1>3 DEF NoiseKept, LengthKept
<1>5. chan'.kind = "noise" /\ Kept(chan')
  BY <1>4 DEF NoiseKept, Kept
<1>6. NoteKept(chan', since')
  BY <1>1, <1>4, <1>5 DEF ChannelInv, NoteKept
<1> QED BY <1>1, <1>5, <1>6, SameKind DEF ChannelInv

LEMMA ChannelReset ==
  ASSUME ChannelInv, tune \in Tunes, ResetSound
  PROVE  ChannelInv'
<1>1. CASE OnVrc6
  <2>1. chan' = [chan EXCEPT !.halt = FALSE] /\ since' = since /\ UNCHANGED tune
    BY <1>1 DEF ResetSound
  <2>2. Vrc6Kept(chan) /\ chan.kind \in {"vrc6_pulse", "saw"}
    BY <1>1, KeptKinds DEF ChannelInv, OnVrc6
  <2>3. /\ Vrc6Kept(chan') /\ chan'.kind = chan.kind /\ chan'.step = chan.step /\ chan'.accum = chan.accum
        /\ chan'.accum_rate = chan.accum_rate
    BY <2>1, <2>2, Vrc6Halt
  <2>4. Kept(chan')
    BY <2>3 DEF Kept
  <2>5. NoteKept(chan', since')
    BY <2>1, <2>2, <2>3 DEF ChannelInv, NoteKept, SawOn
  <2> QED BY <2>1, <2>3, <2>4, <2>5, SameKind DEF ChannelInv
<1>2. CASE ~OnVrc6
  <2>1. chan' = New(tune) /\ since' = Unknown /\ UNCHANGED tune
    BY <1>2 DEF ResetSound
  <2>2. Kept(chan') /\ chan'.kind = chan.kind
    BY <2>1, NewKept DEF ChannelInv
  <2> QED BY <2>1, <2>2, SameKind DEF NoteKept
<1> QED BY <1>1, <1>2

LEMMA ChannelWrites ==
  ASSUME ChannelInv, tune \in Tunes, WriteRegister
  PROVE  ChannelInv'
<1>1. PICK w \in tune.writes :
        /\ chan' = CASE chan.kind = "pulse"    -> WritePulse(chan, w[1], w[2])
                     [] chan.kind = "triangle" -> WriteTriangle(chan, w[1], w[2])
                     [] chan.kind = "noise"    -> WriteNoise(chan, w[1], w[2])
                     [] OnVrc6                 -> WriteVrc6Sound(chan, w[1], w[2])
        /\ since' = Played(chan, w)
        /\ UNCHANGED tune
  BY DEF WriteRegister
<1>2. PICK reg, val : reg = w[1] /\ val = w[2]
  OBVIOUS
<1>3. reg \in 0..3 /\ val \in Nat /\ val < 256
  BY <1>1, <1>2, ChannelsAssumption
<1>4. Kept(chan) /\ since \in Nat \cup {Unknown} /\ NoteKept(chan, since) /\ 0 # Unknown
  BY DEF ChannelInv, Unknown
<1>5. UNCHANGED tune
  BY <1>1
<1>6. chan.kind # "saw" => since' = IF "notes" \notin tune.uses THEN Unknown
                                     ELSE IF reg = 3 THEN 0 ELSE IF reg = 0 THEN Unknown ELSE since
  BY <1>1, <1>2 DEF Played
<1>7. CASE chan.kind = "pulse"
  <2>1. chan' = WritePulse(chan, reg, val)
    BY <1>1, <1>2, <1>7 DEF OnVrc6
  <2>2. PulseKept(chan)
    BY <1>4, <1>7, KeptKinds
  <2>3. /\ PulseKept(chan')
        /\ reg = 3 => chan'.envelope.reset
        /\ reg \in {1, 2} => chan'.envelope = chan.envelope
    BY <1>3, <2>1, <2>2, PulseWrite
  <2>4. chan'.kind = chan.kind /\ Kept(chan')
    BY <1>7, <2>3 DEF PulseKept, Kept
  <2>5. NoteKept(chan', since')
    BY <1>3, <1>4, <1>6, <1>7, <2>3, <2>4 DEF NoteKept, NoteOn
  <2> QED BY <1>4, <1>5, <1>6, <1>7, <2>4, <2>5, SameKind
<1>8. CASE chan.kind = "triangle"
  <2>1. chan' = WriteTriangle(chan, reg, val)
    BY <1>1, <1>2, <1>8 DEF OnVrc6
  <2>2. TriangleKept(chan)
    BY <1>4, <1>8, KeptKinds
  <2>3. /\ TriangleKept(chan')
        /\ reg = 3 => chan'.linear.reload
        /\ reg \in {1, 2} => chan'.linear = chan.linear
    BY <1>3, <2>1, <2>2, TriangleWrite
  <2>4. chan'.kind = chan.kind /\ Kept(chan')
    BY <1>8, <2>3 DEF TriangleKept, Kept
  <2>5. NoteKept(chan', since')
    BY <1>3, <1>4, <1>6, <1>8, <2>3, <2>4 DEF NoteKept, LinearOn
  <2> QED BY <1>4, <1>5, <1>6, <1>8, <2>4, <2>5, SameKind
<1>9. CASE chan.kind = "noise"
  <2>1. chan' = WriteNoise(chan, reg, val)
    BY <1>1, <1>2, <1>9 DEF OnVrc6
  <2>2. NoiseKept(chan)
    BY <1>4, <1>9, KeptKinds
  <2>3. /\ NoiseKept(chan')
        /\ reg = 3 => chan'.envelope.reset
        /\ reg \in {1, 2} => chan'.envelope = chan.envelope
    BY <1>3, <2>1, <2>2, NoiseWrite
  <2>4. chan'.kind = chan.kind /\ Kept(chan')
    BY <1>9, <2>3 DEF NoiseKept, Kept
  <2>5. NoteKept(chan', since')
    BY <1>3, <1>4, <1>6, <1>9, <2>3, <2>4 DEF NoteKept, NoteOn
  <2> QED BY <1>4, <1>5, <1>6, <1>9, <2>4, <2>5, SameKind
<1>10. CASE OnVrc6
  <2>1. chan' = WriteVrc6Sound(chan, reg, val)
    BY <1>1, <1>2, <1>10 DEF OnVrc6
  <2>2. Vrc6Kept(chan) /\ chan.kind \in {"vrc6_pulse", "saw"}
    BY <1>4, <1>10, KeptKinds DEF OnVrc6
  <2>3. /\ Vrc6Kept(chan') /\ chan'.kind = chan.kind
        /\ reg # 0 /\ chan'.enabled =>
             chan'.step = chan.step /\ chan'.accum = chan.accum /\ chan'.accum_rate = chan.accum_rate
    BY <1>3, <2>1, <2>2, Vrc6Write
  <2>4. Kept(chan')
    BY <2>3 DEF Kept
  <2>5. CASE chan.kind = "vrc6_pulse"
    BY <1>4, <1>5, <1>6, <2>3, <2>4, <2>5, SameKind DEF NoteKept
  <2>6. CASE chan.kind = "saw"
    <3>1. since' = IF "notes" \notin tune.uses THEN Unknown
                   ELSE IF ~chan'.enabled THEN 0 ELSE IF reg = 0 THEN Unknown ELSE since
      BY <1>1, <1>2, <2>6 DEF Played
    <3>2. ~chan'.enabled => SawOn(chan', 0)
      <4>1. PICK r : r = chan'.accum_rate
        OBVIOUS
      <4>2. r \in Nat /\ ~chan'.enabled => (chan'.step = 0 /\ chan'.accum = 0)
        BY <2>3, <4>1 DEF Vrc6Kept
      <4>3. r \in Nat
        BY <2>3, <4>1 DEF Vrc6Kept
      <4>4. ((0 \div 2) * r) % 256 = 0
        BY <4>3
      <4> QED BY <4>1, <4>2, <4>3, <4>4 DEF SawOn
    <3>3. since # Unknown => SawOn(chan, since)
      BY <1>4, <2>6 DEF NoteKept
    <3>4. since # Unknown /\ reg # 0 /\ chan'.enabled => SawOn(chan', since)
      BY <2>3, <3>3 DEF SawOn
    <3>5. NoteKept(chan', since')
      BY <2>3, <2>6, <3>1, <3>2, <3>4 DEF NoteKept
    <3> QED BY <1>4, <1>5, <2>3, <2>4, <3>1, <3>5, SameKind
  <2> QED BY <2>2, <2>5, <2>6
<1> QED BY <1>4, <1>7, <1>8, <1>9, <1>10, KeptKinds DEF Kinds, OnVrc6

LEMMA ChannelStep ==
  ASSUME ChannelInv, tune \in Tunes, ChannelNext
  PROVE  ChannelInv'
BY ChannelClocked, ChannelFrames, ChannelRegion, ChannelReset, ChannelWrites DEF ChannelNext

LEMMA ChannelPromises == ChannelInv => ChannelInRange /\ LevelOfNote
<1> SUFFICES ASSUME ChannelInv PROVE ChannelInRange /\ LevelOfNote
  OBVIOUS
<1>1. ChannelInRange
  <2>0. Kept(chan)
    BY DEF ChannelInv
  <2>1. ASSUME chan.kind = "pulse" PROVE chan.freq_timer < 2048 /\ (chan.enabled \/ chan.length.counter = 0)
    <3>1. PulseKept(chan)
      BY <2>0, <2>1, KeptKinds
    <3>2. LengthKept(chan) /\ chan.freq_timer \in Nat /\ chan.freq_timer < 2048
      BY <3>1 DEF PulseKept
    <3> QED BY <3>2 DEF LengthKept
  <2>2. ASSUME chan.kind = "triangle" PROVE chan.enabled \/ chan.length.counter = 0
    <3>1. TriangleKept(chan)
      BY <2>0, <2>2, KeptKinds
    <3> QED BY <3>1 DEF TriangleKept, LengthKept
  <2>3. ASSUME chan.kind = "noise" PROVE chan.shift \in 1..(2^14 - 1) /\ (chan.enabled \/ chan.length.counter = 0)
    <3>1. NoiseKept(chan)
      BY <2>0, <2>3, KeptKinds
    <3>2. LengthKept(chan) /\ chan.shift \in Nat /\ 1 <= chan.shift /\ chan.shift < 16384
      BY <3>1 DEF NoiseKept
    <3>3. chan.enabled \/ chan.length.counter = 0
      BY <3>2 DEF LengthKept
    <3>4. PICK top : top = 2^14
      OBVIOUS
    <3>5. top = 16384
      BY <3>4
    <3>6. chan.shift \in 1..(top - 1)
      <4>1. PICK shift : shift = chan.shift
        OBVIOUS
      <4>2. top \in Nat /\ shift \in Nat /\ 1 <= shift /\ shift < top
        BY <3>2, <3>5, <4>1
      <4>3. shift \in 1..(top - 1)
        BY <4>2
      <4> QED BY <4>1, <4>3
    <3> QED BY <3>3, <3>4, <3>6, Zenon
  <2>4. ASSUME OnVrc6 PROVE chan.timer >= 1
    <3>1. Vrc6Kept(chan)
      BY <2>0, <2>4, KeptKinds DEF OnVrc6
    <3> QED BY <3>1 DEF Vrc6Kept
  <2> QED BY <2>1, <2>2, <2>3, <2>4 DEF ChannelInRange
<1>2. LevelOfNote
  <2> SUFFICES ASSUME since # Unknown
               PROVE CASE chan.kind = "saw"               -> chan.accum = ((since \div 2) * chan.accum_rate) % 256
                       [] chan.kind \in {"pulse", "noise"} -> since > 0 => chan.envelope.volume = Envelope(since)
                       [] chan.kind = "triangle"          -> since > 0 => chan.linear.counter = Linear(since)
                       [] OTHER                           -> TRUE
    BY DEF LevelOfNote
  <2>1. CASE chan.kind = "saw"
    BY <2>1 DEF ChannelInv, NoteKept, SawOn
  <2>2. CASE chan.kind \in {"pulse", "noise"}
    <3>1. since > 0 => chan.envelope.volume = Envelope(since)
      BY <2>2 DEF ChannelInv, NoteKept, NoteOn, Envelope, DueVolume
    <3> QED BY <2>2, <3>1
  <2>3. CASE chan.kind = "triangle"
    <3>1. since > 0 => chan.linear.counter = Linear(since)
      BY <2>3 DEF ChannelInv, NoteKept, LinearOn, Linear
    <3> QED BY <2>3, <3>1
  <2>4. CASE chan.kind \notin {"saw", "pulse", "noise", "triangle"}
    BY <2>4
  <2> QED BY <2>1, <2>2, <2>3, <2>4
<1> QED BY <1>1, <1>2

-----------------------------------------------------------------------------
(* The memory of the PPU (VideoMemory). *)

(* What is assumed of a cartridge. *)
GameKept(g) ==
  /\ g.mirroring \in DOMAIN Shift /\ g.modes \subseteq DOMAIN Shift
  /\ g.reset # "Kept" => g.mirroring # "FourScreen" /\ "FourScreen" \notin g.modes
  /\ \A byte \in g.hi \union g.lo : byte \in Nat /\ byte < 256

Screens == {"Vertical", "Horizontal", "SingleScreenA", "SingleScreenB"}

PortKept ==
  /\ {"v", "t", "write_latch", "vram_buffer", "increment", "reset_signal"} \subseteq DOMAIN port
  /\ port.v \in Nat /\ port.v < AddrSpace
  /\ port.t \in Nat /\ port.increment \in Nat

BusKept ==
  /\ {"mirroring", "mirror_shift", "ciram", "palette", "chr_ram", "exram"} \subseteq DOMAIN bus
  /\ shown \in DOMAIN Shift /\ bus.mirror_shift = Shift[shown]
  /\ shown = "FourScreen" /\ ~game.exram => bus.mirroring = "FourScreen"
  /\ game.reset # "Kept" => shown # "FourScreen"

IsColour(a) == a \in Nat /\ a < 32 /\ (a < 16 \/ a % 4 # 0)

(* The memories hold what the program stored. *)
PatternsLinked == \A a \in Nat : a < NtStart => At(bus.chr_ram, a) = At(stored, <<"pattern", a>>)
ScreensLinked  ==
  \A page \in 0..1 : \A o \in Nat : o < NtSize =>
    At(bus.ciram, (NtSize * page) + o) = At(stored, <<"screen", page, o>>)
ColoursLinked  == \A a : IsColour(a) => At(bus.palette, a) = At(stored, <<"palette", a>>)

MemoryInv ==
  /\ GameKept(game) /\ PortKept /\ BusKept
  /\ game.chr_ram => PatternsLinked
  /\ ScreensLinked /\ ColoursLinked
  /\ ~game.exram => port.vram_buffer = buffered

LEMMA SizesAre ==
  NtStart = 8192 /\ NtSize = 1024 /\ PaletteStart = 16128 /\ AddrSpace = 16384 /\ \h3000 = 12288 /\ \h1000 = 4096
BY DEF NtStart, NtSize, PaletteStart, AddrSpace

LEMMA PutAt == ASSUME NEW mem, NEW a, NEW b, NEW c PROVE At(Put(mem, a, b), c) = IF c = a THEN b ELSE At(mem, c)
BY DEF At, Put

LEMMA BlankAt == \A c : At(Blank, c) = 0
BY DEF At, Blank

LEMMA Shifts ==
  /\ DOMAIN Shift = Screens \cup {"FourScreen"}
  /\ Shift["Vertical"] = 0 /\ Shift["Horizontal"] = 1 /\ Shift["SingleScreenA"] = 2 /\ Shift["SingleScreenB"] = 3
  /\ Shift["FourScreen"] = 4
BY DEF Shift, Screens

(* The cell of the memory that an address of the nametables has. *)
LEMMA CellOf ==
  ASSUME BusKept, shown \in Screens, NEW addr \in Nat, NtStart <= addr, addr < PaletteStart
  PROVE  /\ Page(shown, addr) \in 0..1 /\ addr % NtSize \in Nat /\ addr % NtSize < NtSize
         /\ CiramMirror(addr) = (NtSize * Page(shown, addr)) + (addr % NtSize)
<1>1. 2^0 = 1 /\ 2^1 = 2 /\ 2^2 = 4 /\ 2^3 = 8
  OBVIOUS
<1>2. PICK k : k = 2^bus.mirror_shift
  OBVIOUS
<1>3. CiramMirror(addr) = 1024 * ((addr \div (1024 * k)) % 2) + (addr % 1024)
  BY <1>2 DEF CiramMirror, NtSize
<1>4. 8192 <= addr /\ addr < 16128 /\ NtSize = 1024 /\ addr % 1024 \in Nat /\ addr % 1024 < 1024
  BY SizesAre
<1>5. CASE shown = "Vertical"
  <2>1. k = 1
    BY <1>1, <1>2, <1>5, Shifts DEF BusKept
  <2>2. Page(shown, addr) = ((addr \div 1024) % 4) % 2
    BY <1>5 DEF Page, NtSize
  <2> QED BY <1>3, <1>4, <2>1, <2>2
<1>6. CASE shown = "Horizontal"
  <2>1. k = 2
    BY <1>1, <1>2, <1>6, Shifts DEF BusKept
  <2>2. Page(shown, addr) = ((addr \div 1024) % 4) \div 2
    BY <1>6 DEF Page, NtSize
  <2> QED BY <1>3, <1>4, <2>1, <2>2
<1>7. CASE shown = "SingleScreenA"
  <2>1. k = 4
    BY <1>1, <1>2, <1>7, Shifts DEF BusKept
  <2>2. Page(shown, addr) = IF addr < 12288 THEN 0 ELSE 1
    BY <1>7 DEF Page
  <2> QED BY <1>3, <1>4, <2>1, <2>2
<1>8. CASE shown = "SingleScreenB"
  <2>1. k = 8
    BY <1>1, <1>2, <1>8, Shifts DEF BusKept
  <2>2. Page(shown, addr) = 1
    BY <1>8 DEF Page
  <2> QED BY <1>3, <1>4, <2>1, <2>2
<1> QED BY <1>5, <1>6, <1>7, <1>8 DEF Screens

(* The colour that an address of the palettes has. *)
LEMMA ColourOf ==
  ASSUME NEW addr \in Nat, PaletteStart <= addr, addr < AddrSpace
  PROVE  IsColour(IF addr % 4 = 0 THEN addr % 16 ELSE addr % 32)
         /\ PaletteMirror(addr) = IF addr % 4 = 0 THEN addr % 16 ELSE addr % 32
BY DEF PaletteMirror, IsColour

(* What Place, HasMemory and ReadBus are in the three regions. *)
LEMMA InPatterns ==
  ASSUME NEW addr \in Nat, addr < NtStart
  PROVE  /\ Place(addr) = <<"pattern", addr>>
         /\ HasMemory(addr) <=> game.chr_ram
         /\ ReadBus(addr) = IF game.chr_ram THEN At(bus.chr_ram, addr) ELSE RomByte(addr)
<1>1. NtStart \in Nat /\ PaletteStart \in Nat /\ NtStart < PaletteStart
  BY SizesAre
<1>2. addr \notin NtStart..(PaletteStart - 1) /\ ~(addr >= PaletteStart)
  BY <1>1
<1> QED BY <1>2 DEF Place, HasMemory, ReadBus

LEMMA InScreens ==
  ASSUME NEW addr \in Nat, NtStart <= addr, addr < PaletteStart
  PROVE  /\ Place(addr) = IF game.exram THEN <<"board", Page("FourScreen", addr), addr % NtSize>>
                          ELSE <<"screen", Page(shown, addr), addr % NtSize>>
         /\ HasMemory(addr) <=> game.exram \/ bus.mirroring # "FourScreen"
         /\ ~game.exram => ReadBus(addr) = IF bus.mirroring = "FourScreen" THEN 0 ELSE At(bus.ciram, CiramMirror(addr))
<1>1. addr \in NtStart..(PaletteStart - 1) /\ ~(addr >= PaletteStart) /\ ~(addr < NtStart)
  BY SizesAre
<1> QED BY <1>1 DEF Place, HasMemory, ReadBus

LEMMA InColours ==
  ASSUME NEW addr \in Nat, PaletteStart <= addr
  PROVE  /\ Place(addr) = <<"palette", IF addr % 4 = 0 THEN addr % 16 ELSE addr % 32>>
         /\ HasMemory(addr)
         /\ ReadBus(addr) = At(bus.palette, PaletteMirror(addr))
<1>1. NtStart \in Nat /\ PaletteStart \in Nat /\ NtStart < PaletteStart
  BY SizesAre
<1>2. addr \notin NtStart..(PaletteStart - 1) /\ ~(addr < NtStart) /\ addr >= PaletteStart
  BY <1>1
<1> QED BY <1>2 DEF Place, HasMemory, ReadBus

(* A byte that the bus reads is the one that the program stored at its place. *)
LEMMA ReadsStored ==
  ASSUME MemoryInv, ~game.exram, NEW addr \in Nat, addr < AddrSpace
  PROVE  ReadBus(addr) = Stored(addr)
<1>1. CASE addr < NtStart
  <2>1. Stored(addr) = IF game.chr_ram THEN At(stored, <<"pattern", addr>>) ELSE RomByte(addr)
    BY <1>1, InPatterns DEF Stored
  <2>2. game.chr_ram => At(bus.chr_ram, addr) = At(stored, <<"pattern", addr>>)
    BY <1>1 DEF MemoryInv, PatternsLinked
  <2> QED BY <1>1, <2>1, <2>2, InPatterns
<1>2. CASE NtStart <= addr /\ addr < PaletteStart
  <2>1. Stored(addr) = IF bus.mirroring = "FourScreen" THEN 0 ELSE At(stored, <<"screen", Page(shown, addr), addr % NtSize>>)
    BY <1>2, InScreens, SizesAre DEF Stored
  <2>2. ReadBus(addr) = IF bus.mirroring = "FourScreen" THEN 0 ELSE At(bus.ciram, CiramMirror(addr))
    BY <1>2, InScreens
  <2>3. CASE bus.mirroring # "FourScreen"
    <3>1. shown \in Screens
      BY <2>3, Shifts DEF MemoryInv, BusKept
    <3>2. /\ Page(shown, addr) \in 0..1 /\ addr % NtSize \in Nat /\ addr % NtSize < NtSize
          /\ CiramMirror(addr) = (NtSize * Page(shown, addr)) + (addr % NtSize)
      BY <1>2, <3>1, CellOf DEF MemoryInv
    <3>3. PICK page, o : page = Page(shown, addr) /\ o = addr % NtSize
      OBVIOUS
    <3>4. At(bus.ciram, (NtSize * page) + o) = At(stored, <<"screen", page, o>>)
      BY <3>2, <3>3 DEF MemoryInv, ScreensLinked
    <3> QED BY <2>1, <2>2, <2>3, <3>2, <3>3, <3>4
  <2> QED BY <2>1, <2>2, <2>3
<1>3. CASE PaletteStart <= addr
  <2>1. PICK a : a = IF addr % 4 = 0 THEN addr % 16 ELSE addr % 32
    OBVIOUS
  <2>2. IsColour(a) /\ PaletteMirror(addr) = a
    BY <1>3, <2>1, ColourOf
  <2>3. Stored(addr) = At(stored, <<"palette", a>>)
    BY <1>3, <2>1, InColours DEF Stored
  <2>4. At(bus.palette, a) = At(stored, <<"palette", a>>)
    BY <2>2 DEF MemoryInv, ColoursLinked
  <2> QED BY <1>3, <2>2, <2>3, <2>4, InColours
<1> QED BY <1>1, <1>2, <1>3, SizesAre

(* Only the game, the board's mirroring and what is linked to them count. *)
LEMMA LinksKept ==
  ASSUME MemoryInv, UNCHANGED <<game, shown, stored>>,
         UNCHANGED <<bus.ciram, bus.palette, bus.chr_ram>>
  PROVE  (game'.chr_ram => PatternsLinked') /\ ScreensLinked' /\ ColoursLinked'
BY DEF MemoryInv, PatternsLinked, ScreensLinked, ColoursLinked

LEMMA PlacesDiffer ==
  /\ \A a, p, o : <<"pattern", a>> # <<"screen", p, o>>
  /\ \A a, b : <<"pattern", a>> # <<"palette", b>>
  /\ \A a, p, o : <<"pattern", a>> # <<"board", p, o>>
  /\ \A b, p, o : <<"screen", p, o>> # <<"palette", b>>
  /\ \A p, o, q, r : <<"screen", p, o>> # <<"board", q, r>>
  /\ \A b, q, r : <<"palette", b>> # <<"board", q, r>>
<1>1. \A a, p, o : <<"pattern", a>> # <<"screen", p, o>>
  OBVIOUS
<1>2. \A a, b : <<"pattern", a>> # <<"palette", b>>
  OBVIOUS
<1>3. \A a, p, o : <<"pattern", a>> # <<"board", p, o>>
  OBVIOUS
<1>4. \A b, p, o : <<"screen", p, o>> # <<"palette", b>>
  OBVIOUS
<1>5. \A p, o, q, r : <<"screen", p, o>> # <<"board", q, r>>
  OBVIOUS
<1>6. \A b, q, r : <<"palette", b>> # <<"board", q, r>>
  OBVIOUS
<1> QED BY <1>1, <1>2, <1>3, <1>4, <1>5, <1>6

LEMMA PlacesSame ==
  /\ \A a, b : <<"pattern", a>> = <<"pattern", b>> <=> a = b
  /\ \A a, b : <<"palette", a>> = <<"palette", b>> <=> a = b
  /\ \A p, o, q, r : <<"screen", p, o>> = <<"screen", q, r>> <=> p = q /\ o = r
OBVIOUS

LEMMA AdvancedType ==
  ASSUME PortKept
  PROVE  Advanced(port.v) \in Nat /\ Advanced(port.v) < AddrSpace
<1>1. PICK n \in Nat : n = port.v + port.increment
  BY DEF PortKept
<1>2. n % 16384 \in Nat /\ n % 16384 < 16384
  OBVIOUS
<1> QED BY <1>1, <1>2, SizesAre DEF Advanced

LEMMA MemoryRead ==
  ASSUME MemoryInv, ReadData
  PROVE  MemoryInv'
<1>1. /\ port' = [port EXCEPT !.v = Advanced(@), !.vram_buffer = ReadBus(Behind(port.v))]
      /\ buffered' = Stored(Beneath(port.v))
      /\ UNCHANGED <<game, bus, shown, stored>>
  BY DEF ReadData
<1>2. PICK v : v = port.v
  OBVIOUS
<1>3. v \in Nat /\ v < 16384
  BY <1>2, SizesAre DEF MemoryInv, PortKept
<1>4. Behind(v) \in Nat /\ Behind(v) < AddrSpace /\ Behind(v) = Beneath(v)
  BY <1>3, SizesAre DEF Behind, Beneath
<1>5. ~game.exram => ReadBus(Behind(v)) = Stored(Beneath(v))
  BY <1>4, ReadsStored
<1>6. PICK w, b : w = Advanced(port.v) /\ b = ReadBus(Behind(port.v))
  OBVIOUS
<1>7. PICK q : q = [port EXCEPT !.v = w, !.vram_buffer = b]
  OBVIOUS
<1>8. port' = q /\ w \in Nat /\ w < AddrSpace
  BY <1>1, <1>6, <1>7, AdvancedType DEF MemoryInv
<1>9. PortKept' /\ port'.vram_buffer = b
  BY <1>7, <1>8 DEF MemoryInv, PortKept
<1>10. ~game'.exram => port'.vram_buffer = buffered'
  BY <1>1, <1>2, <1>5, <1>6, <1>9
<1>11. GameKept(game)' /\ BusKept'
  BY <1>1 DEF MemoryInv, BusKept, GameKept
<1>12. (game'.chr_ram => PatternsLinked') /\ ScreensLinked' /\ ColoursLinked'
  BY <1>1, LinksKept
<1> QED BY <1>9, <1>10, <1>11, <1>12 DEF MemoryInv

LEMMA MemoryWrite ==
  ASSUME MemoryInv, NEW val, WriteData(val)
  PROVE  MemoryInv'
<1>1. /\ bus' = WriteBus(port.v, val)
      /\ port' = [port EXCEPT !.v = Advanced(@)]
      /\ stored' = IF HasMemory(port.v) THEN Put(stored, Place(port.v), val) ELSE stored
      /\ UNCHANGED <<game, shown, buffered>>
  BY DEF WriteData
<1>2. PICK v : v = port.v
  OBVIOUS
<1>3. v \in Nat /\ v < AddrSpace
  BY <1>2 DEF MemoryInv, PortKept
<1>4. PortKept' /\ port'.vram_buffer = port.vram_buffer
  <2>1. PICK w : w = Advanced(port.v)
    OBVIOUS
  <2>2. w \in Nat /\ w < AddrSpace
    BY <2>1, AdvancedType DEF MemoryInv
  <2> QED BY <1>1, <2>1, <2>2 DEF MemoryInv, PortKept
<1>5. GameKept(game)' /\ (~game'.exram => port'.vram_buffer = buffered')
  BY <1>1, <1>4 DEF MemoryInv, GameKept
<1>6. /\ {"mirroring", "mirror_shift", "ciram", "palette", "chr_ram", "exram"} \subseteq DOMAIN bus
      /\ BusKept /\ UNCHANGED <<game, shown>>
  BY <1>1 DEF MemoryInv, BusKept
<1>7. CASE v < NtStart
  <2>1. NtStart \in Nat /\ PaletteStart \in Nat /\ NtStart < PaletteStart
    BY SizesAre
  <2>2. v \notin NtStart..(PaletteStart - 1) /\ ~(v >= PaletteStart)
    BY <1>3, <1>7, <2>1
  <2>3. bus' = IF game.chr_ram THEN [bus EXCEPT !.chr_ram = Put(@, v, val)] ELSE bus
    BY <1>1, <1>2, <1>7, <2>2 DEF WriteBus
  <2>4. stored' = IF game.chr_ram THEN Put(stored, <<"pattern", v>>, val) ELSE stored
    BY <1>1, <1>2, <1>3, <1>7, InPatterns
  <2>5. BusKept' /\ UNCHANGED <<bus.ciram, bus.palette>>
    BY <1>6, <2>3 DEF BusKept
  <2>6. CASE game.chr_ram
    <3>1. bus'.chr_ram = Put(bus.chr_ram, v, val) /\ stored' = Put(stored, <<"pattern", v>>, val)
      BY <1>6, <2>3, <2>4, <2>6
    <3>2. PatternsLinked'
      <4>1. SUFFICES ASSUME NEW a \in Nat, a < NtStart
                     PROVE  At(bus'.chr_ram, a) = At(stored', <<"pattern", a>>)
        BY DEF PatternsLinked, NtStart
      <4>2. At(bus.chr_ram, a) = At(stored, <<"pattern", a>>)
        BY <2>6, <4>1 DEF MemoryInv, PatternsLinked
      <4> QED BY <3>1, <4>2, PutAt, PlacesSame
    <3>3. ScreensLinked'
      <4>1. SUFFICES ASSUME NEW page \in 0..1, NEW o \in Nat, o < NtSize
                     PROVE  At(bus'.ciram, (NtSize * page) + o) = At(stored', <<"screen", page, o>>)
        BY DEF ScreensLinked, NtSize
      <4>2. At(bus.ciram, (NtSize * page) + o) = At(stored, <<"screen", page, o>>)
        BY <4>1 DEF MemoryInv, ScreensLinked
      <4> QED BY <2>5, <3>1, <4>2, PutAt, PlacesDiffer
    <3>4. ColoursLinked'
      <4>1. SUFFICES ASSUME NEW a, IsColour(a)
                     PROVE  At(bus'.palette, a) = At(stored', <<"palette", a>>)
        BY DEF ColoursLinked
      <4>2. At(bus.palette, a) = At(stored, <<"palette", a>>)
        BY <4>1 DEF MemoryInv, ColoursLinked
      <4> QED BY <2>5, <3>1, <4>2, PutAt, PlacesDiffer
    <3> QED BY <1>4, <1>5, <2>5, <3>2, <3>3, <3>4 DEF MemoryInv
  <2>7. CASE ~game.chr_ram
    <3>1. bus' = bus /\ stored' = stored
      BY <2>3, <2>4, <2>7
    <3>2. (game'.chr_ram => PatternsLinked') /\ ScreensLinked' /\ ColoursLinked'
      BY <1>6, <3>1, LinksKept
    <3> QED BY <1>4, <1>5, <2>5, <3>2 DEF MemoryInv
  <2> QED BY <2>6, <2>7
<1>8. CASE NtStart <= v /\ v < PaletteStart
  <2>1. NtStart \in Nat /\ PaletteStart \in Nat /\ NtStart < PaletteStart
    BY SizesAre
  <2>2. v \in NtStart..(PaletteStart - 1) /\ ~(v >= PaletteStart) /\ ~(v < NtStart)
    BY <1>3, <1>8, <2>1
  <2>3. bus' = IF game.exram THEN [bus EXCEPT !.exram = Put(@, v % \h2000, val)]
               ELSE IF bus.mirroring = "FourScreen" THEN bus
               ELSE [bus EXCEPT !.ciram = Put(@, CiramMirror(v), val)]
    BY <1>1, <1>2, <2>2 DEF WriteBus
  <2>4. BusKept' /\ UNCHANGED <<bus.palette, bus.chr_ram>>
    BY <1>6, <2>3 DEF BusKept
  <2>5. CASE game.exram
    <3>1. PICK place, p, o : place = <<"board", p, o>> /\ p = Page("FourScreen", v) /\ o = v % NtSize
      OBVIOUS
    <3>2. stored' = Put(stored, place, val) /\ bus'.ciram = bus.ciram
      BY <1>1, <1>2, <1>3, <1>6, <1>8, <2>3, <2>5, <3>1, InScreens
    <3>3. (game'.chr_ram => PatternsLinked') /\ ScreensLinked' /\ ColoursLinked'
      <4>1. \A a : At(stored', <<"pattern", a>>) = At(stored, <<"pattern", a>>)
        BY <3>1, <3>2, PutAt, PlacesDiffer
      <4>2. \A a : At(stored', <<"palette", a>>) = At(stored, <<"palette", a>>)
        BY <3>1, <3>2, PutAt, PlacesDiffer
      <4>3. \A q, r : At(stored', <<"screen", q, r>>) = At(stored, <<"screen", q, r>>)
        BY <3>1, <3>2, PutAt, PlacesDiffer
      <4>4. game'.chr_ram => PatternsLinked'
        BY <1>6, <2>4, <4>1 DEF MemoryInv, PatternsLinked
      <4>5. ScreensLinked'
        BY <3>2, <4>3 DEF MemoryInv, ScreensLinked
      <4>6. ColoursLinked'
        BY <2>4, <4>2 DEF MemoryInv, ColoursLinked
      <4> QED BY <4>4, <4>5, <4>6
    <3> QED BY <1>4, <1>5, <2>4, <3>3 DEF MemoryInv
  <2>6. CASE ~game.exram /\ bus.mirroring = "FourScreen"
    <3>1. bus' = bus /\ stored' = stored
      BY <1>1, <1>2, <1>3, <1>8, <2>3, <2>6, InScreens
    <3>2. (game'.chr_ram => PatternsLinked') /\ ScreensLinked' /\ ColoursLinked'
      BY <1>6, <3>1, LinksKept
    <3> QED BY <1>4, <1>5, <2>4, <3>2 DEF MemoryInv
  <2>7. CASE ~game.exram /\ bus.mirroring # "FourScreen"
    <3>1. PICK p, r : p = Page(shown, v) /\ r = v % NtSize
      OBVIOUS
    <3>2. shown \in Screens
      BY <1>6, <2>7, Shifts DEF BusKept
    <3>3. p \in 0..1 /\ r \in Nat /\ r < NtSize /\ CiramMirror(v) = (NtSize * p) + r
      BY <1>3, <1>6, <1>8, <3>1, <3>2, CellOf
    <3>4. bus'.ciram = Put(bus.ciram, (NtSize * p) + r, val) /\ stored' = Put(stored, <<"screen", p, r>>, val)
      BY <1>1, <1>2, <1>3, <1>6, <1>8, <2>3, <2>7, <3>1, <3>3, InScreens
    <3>5. \A a : At(stored', <<"pattern", a>>) = At(stored, <<"pattern", a>>)
      BY <3>4, PutAt, PlacesDiffer
    <3>6. \A a : At(stored', <<"palette", a>>) = At(stored, <<"palette", a>>)
      BY <3>4, PutAt, PlacesDiffer
    <3>7. game'.chr_ram => PatternsLinked'
      BY <1>6, <2>4, <3>5 DEF MemoryInv, PatternsLinked
    <3>8. ColoursLinked'
      BY <2>4, <3>6 DEF MemoryInv, ColoursLinked
    <3>9. ScreensLinked'
      <4>1. SUFFICES ASSUME NEW page \in 0..1, NEW o \in Nat, o < NtSize
                     PROVE  At(bus'.ciram, (NtSize * page) + o) = At(stored', <<"screen", page, o>>)
        BY DEF ScreensLinked, NtSize
      <4>2. At(bus.ciram, (NtSize * page) + o) = At(stored, <<"screen", page, o>>)
        BY <4>1 DEF MemoryInv, ScreensLinked
      <4>3. (NtSize * page) + o = (NtSize * p) + r <=> page = p /\ o = r
        BY <3>3, <4>1, SizesAre
      <4> QED BY <3>4, <4>2, <4>3, PutAt, PlacesSame
    <3> QED BY <1>4, <1>5, <2>4, <3>7, <3>8, <3>9 DEF MemoryInv
  <2> QED BY <2>5, <2>6, <2>7
<1>9. CASE PaletteStart <= v
  <2>1. NtStart \in Nat /\ PaletteStart \in Nat /\ NtStart < PaletteStart
    BY SizesAre
  <2>2. v \notin NtStart..(PaletteStart - 1) /\ v >= PaletteStart /\ ~(v < NtStart)
    BY <1>3, <1>9, <2>1
  <2>3. PICK c : c = IF v % 4 = 0 THEN v % 16 ELSE v % 32
    OBVIOUS
  <2>4. IsColour(c) /\ PaletteMirror(v) = c
    BY <1>3, <1>9, <2>3, ColourOf
  <2>5. bus' = [bus EXCEPT !.palette = Put(@, c, val)]
    BY <1>1, <1>2, <2>2, <2>4 DEF WriteBus
  <2>6. stored' = Put(stored, <<"palette", c>>, val)
    BY <1>1, <1>2, <1>3, <1>9, <2>3, InColours
  <2>7. BusKept' /\ UNCHANGED <<bus.ciram, bus.chr_ram>> /\ bus'.palette = Put(bus.palette, c, val)
    BY <1>6, <2>5 DEF BusKept
  <2>8. \A a : At(stored', <<"pattern", a>>) = At(stored, <<"pattern", a>>)
    BY <2>6, PutAt, PlacesDiffer
  <2>9. \A p, o : At(stored', <<"screen", p, o>>) = At(stored, <<"screen", p, o>>)
    BY <2>6, PutAt, PlacesDiffer
  <2>10. game'.chr_ram => PatternsLinked'
    BY <1>6, <2>7, <2>8 DEF MemoryInv, PatternsLinked
  <2>11. ScreensLinked'
    BY <2>7, <2>9 DEF MemoryInv, ScreensLinked
  <2>12. ColoursLinked'
    <3>1. SUFFICES ASSUME NEW a, IsColour(a)
                   PROVE  At(bus'.palette, a) = At(stored', <<"palette", a>>)
      BY DEF ColoursLinked
    <3>2. At(bus.palette, a) = At(stored, <<"palette", a>>)
      BY <3>1 DEF MemoryInv, ColoursLinked
    <3> QED BY <2>6, <2>7, <3>2, PutAt, PlacesSame
  <2> QED BY <1>4, <1>5, <2>7, <2>10, <2>11, <2>12 DEF MemoryInv
<1> QED BY <1>3, <1>7, <1>8, <1>9, SizesAre

(* Steps that leave the memories and the buffer alone. *)
LEMMA AddressStep ==
  ASSUME MemoryInv, UNCHANGED <<game, bus, shown, stored, buffered>>,
         PortKept', port'.vram_buffer = port.vram_buffer
  PROVE  MemoryInv'
<1>1. GameKept(game)' /\ BusKept' /\ (~game'.exram => port'.vram_buffer = buffered')
  BY DEF MemoryInv, BusKept, GameKept
<1>2. (game'.chr_ram => PatternsLinked') /\ ScreensLinked' /\ ColoursLinked'
  BY LinksKept
<1> QED BY <1>1, <1>2 DEF MemoryInv

LEMMA HiType ==
  ASSUME PortKept, NEW val \in Nat, val < 256
  PROVE  port' = WriteHi(val) => PortKept' /\ port'.vram_buffer = port.vram_buffer
<1>1. PICK n : n = 256 * (val % 64) + (port.t % 256)
  OBVIOUS
<1>2. n \in Nat
  BY <1>1 DEF PortKept
<1>3. WriteHi(val) = [port EXCEPT !.t = n, !.write_latch = TRUE]
  BY <1>1 DEF WriteHi
<1> QED BY <1>2, <1>3 DEF PortKept

LEMMA LoType ==
  ASSUME PortKept, NEW val \in Nat, val < 256
  PROVE  port' = WriteLo(val) => PortKept' /\ port'.vram_buffer = port.vram_buffer
<1>1. PICK n : n = 256 * (port.t \div 256) + val
  OBVIOUS
<1>2. n \in Nat
  BY <1>1 DEF PortKept
<1>3. PICK w : w = n % AddrSpace
  OBVIOUS
<1>4. n % 16384 \in Nat /\ n % 16384 < 16384
  BY <1>2
<1>5. w \in Nat /\ w < AddrSpace
  BY <1>3, <1>4, SizesAre
<1>6. WriteLo(val) = [port EXCEPT !.t = n, !.v = w, !.write_latch = FALSE]
  BY <1>1, <1>3 DEF WriteLo
<1> QED BY <1>2, <1>5, <1>6 DEF PortKept

LEMMA MemoryAddress ==
  ASSUME MemoryInv, WriteVramAddr \/ WriteIncrement \/ ResetLatch \/ StopVblank
  PROVE  MemoryInv'
<1>1. UNCHANGED <<game, bus, shown, stored, buffered>>
  BY DEF WriteVramAddr, WriteIncrement, ResetLatch, StopVblank
<1>2. PortKept' /\ port'.vram_buffer = port.vram_buffer
  <2>1. CASE WriteVramAddr
    <3>1. (\E val \in game.hi : port' = WriteHi(val)) \/ (\E val \in game.lo : port' = WriteLo(val))
      BY <2>1 DEF WriteVramAddr
    <3>2. PortKept /\ \A byte \in game.hi \union game.lo : byte \in Nat /\ byte < 256
      BY DEF MemoryInv, GameKept
    <3>3. CASE \E val \in game.hi : port' = WriteHi(val)
      BY <3>2, <3>3, HiType
    <3>4. CASE \E val \in game.lo : port' = WriteLo(val)
      BY <3>2, <3>4, LoType
    <3> QED BY <3>1, <3>3, <3>4
  <2>2. CASE WriteIncrement
    <3>1. PICK ctrl \in {[increment |-> 1, screen |-> 0], [increment |-> 32, screen |-> 2]} :
            port' = [port EXCEPT !.increment = ctrl.increment, !.t = Screen(@, ctrl.screen)]
      BY <2>2 DEF WriteIncrement
    <3>2. PICK i \in Nat, s \in Nat : i = ctrl.increment /\ s = ctrl.screen
      OBVIOUS
    <3>3. PICK n : n = Screen(port.t, s)
      OBVIOUS
    <3>4. n \in Nat
      <4>1. PICK t \in Nat : t = port.t
        BY DEF MemoryInv, PortKept
      <4>2. t % 1024 \in Nat /\ t \div 4096 \in Nat
        OBVIOUS
      <4>3. n = (t % 1024) + 1024 * s + 4096 * (t \div 4096)
        BY <3>3, <4>1, SizesAre DEF Screen
      <4> QED BY <4>2, <4>3
    <3>5. port' = [port EXCEPT !.increment = i, !.t = n]
      BY <3>1, <3>2, <3>3
    <3> QED BY <3>4, <3>5 DEF MemoryInv, PortKept
  <2>3. CASE ResetLatch
    BY <2>3 DEF ResetLatch, MemoryInv, PortKept
  <2>4. CASE StopVblank
    BY <2>4 DEF StopVblank, MemoryInv, PortKept
  <2> QED BY <2>1, <2>2, <2>3, <2>4
<1> QED BY <1>1, <1>2, AddressStep

LEMMA MemoryMirroring ==
  ASSUME MemoryInv, WriteMirroring
  PROVE  MemoryInv'
<1>1. PICK mode \in game.modes :
        bus' = [bus EXCEPT !.mirroring = mode, !.mirror_shift = Shift[mode]] /\ shown' = mode
  BY DEF WriteMirroring
<1>2. UNCHANGED <<game, port, stored, buffered>>
  BY DEF WriteMirroring
<1>3. mode \in DOMAIN Shift /\ (game.reset # "Kept" => mode # "FourScreen")
  BY DEF MemoryInv, GameKept
<1>4. BusKept' /\ UNCHANGED <<bus.ciram, bus.palette, bus.chr_ram>>
  BY <1>1, <1>2, <1>3 DEF MemoryInv, BusKept
<1>5. GameKept(game)' /\ PortKept' /\ (~game'.exram => port'.vram_buffer = buffered')
  BY <1>2 DEF MemoryInv, GameKept, PortKept
<1>6. (game'.chr_ram => PatternsLinked') /\ ScreensLinked' /\ ColoursLinked'
  BY <1>2, <1>4 DEF MemoryInv, PatternsLinked, ScreensLinked, ColoursLinked
<1> QED BY <1>4, <1>5, <1>6 DEF MemoryInv

LEMMA NewPortKept ==
  /\ NewPort.vram_buffer = 0
  /\ port' = NewPort => PortKept'
BY SizesAre DEF NewPort, PortKept

LEMMA MemoryReset ==
  ASSUME MemoryInv, ResetMemory
  PROVE  MemoryInv'
<1>1. PICK hard \in BOOLEAN : port' = [NewPort EXCEPT !.v = IF hard THEN 0 ELSE port.v]
  BY DEF ResetMemory
<1>2. /\ bus' = [bus EXCEPT !.mirroring = IF game.reset = "Kept" THEN @ ELSE game.reset]
      /\ buffered' = 0
      /\ UNCHANGED <<game, shown, stored>>
  BY DEF ResetMemory
<1>3. PICK w : w = IF hard THEN 0 ELSE port.v
  OBVIOUS
<1>4. w \in Nat /\ w < AddrSpace
  BY <1>3, SizesAre DEF MemoryInv, PortKept
<1>5. PortKept' /\ port'.vram_buffer = 0
  BY <1>1, <1>3, <1>4 DEF NewPort, PortKept
<1>6. BusKept' /\ UNCHANGED <<bus.ciram, bus.palette, bus.chr_ram>>
  BY <1>2 DEF MemoryInv, BusKept
<1>7. GameKept(game)'
  BY <1>2 DEF MemoryInv, GameKept
<1>8. (game'.chr_ram => PatternsLinked') /\ ScreensLinked' /\ ColoursLinked'
  BY <1>2, <1>6 DEF MemoryInv, PatternsLinked, ScreensLinked, ColoursLinked
<1> QED BY <1>2, <1>5, <1>6, <1>7, <1>8 DEF MemoryInv

(* What a new cartridge leaves of the memories. *)
LEMMA InsertedBus ==
  ASSUME NEW g, GameKept(g), NEW b,
         {"mirroring", "mirror_shift", "ciram", "palette", "chr_ram", "exram"} \subseteq DOMAIN b,
         NEW c, c = Inserted(g, b)
  PROVE  /\ {"mirroring", "mirror_shift", "ciram", "palette", "chr_ram", "exram"} \subseteq DOMAIN c
         /\ c.mirroring = (IF g.reset = "Kept" THEN g.mirroring ELSE g.reset)
         /\ c.mirror_shift = Shift[g.mirroring]
         /\ c.ciram = b.ciram /\ c.palette = b.palette /\ c.chr_ram = Blank
BY DEF Inserted

LEMMA GamesKept == \A g \in Games : GameKept(g)
<1>1. TAKE g \in Games
<1>2. /\ g.mirroring \in DOMAIN Shift /\ g.modes \subseteq DOMAIN Shift
      /\ g.reset # "Kept" => g.mirroring # "FourScreen" /\ "FourScreen" \notin g.modes
  BY VideoMemoryAssumption
<1>3. \A byte \in g.hi \union g.lo : byte \in Nat /\ byte < 256
  BY VideoMemoryAssumption
<1> QED BY <1>2, <1>3 DEF GameKept

LEMMA MemoryLoad ==
  ASSUME MemoryInv, LoadGame
  PROVE  MemoryInv'
<1>1. PICK g \in Games : game' = g /\ bus' = Inserted(g, bus) /\ shown' = g.mirroring
  BY DEF LoadGame
<1>2. /\ port' = NewPort /\ buffered' = 0
      /\ stored' = [p \in {q \in DOMAIN stored : q[1] \in {"screen", "palette"}} |-> stored[p]]
  BY DEF LoadGame
<1>3. GameKept(g) /\ PortKept' /\ port'.vram_buffer = 0
  BY <1>2, GamesKept, NewPortKept
<1>4. /\ {"mirroring", "mirror_shift", "ciram", "palette", "chr_ram", "exram"} \subseteq DOMAIN bus'
      /\ bus'.mirroring = (IF g.reset = "Kept" THEN g.mirroring ELSE g.reset)
      /\ bus'.mirror_shift = Shift[g.mirroring]
      /\ bus'.ciram = bus.ciram /\ bus'.palette = bus.palette /\ bus'.chr_ram = Blank
  BY <1>1, <1>3, InsertedBus DEF MemoryInv, BusKept
<1>5. BusKept'
  BY <1>1, <1>3, <1>4 DEF BusKept, GameKept
<1>6. \A p, o : At(stored', <<"screen", p, o>>) = At(stored, <<"screen", p, o>>)
  BY <1>2 DEF At
<1>7. \A a : At(stored', <<"palette", a>>) = At(stored, <<"palette", a>>)
  BY <1>2 DEF At
<1>8. \A a : At(stored', <<"pattern", a>>) = 0
  BY <1>2 DEF At
<1>9. PatternsLinked'
  BY <1>4, <1>8, BlankAt DEF PatternsLinked
<1>10. ScreensLinked' /\ ColoursLinked'
  BY <1>4, <1>6, <1>7 DEF MemoryInv, ScreensLinked, ColoursLinked
<1> QED BY <1>1, <1>2, <1>3, <1>5, <1>9, <1>10 DEF MemoryInv

LEMMA MemoryStart ==
  ASSUME NEW g, GameKept(g), MemoryInit(g)
  PROVE  MemoryInv
<1>1. game = g /\ bus = Inserted(g, NewBus) /\ port = NewPort /\ shown = g.mirroring /\ stored = Blank /\ buffered = 0
  BY DEF MemoryInit
<1>2. {"mirroring", "mirror_shift", "ciram", "palette", "chr_ram", "exram"} \subseteq DOMAIN NewBus
      /\ NewBus.ciram = Blank /\ NewBus.palette = Blank
  BY DEF NewBus
<1>3. /\ {"mirroring", "mirror_shift", "ciram", "palette", "chr_ram", "exram"} \subseteq DOMAIN bus
      /\ bus.mirroring = (IF g.reset = "Kept" THEN g.mirroring ELSE g.reset)
      /\ bus.mirror_shift = Shift[g.mirroring]
      /\ bus.ciram = Blank /\ bus.palette = Blank /\ bus.chr_ram = Blank
  BY <1>1, <1>2, InsertedBus
<1>4. BusKept
  BY <1>1, <1>3 DEF BusKept, GameKept
<1>5. PortKept /\ port.vram_buffer = buffered
  BY <1>1, SizesAre DEF NewPort, PortKept
<1>6. PatternsLinked /\ ScreensLinked /\ ColoursLinked
  BY <1>1, <1>3, BlankAt DEF PatternsLinked, ScreensLinked, ColoursLinked
<1> QED BY <1>1, <1>4, <1>5, <1>6 DEF MemoryInv

LEMMA MemoryStep ==
  ASSUME MemoryInv, [MemoryNext]_memory_vars
  PROVE  MemoryInv'
<1>1. CASE MemoryNext
  BY <1>1, MemoryRead, MemoryWrite, MemoryAddress, MemoryMirroring, MemoryReset, MemoryLoad DEF MemoryNext
<1>2. CASE UNCHANGED memory_vars
  BY <1>2, AddressStep DEF memory_vars, MemoryInv, PortKept
<1> QED BY <1>1, <1>2

(* The byte of the last address, or the colour, is the one that was stored. *)
LEMMA MemoryInOrder == MemoryInv => PortInOrder
<1> SUFFICES ASSUME MemoryInv, ~game.exram PROVE Answer = Due
  BY DEF PortInOrder
<1>1. port.v \in Nat /\ port.v < AddrSpace /\ port.vram_buffer = buffered
  BY DEF MemoryInv, PortKept
<1>2. PICK v \in Nat : v = port.v
  BY <1>1
<1>3. ReadBus(v) = Stored(v)
  BY <1>1, <1>2, ReadsStored
<1> QED BY <1>1, <1>2, <1>3 DEF Answer, Due

-----------------------------------------------------------------------------
(* One part at a time (Devices). *)

BoardInv ==
  /\ BoardTyped /\ PortInv /\ LineInv /\ CalmInv
  /\ ExTilesInv /\ LatchInv /\ PlainInv /\ IrqInv

DeviceInv ==
  /\ BoardInv
  /\ PadsInv
  /\ ChannelInv
  /\ device = "channel" => tune \in Tunes
  /\ MemoryInv

LEMMA NoGameKept == GameKept(NoGame)
BY DEF NoGame, GameKept, Shift

LEMMA NoTuneKept == NoTune => ChannelInv
<1> SUFFICES ASSUME NoTune PROVE ChannelInv
  OBVIOUS
<1>1. TriangleKept(chan) /\ since = Unknown
  BY DEF NoTune, NewTriangle, TriangleKept, LengthKept
<1>2. tune \notin Tunes
  BY ChannelsAssumption DEF NoTune, Silence, Kinds
<1> QED BY <1>1, <1>2 DEF ChannelInv, Kept, NoteKept

LEMMA NoCartKept == CartKept(NoCart)
BY DEF CartKept, NoCart, BoardKinds

LEMMA BoardStart ==
  ASSUME NEW cart, CartKept(cart)
  PROVE  BoardInit(cart) => BoardInv
<1> SUFFICES ASSUME BoardInit(cart) PROVE BoardInv
  OBVIOUS
<1>1. BoardTyped
  BY BoardTypedStart
<1>2. PortInv /\ LineInv
  BY PortStart, LineStart
<1>3. CalmInv /\ ExTilesInv
  BY CalmStart, ExTilesStart
<1>4. LatchInv /\ PlainInv /\ IrqInv
  BY LatchStart, PlainStart, IrqStart
<1> QED BY <1>1, <1>2, <1>3, <1>4 DEF BoardInv

LEMMA BoardStep ==
  ASSUME BoardInv, [BoardNext]_board_vars
  PROVE  BoardInv'
<1>0. BoardTyped /\ PortInv /\ LineInv /\ CalmInv /\ ExTilesInv /\ LatchInv /\ PlainInv /\ IrqInv
  BY DEF BoardInv
<1>1. CASE BoardNext
  <2>1. BoardTyped' /\ PortInv'
    BY <1>0, <1>1, BoardTypedStep, PortStep
  <2>2. LineInv' /\ CalmInv'
    BY <1>0, <1>1, LineStep, CalmStep
  <2>3. ExTilesInv' /\ LatchInv'
    BY <1>0, <1>1, ExTilesStep, LatchStep
  <2>4. PlainInv' /\ IrqInv'
    BY <1>0, <1>1, PlainStep, IrqStep
  <2> QED BY <2>1, <2>2, <2>3, <2>4 DEF BoardInv
<1>2. CASE UNCHANGED board_vars
  <2>1. BoardTyped' /\ PortInv' /\ LineInv' /\ CalmInv'
    BY <1>0, <1>2, BoardTypedRests, PortRests, LineRests, CalmRests
  <2>2. ExTilesInv' /\ LatchInv' /\ PlainInv' /\ IrqInv'
    BY <1>0, <1>2, ExTilesRests, LatchRests, PlainRests, IrqRests
  <2> QED BY <2>1, <2>2 DEF BoardInv
<1> QED BY <1>1, <1>2

LEMMA DeviceStart == Init => DeviceInv
<1> SUFFICES ASSUME Init PROVE DeviceInv
  OBVIOUS
<1>1. PadsInv
  BY PadsStart DEF Init, NoPads
<1>2. ChannelInv /\ (device = "channel" => tune \in Tunes)
  BY NoTuneKept, ChannelStart DEF Init
<1>3. MemoryInv
  BY NoGameKept, GamesKept, MemoryStart DEF Init, NoMemory
<1>4. BoardInv
  <2>1. CASE \E cart \in Carts : BoardInit(cart)
    BY <2>1, CartsKept, BoardStart
  <2>2. CASE NoBoard
    BY <2>2, NoCartKept, BoardStart DEF NoBoard
  <2> QED BY <2>1, <2>2 DEF Init
<1> QED BY <1>1, <1>2, <1>3, <1>4 DEF DeviceInv

LEMMA ChannelRests == ChannelInv /\ UNCHANGED channel_vars => ChannelInv'
BY DEF ChannelInv, channel_vars

LEMMA DeviceStep == DeviceInv /\ [Next]_vars => DeviceInv'
<1> SUFFICES ASSUME DeviceInv, [Next]_vars PROVE DeviceInv'
  OBVIOUS
<1>1. [PadsNext]_pad_vars
  BY DEF Next, vars
<1>2. [MemoryNext]_memory_vars
  BY DEF Next, vars
<1>3. \/ device = "channel" /\ ChannelNext
      \/ UNCHANGED channel_vars
  BY DEF Next, vars
<1>4. device' = device
  BY DEF Next, vars
<1>5. PadsInv'
  BY <1>1, PadsStep DEF DeviceInv
<1>6. MemoryInv'
  BY <1>2, MemoryStep DEF DeviceInv
<1>7. ChannelInv' /\ (device' = "channel" => tune' \in Tunes)
  <2>1. CASE device = "channel" /\ ChannelNext
    <3>1. tune' = tune
      BY <2>1 DEF ChannelNext, ClockChannel, QuarterFrame, HalfFrame, WriteRegister, WriteEnables, SetRegion, ResetSound
    <3>2. ChannelInv'
      BY <2>1, ChannelStep DEF DeviceInv
    <3> QED BY <2>1, <3>1, <3>2 DEF DeviceInv
  <2>2. CASE UNCHANGED channel_vars
    BY <1>4, <2>2, ChannelRests DEF DeviceInv, channel_vars
  <2> QED BY <1>3, <2>1, <2>2
<1>8. BoardInv'
  <2>1. [BoardNext]_board_vars
    BY DEF Next, vars
  <2> QED BY <2>1, BoardStep DEF DeviceInv
<1> QED BY <1>5, <1>6, <1>7, <1>8 DEF DeviceInv

(* Whatever the parts do, their invariants hold: a board knows what the    *)
(* program and the picture have told it, the pads tell their bits in step  *)
(* with the reads, a channel is one of its kind, and the memories hold     *)
(* what was stored.                                                        *)
THEOREM DevicesHold == Spec => []DeviceInv
BY DeviceStart, DeviceStep, PTL DEF Spec

(* The n-th read of a port after its strobe gives the n-th bit of the      *)
(* report, with either adapter, whatever keys, sticks, turbos and states   *)
(* come in between (Input::read, Joypad::read).                            *)
THEOREM PadsReportInOrder == Spec => []ReadsInOrder
<1>1. DeviceInv => ReadsInOrder
  BY PadsInOrder DEF DeviceInv
<1> QED BY <1>1, DevicesHold, PTL

(* A button that is down has a key that accounts for it                    *)
(* (handle_joypad_pressed).                                                *)
THEOREM NoButtonSticks == Spec => []NoStuckButton
<1>1. DeviceInv => NoStuckButton
  BY DEF DeviceInv, PadsInv
<1> QED BY <1>1, DevicesHold, PTL

(* No tune takes a channel out of its range (Pulse::clock_half_frame,      *)
(* Noise::clock, Vrc6Pulse::clock).                                         *)
THEOREM ChannelsStayInRange == Spec => []ChannelInRange
<1>1. DeviceInv => ChannelInRange
  BY ChannelPromises DEF DeviceInv
<1> QED BY <1>1, DevicesHold, PTL

(* A note that is left alone has the level that is due (Envelope::clock,   *)
(* Triangle::clock_quarter_frame, Vrc6Saw::clock).                         *)
THEOREM NotesHaveTheirLevel == Spec => []LevelOfNote
<1>1. DeviceInv => LevelOfNote
  BY ChannelPromises DEF DeviceInv
<1> QED BY <1>1, DevicesHold, PTL

(* A read of $2007 gives the byte that the program stored, through         *)
(* whichever mirror (Ppu::read_data, PpuBus::read and write).              *)
THEOREM PortReadsInOrder == Spec => []PortInOrder
<1>1. DeviceInv => PortInOrder
  BY MemoryInOrder DEF DeviceInv
<1> QED BY <1>1, DevicesHold, PTL

(* Whatever the program writes, every window of every board shows a page   *)
(* that the chip has (MemBanks::set and set_range).                        *)
THEOREM WindowsShowPages == Spec => []PagesExist
<1>1. DeviceInv => PagesExist
  BY PagesThere DEF DeviceInv, BoardInv
<1> QED BY <1>1, DevicesHold, PTL

(* After a reset the vectors are there, on the boards that promise it      *)
(* (load and reset of the boards).                                         *)
THEOREM VectorsAreThere == Spec => []ResetVectorThere
<1>1. DeviceInv => ResetVectorThere
  BY VectorThere DEF DeviceInv, BoardInv
<1> QED BY <1>1, DevicesHold, PTL

(* MMC1: what is sent through the one-bit port arrives in the register     *)
(* that the fifth write names (Sxrom::map_write).                          *)
THEOREM ValuesArrive == Spec => []SerialWriteArrives
<1>1. DeviceInv => SerialWriteArrives
  BY PortArrives DEF DeviceInv, BoardInv
<1> QED BY <1>1, DevicesHold, PTL

(* MMC3: the IRQ is there after one line more than the latch says, and not *)
(* before (Txrom::clock_irq).                                              *)
THEOREM IrqsAfterTheirLines == Spec => []IrqAfterLatchLines
<1>1. DeviceInv => IrqAfterLatchLines
  BY IrqComes DEF DeviceInv, BoardInv
<1> QED BY <1>1, DevicesHold, PTL

(* MMC5: the board knows the line of a picture that is left alone, from    *)
(* the fetches alone (Exrom::map_read).                                    *)
THEOREM ScanlinesAreKnown == Spec => []ScanlineKept
<1>1. DeviceInv => ScanlineKept
  BY LinesKnown DEF DeviceInv, BoardInv
<1> QED BY <1>1, DevicesHold, PTL

(* Both bytes of a tile come from the bank that is meant for it            *)
(* (Pxrom::map_read, Exrom::map_read).                                     *)
THEOREM TilesComeFromTheirBanks == Spec => []TilesOfTheirBanks
<1>1. DeviceInv => TilesOfTheirBanks
  BY TilesMatch DEF DeviceInv, BoardInv
<1> QED BY <1>1, DevicesHold, PTL
=============================================================================
