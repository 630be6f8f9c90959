----------------------------- MODULE MCDevices -----------------------------
(* Small instances of all parts for TLC. *)
EXTENDS Devices

-----------------------------------------------------------------------------
(* Cartridges.  The boards whose registers do not depend on each other     *)
(* come as several cartridges, whose programs use a part of them.          *)

Small  == [bg : {0, 1}, spr : {0, 1}, tall : {FALSE}]
Tall   == [bg : {0}, spr : {0}, tall : BOOLEAN]
Common == {[bg |-> 0, spr |-> 1, tall |-> FALSE], [bg |-> 0, spr |-> 1, tall |-> TRUE],
           [bg |-> 1, spr |-> 0, tall |-> FALSE]}

Cart(kind, prg, chr, submapper, revision, writes, settings, uses) ==
  [kind |-> kind, prg |-> prg, chr |-> chr, ram |-> 4, mirroring |-> "Horizontal",
   submapper |-> submapper, revision |-> revision, writes |-> writes,
   settings |-> settings, uses |-> uses]

Blind(kind, prg, chr, submapper, revision, writes) ==
  Cart(kind, prg, chr, submapper, revision, writes, {}, {})

Values8 == {0, 1, 5, 19, 46, 255}

Simple ==
  { Blind("Nrom", 1, 1, 0, "", {<<\h8000, 1>>}),
    Blind("Uxrom", 4, 1, 0, "", {\h8000} \X Values8),
    Blind("Cnrom", 2, 4, 0, "", {\h8000} \X Values8),
    Blind("Axrom", 4, 1, 0, "", {\h8000} \X Values8),
    Blind("Gxrom", 2, 4, 0, "", {\h8000} \X Values8),
    Blind("Bf909x", 4, 1, 0, "", {\h8000, \h9000, \hC000} \X Values8) }

Bits1 == {\h8000, \hA000, \hC000, \hE000} \X {0, 1, 128}

Serial ==
  { Blind("Sxrom", 4, 8, 0, "BC", Bits1), Blind("Sxrom", 32, 2, 0, "BC", Bits1),
    Blind("Sxrom", 2, 2, 5, "A", Bits1) }

Konami ==
  { Blind("Vrc6", 4, 8, 0, rev, ({\hB003} \X {0, 35, 36, 48, 46}) \cup ({\hE002, \hD001} \X {3, 6})
      \cup {<<\h8000, 3>>, <<\hC000, 7>>}) : rev \in {"A", "B"} }

Banked ==
  { Blind("Pxrom", 4, 4, 0, "", {\hA000, \hB000, \hF000} \X Values8),
    Blind("Txrom", 4, 8, 0, "BC", ({\h8000} \X {0, 6, 71, 192})
      \cup ({\h8001} \X {1, 30}) \cup {<<\hA000, 1>>, <<\hA001, 0>>}),
    Blind("Exrom", 8, 8, 0, "", ({\h5100} \X (0..3)) \cup {<<\h5115, 130>>, <<\h5115, 1>>,
      <<\h5114, 3>>, <<\h5116, 129>>, <<\h5117, 133>>}),
    Blind("Exrom", 8, 8, 0, "", {<<\h5102, 2>>, <<\h5103, 1>>, <<\h5105, 68>>, <<\h5105, 228>>, <<\h5130, 1>>,
      <<\h5203, 1>>, <<\h5204, 128>>}) }

Lined ==
  { Cart("Txrom", 4, 8, 0, r[1], {<<\hC000, r[2]>>} \cup ({\hC000, \hC001, \hE000, \hE001} \X {0}), Common,
         {"picture", "vram"}) : r \in {<<"A", 1>>, <<"BC", 2>>, <<"Acc", 1>>} }
  \cup { Cart("Exrom", 4, 8, 0, "", {<<\h5203, 1>>}, {}, {"picture", "vram", "palettes"}) }

Drawn ==
  { Cart("Pxrom", 4, 4, 0, "", {<<\hB000, 1>>, <<\hC000, 2>>, <<\hD000, 3>>, <<\hE000, 1>>}, Small,
         {"picture", "vram"}),
    Cart("Exrom", 4, 8, 0, "", {<<\h5104, 0>>, <<\h5104, 1>>}, {}, {"picture"}),
    Cart("Exrom", 4, 8, 0, "", {<<\h5123, 1>>, <<\h512B, 3>>, <<\h5101, 1>>}, Tall, {"picture"}) }

MCCarts == Simple \cup Serial \cup Konami \cup Banked \cup Lined \cup Drawn

-----------------------------------------------------------------------------
(* Controllers with short reports, and small programs for the channels.    *)

MCOrder == <<"A", "Right">>
MCInputMaps == {{}, {<<0, "A">>, <<0, "TurboA">>}, {<<0, "A">>, <<2, "Right">>},
                {<<1, "Left">>, <<1, "Right">>}, {<<0, "Stick">>, <<0, "Right">>}}

Tune(kind, channel, ultrasonic, writes, uses) ==
  [kind |-> kind, channel |-> channel, ultrasonic |-> ultrasonic, writes |-> writes, uses |-> uses,
   pitch |-> 0]

Notes(kind) == Tune(kind, 1, FALSE, {<<0, 0>>, <<0, 33>>, <<0, 18>>, <<3, 24>>}, {"frames", "notes"})
Bends   == {<<1, 129>>, <<1, 137>>, <<1, 146>>, <<2, 3>>, <<2, 255>>}
(* Of both channels, which differ in how they sweep upwards. *)
Pitches == {<<1, 1365>>, <<1, 2047>>, <<2, 7>>}

MCTunes ==
  { Notes("pulse"), Notes("noise") }
  \cup { [Tune("pulse", p[1], FALSE, Bends, {"frames"}) EXCEPT !.pitch = p[2]] : p \in Pitches }
  \cup { Tune("pulse", 1, TRUE, {<<0, 0>>, <<1, 129>>, <<2, 2>>, <<3, 24>>}, {"clocks", "frames", "notes"}),
         Tune("pulse", 1, FALSE, {<<2, 3>>, <<3, 24>>}, {"clocks"}),
         Tune("triangle", 1, FALSE, {<<0, 3>>, <<0, 134>>, <<2, 1>>, <<2, 2>>, <<3, 24>>},
              {"clocks", "frames", "notes"}),
         Tune("noise", 1, FALSE, {<<2, 0>>, <<2, 128>>}, {"clocks"}),
         Tune("vrc6_pulse", 1, FALSE, {<<0, 53>>, <<1, 1>>, <<1, 17>>, <<2, 128>>, <<2, 0>>} \cup ({3} \X {0, 1, 2, 4}),
              {"clocks"}),
         Tune("saw", 1, FALSE, {<<0, 5>>, <<0, 63>>, <<1, 0>>, <<1, 1>>, <<2, 128>>, <<2, 0>>} \cup ({3} \X {0, 1, 2}),
              {"clocks", "notes"}) }

-----------------------------------------------------------------------------
(* Games that use a few cells on both sides of the mirrors.                *)

Game(mirroring, modes, reset, chr_ram, exram, hi, lo) ==
  [mirroring |-> mirroring, modes |-> modes, reset |-> reset, chr_ram |-> chr_ram,
   exram |-> exram, hi |-> hi, lo |-> lo]
MCGames ==
  { Game("Horizontal", {}, "Kept", TRUE, FALSE, {\h00, \h28, \h3F}, {\h00, \hFF}),
    Game("SingleScreenA", {"SingleScreenB", "Vertical", "Horizontal"}, "SingleScreenA", FALSE, FALSE, {\h24, \h6C}, {\h10}),
    Game("Vertical", {}, "Kept", FALSE, FALSE, {\h2F, \h3F}, {\h00, \h04, \h14}),
    Game("Vertical", {"SingleScreenA", "SingleScreenB"}, "Kept", FALSE, FALSE, {\h30, \h24}, {\h00}),
    Game("FourScreen", {}, "Kept", TRUE, FALSE, {\h20, \h1F}, {\hFF}),
    Game("FourScreen", {}, "Kept", TRUE, TRUE, {\h20, \h24}, {\h00}) }
MCRomByte(a) == 1 + (a % 7)
=============================================================================
