------------------------------- MODULE Session -------------------------------
(***************************************************************************)
(* A session of the emulator (src/src/nes.rs, nes/state.rs, nes/event.rs,  *)
(* nes/filesystem.rs, control_deck.rs): loading games, the files that keep *)
(* battery-backed memory and states, rewinding, pausing and quitting, with *)
(* writes that fail and crashes at any point.                              *)
(*                                                                         *)
(* A machine is a game and how far it has come, which is also what its     *)
(* memory holds.  A state holds the whole machine, its game included.      *)
(* Recordings, messages to the user and the debugger are left out.         *)
(* Rewinding is enabled, with a snapshot every frame.  A reset of either   *)
(* kind keeps the memory, and a game loaded over another drops its memory. *)
(***************************************************************************)
EXTENDS Integers, Sequences

CONSTANTS
  Games,           (* The games, each with a file name of its own.         *)
  BatteryGames,    (* Those whose memory has a battery.                    *)
  None,            (* No game.                                             *)
  SaveSlots,       (* The numbers of slots for states.                     *)
  BufferSize,      (* Snapshots that the rewind buffer has room for.       *)
  InstantFrames,   (* Snapshots that an instant rewind drops.              *)
  MaxProgress,     (* Bound: how far a game can come.                      *)
  MaxFaults        (* Bound: failed writes and crashes.                    *)

ASSUME SessionAssumption ==
  /\ BatteryGames \subseteq Games /\ None \notin Games
  /\ 1 \in SaveSlots
  /\ BufferSize \in Nat \ {0} /\ InstantFrames \in Nat
  /\ MaxProgress \in Nat /\ MaxFaults \in Nat

(* What is left of a memory whose file ends too soon. *)
Damaged == -1

Machines == [game : Games \union {None}, progress : (0..MaxProgress) \union {Damaged}]
NoCart   == [game |-> None, progress |-> 0]

(* Files: none, one whose header is another version's, one cut off before  *)
(* or after the end of its header, and a whole one.                        *)
FileStates == {"absent", "foreign", "broken", "torn", "whole"}
Files      == [is : FileStates, data : Machines]
Absent     == [is |-> "absent", data |-> NoCart]
Foreign    == [is |-> "foreign", data |-> NoCart]
Broken     == [is |-> "broken", data |-> NoCart]
Torn       == [is |-> "torn", data |-> NoCart]
Whole(machine) == [is |-> "whole", data |-> machine]

VARIABLES
  up,              (* The emulator runs; else it has quit.                 *)
  mode, running, loaded_rom,
  cpu,             (* The machine.                                         *)
  rewind_buffer,   (* Machines, the newest first.                          *)
  confirm_quit,    (* "none", "asked" or "confirmed"                       *)
  sram,            (* The file of every game's memory.                     *)
  save,            (* The files of every game's states.                    *)
  faults           (* So far.                                              *)

VARIABLES          (* History, for the properties only. *)
  straight,        (* The buffer holds what led to this machine.           *)
  mixed,           (* A machine was taken over under another game's name.  *)
  unnoticed        (* The last memory saved was not, without an error.     *)

deck    == <<running, loaded_rom, cpu>>
files   == <<sram, save>>
history == <<straight, mixed, unnoticed>>
vars    == <<up, mode, deck, rewind_buffer, confirm_quit, files, faults, history>>

-----------------------------------------------------------------------------
(* save_data and load_data.                                                *)

ValidHeader(file) == file.is \in {"torn", "whole"}

MayReplace(file) == file = Absent \/ ValidHeader(file)

(* What a write that fails leaves behind: File::create keeps the file, or  *)
(* empties it; then a part may be written.                                 *)
Spoiled(file) == {file, Broken, Torn}

(* The outcomes of save_data.  A failure of the last flush, when the       *)
(* BufWriter is dropped, gives no error.                                   *)
SaveData(file, machine) ==
  IF ~MayReplace(file) THEN {[ok |-> FALSE, file |-> file, fault |-> FALSE]}
  ELSE {[ok |-> TRUE, file |-> Whole(machine), fault |-> FALSE]}
       \union {[ok |-> FALSE, file |-> f, fault |-> TRUE] : f \in Spoiled(file)}
       \union {[ok |-> TRUE, file |-> f, fault |-> TRUE] : f \in {Broken, Torn}}

Faulty(outcome) ==
  /\ outcome.fault => faults < MaxFaults
  /\ faults' = IF outcome.fault THEN faults + 1 ELSE faults

-----------------------------------------------------------------------------
(* nes/state.rs and nes/menu.rs: modes.                                    *)

ResumePlay == mode' = IF running THEN "playing" ELSE mode
PausePlay  == mode' = IF running THEN "paused" ELSE mode

(* toggle_pause, and exit_menu as the way out of a menu. *)
TogglePause ==
  /\ up
  /\ IF mode \in {"playing", "rewinding"} THEN mode' = "paused" ELSE ResumePlay
  /\ UNCHANGED <<up, deck, rewind_buffer, confirm_quit, files, faults, history>>

(* open_menu, also after an error of the emulation. *)
OpenMenu ==
  /\ up /\ mode # "menu"
  /\ mode' = "menu"
  /\ UNCHANGED <<up, deck, rewind_buffer, confirm_quit, files, faults, history>>

(* on_window_event *)
LoseFocus ==
  /\ up /\ mode = "playing"
  /\ mode' = "paused_bg"
  /\ UNCHANGED <<up, deck, rewind_buffer, confirm_quit, files, faults, history>>

GainFocus ==
  /\ up /\ mode = "paused_bg"
  /\ ResumePlay
  /\ UNCHANGED <<up, deck, rewind_buffer, confirm_quit, files, faults, history>>

(* handle_nes_state: a reset of either kind keeps the memory. *)
Reset ==
  /\ up /\ ~running
  /\ running' = TRUE
  /\ UNCHANGED <<up, mode, loaded_rom, cpu, rewind_buffer, confirm_quit, files, faults, history>>

-----------------------------------------------------------------------------
(* The machine runs, and is rewound. *)

Truncate(buffer) ==
  IF Len(buffer) > BufferSize THEN SubSeq(buffer, 1, Len(buffer) \div 2) ELSE buffer

(* Mutant: a snapshot goes to the back. *)
PushBack(machine) == Truncate(Append(rewind_buffer, machine))

Push(machine) == Truncate(<<machine>> \o rewind_buffer)

(* on_update while playing: a frame and update_rewind. *)
Frame ==
  /\ up /\ mode = "playing"
  /\ \E p \in {cpu.progress, cpu.progress + 1} :
       /\ p <= MaxProgress
       /\ cpu' = IF cpu.game = None THEN cpu ELSE [cpu EXCEPT !.progress = p]
  /\ rewind_buffer' = Push(cpu')
  /\ UNCHANGED <<up, mode, running, loaded_rom, confirm_quit, files, faults, history>>

(* Dropping `dropped' snapshots and taking the next, if there is one. *)
PopAfter(dropped) ==
  IF dropped < Len(rewind_buffer)
  THEN /\ cpu' = rewind_buffer[dropped + 1]
       /\ rewind_buffer' = SubSeq(rewind_buffer, dropped + 2, Len(rewind_buffer))
  ELSE rewind_buffer' = <<>> /\ UNCHANGED cpu

Rewound ==
  /\ straight' = (straight \/ rewind_buffer' = <<>>)
  /\ mixed' = (mixed \/ cpu'.game # cpu.game)
  /\ UNCHANGED unnoticed

(* handle_feature: the key for rewinding is held, let go after holding it, *)
(* or tapped.                                                              *)
HoldRewind ==
  /\ up /\ mode # "rewinding"
  /\ mode' = "rewinding"
  /\ UNCHANGED <<up, deck, rewind_buffer, confirm_quit, files, faults, history>>

ReleaseRewind ==
  /\ up /\ mode = "rewinding"
  /\ ResumePlay
  /\ UNCHANGED <<up, deck, rewind_buffer, confirm_quit, files, faults, history>>

Rewind ==
  /\ up /\ mode = "rewinding"
  /\ PopAfter(0) /\ Rewound
  /\ UNCHANGED <<up, mode, running, loaded_rom, confirm_quit, files, faults>>

InstantRewind ==
  /\ up /\ mode # "rewinding"
  /\ PopAfter(InstantFrames) /\ Rewound
  /\ UNCHANGED <<up, mode, running, loaded_rom, confirm_quit, files, faults>>

-----------------------------------------------------------------------------
(* States. *)

SaveState(slot) ==
  /\ up /\ loaded_rom # None
  /\ \E outcome \in SaveData(save[loaded_rom][slot], cpu) :
       /\ Faulty(outcome)
       /\ save' = [save EXCEPT ![loaded_rom][slot] = outcome.file]
  /\ UNCHANGED <<up, mode, deck, rewind_buffer, confirm_quit, sram, history>>

(* A machine is replaced by that of a state, if its file can be read. *)
Loaded(file, machine) == IF file.is = "whole" THEN file.data ELSE machine

LoadState(slot) ==
  /\ up /\ loaded_rom # None
  /\ cpu' = Loaded(save[loaded_rom][slot], cpu)
  /\ straight' = IF cpu' = cpu THEN straight ELSE rewind_buffer = <<>>
  /\ UNCHANGED <<up, mode, running, loaded_rom, rewind_buffer, confirm_quit, files, faults, mixed, unnoticed>>

-----------------------------------------------------------------------------
(* Games. *)

(* What load_sram can make of a fresh machine: of a file that ends too     *)
(* soon an error, or what there is of it.                                  *)
WithMemory(game) ==
  LET fresh == [game |-> game, progress |-> 0]
  IN  IF game \notin BatteryGames THEN {fresh}
      ELSE CASE sram[game].is = "whole" -> {[fresh EXCEPT !.progress = sram[game].data.progress]}
             [] sram[game].is = "torn"  -> {fresh, [fresh EXCEPT !.progress = Damaged]}
             [] OTHER                   -> {fresh}

(* Mutant: the name is that of the file to be opened. *)
UnopenedNamed(game) ==
  /\ loaded_rom' = game
  /\ UNCHANGED <<mode, running, cpu, straight, mixed>>

(* load_rom, which the menu calls: the file is no NES ROM, or cannot be    *)
(* opened; its cartridge cannot be read; or the game begins.  The last two *)
(* load the state of the first slot.                                       *)
Unopened(game) ==
  UNCHANGED <<mode, deck, straight, mixed>>

Unread(game) ==
  /\ loaded_rom' = game
  /\ cpu' = Loaded(save[game][1], cpu)
  /\ straight' = IF cpu' = cpu THEN straight ELSE rewind_buffer = <<>>
  /\ mixed' = (mixed \/ cpu'.game \notin {None, game})
  /\ UNCHANGED <<mode, running>>

Begun(game) ==
  /\ loaded_rom' = game
  /\ \E machine \in WithMemory(game) : cpu' = Loaded(save[game][1], machine)
  /\ running' = TRUE /\ mode' = "playing"
  /\ straight' = (rewind_buffer = <<>>)
  /\ UNCHANGED mixed

LoadRom(game) ==
  /\ up /\ mode = "menu"
  /\ Unopened(game) \/ Unread(game) \/ Begun(game)
  /\ UNCHANGED <<up, rewind_buffer, confirm_quit, files, faults, unnoticed>>

-----------------------------------------------------------------------------
(* The end. *)

HasMemory == cpu.game \in BatteryGames

(* save_sram: under the name of the game loaded. *)
SaveSram ==
  IF HasMemory THEN SaveData(sram[loaded_rom], cpu)
  ELSE {[ok |-> TRUE, file |-> sram[loaded_rom], fault |-> FALSE]}

(* Mutant: an error is only logged. *)
AsksNever(outcome) == FALSE

Asks(outcome) == ~outcome.ok

(* on_stop, when a key, the window or the confirmation quits: the memory   *)
(* is saved unless the user was asked before, and the first failure asks.  *)
OnStop ==
  IF loaded_rom = None \/ confirm_quit # "none"
  THEN up' = FALSE /\ UNCHANGED <<mode, confirm_quit, sram, faults, unnoticed>>
  ELSE \E outcome \in SaveSram :
         /\ Faulty(outcome)
         /\ sram' = [sram EXCEPT ![loaded_rom] = outcome.file]
         /\ unnoticed' = (outcome.fault /\ outcome.ok)
         /\ IF Asks(outcome) THEN confirm_quit' = "asked" /\ PausePlay /\ UNCHANGED up
            ELSE up' = FALSE /\ UNCHANGED <<mode, confirm_quit>>

(* The key pauses first; closing the window does not.  That shows only in  *)
(* the mode of an emulator that then stays up, which is paused anyway.     *)
Quit ==
  /\ up
  /\ OnStop
  /\ UNCHANGED <<deck, rewind_buffer, save, straight, mixed>>

(* render_confirm_quit, which only a paused emulator shows. *)
Confirm ==
  /\ up /\ mode \in {"paused", "paused_bg"} /\ confirm_quit = "asked"
  /\ confirm_quit' = "confirmed" /\ up' = FALSE
  /\ UNCHANGED <<mode, deck, rewind_buffer, files, faults, history>>

Cancel ==
  /\ up /\ mode \in {"paused", "paused_bg"} /\ confirm_quit = "asked"
  /\ confirm_quit' = "none"
  /\ ResumePlay
  /\ UNCHANGED <<up, deck, rewind_buffer, files, faults, history>>

(* The emulator starts. *)
Started ==
  /\ up' = TRUE /\ mode' = "menu" /\ running' = FALSE /\ loaded_rom' = None /\ cpu' = NoCart
  /\ rewind_buffer' = <<>> /\ confirm_quit' = "none"
  /\ straight' = TRUE /\ unnoticed' = FALSE /\ UNCHANGED mixed

Restart ==
  /\ ~up
  /\ Started /\ UNCHANGED <<files, faults>>

(* A crash, which may hit a file that is being written, and a new start.   *)
Crash ==
  /\ up /\ faults < MaxFaults
  /\ faults' = faults + 1
  /\ \/ UNCHANGED files
     \/ /\ loaded_rom # None /\ HasMemory /\ MayReplace(sram[loaded_rom])
        /\ \E f \in {Broken, Torn} : sram' = [sram EXCEPT ![loaded_rom] = f]
        /\ UNCHANGED save
     \/ /\ loaded_rom # None
        /\ \E slot \in SaveSlots, f \in {Broken, Torn} :
             /\ MayReplace(save[loaded_rom][slot])
             /\ save' = [save EXCEPT ![loaded_rom][slot] = f]
        /\ UNCHANGED sram
  /\ Started

-----------------------------------------------------------------------------
(* The files of memory are all absent, or all of another version.          *)
Init ==
  /\ up = TRUE /\ mode = "menu" /\ running = FALSE /\ loaded_rom = None /\ cpu = NoCart
  /\ rewind_buffer = <<>> /\ confirm_quit = "none" /\ straight = TRUE
  /\ \E file \in {Absent, Foreign} : sram = [g \in Games |-> file]
  /\ save = [g \in Games |-> [slot \in SaveSlots |-> Absent]]
  /\ faults = 0 /\ mixed = FALSE /\ unnoticed = FALSE

Next ==
  \/ TogglePause \/ OpenMenu \/ LoseFocus \/ GainFocus \/ Reset
  \/ Frame \/ HoldRewind \/ ReleaseRewind \/ Rewind \/ InstantRewind
  \/ \E slot \in SaveSlots : SaveState(slot) \/ LoadState(slot)
  \/ \E game \in Games : LoadRom(game)
  \/ Quit \/ Confirm \/ Cancel \/ Crash \/ Restart

Spec == Init /\ [][Next]_vars

-----------------------------------------------------------------------------
TypeOK ==
  /\ up \in BOOLEAN
  /\ mode \in {"playing", "paused", "paused_bg", "menu", "rewinding"}
  /\ running \in BOOLEAN /\ loaded_rom \in Games \union {None} /\ cpu \in Machines
  /\ rewind_buffer \in Seq(Machines) /\ Len(rewind_buffer) <= BufferSize
  /\ confirm_quit \in {"none", "asked", "confirmed"}
  /\ sram \in [Games -> Files] /\ save \in [Games -> [SaveSlots -> Files]]
  /\ faults \in 0..MaxFaults
  /\ straight \in BOOLEAN /\ mixed \in BOOLEAN /\ unnoticed \in BOOLEAN

(* An emulator that quits without having asked has saved the memory of the *)
(* game that was running, unless an error went unnoticed.                  *)
QuitSaves ==
  ~up /\ confirm_quit = "none" /\ loaded_rom # None /\ HasMemory =>
    sram[loaded_rom] = Whole(cpu) \/ unnoticed

(* A file under a game's name holds a machine of that game, as long as no  *)
(* game failed to load while another was running, and nobody rewound from  *)
(* one game into another: both keep the machine and give it a wrong name.  *)
OwnFiles ==
  ~mixed =>
    \A g \in Games :
      /\ sram[g].is = "whole" => sram[g].data.game = g
      /\ \A slot \in SaveSlots : save[g][slot].is = "whole" => save[g][slot].data.game \in {None, g}

(* Frames are played by a running console only, whatever menus, keys and   *)
(* windows did before.                                                     *)
PlayingRuns == up /\ mode \in {"playing", "paused_bg"} => running

(* Rewinding goes back in time (README.md:390), unless a game or a state   *)
(* was loaded since the buffer was empty.                                  *)
RewindGoesBack ==
  [][ (Rewind \/ InstantRewind) /\ straight
      => cpu'.game = cpu.game /\ cpu'.progress <= cpu.progress ]_vars

(* A file of another version is never written over (filesystem.rs:98).     *)
ForeignKept ==
  [][ \A g \in Games : sram[g] = Foreign => sram'[g] = Foreign ]_vars
=============================================================================
