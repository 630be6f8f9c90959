---------------------------- MODULE SessionProofs ----------------------------
(***************************************************************************)
(* Theorems about Session for any set of games, of slots, any size of the  *)
(* rewind buffer and any number of faults, with their proofs.              *)
(***************************************************************************)
EXTENDS Session, SequenceTheorems, TLAPS

-----------------------------------------------------------------------------
(* The rewind buffer. *)

(* A buffer that is cut keeps its newest snapshots and fits again. *)
LEMMA Truncated ==
  ASSUME NEW b \in Seq(Machines), Len(b) <= BufferSize + 1
  PROVE  /\ Truncate(b) \in Seq(Machines)
         /\ Len(Truncate(b)) <= BufferSize /\ Len(Truncate(b)) <= Len(b)
         /\ \A i \in 1..Len(Truncate(b)) : Truncate(b)[i] = b[i]
<1> DEFINE half == Len(b) \div 2
           front == SubSeq(b, 1, half)
<1>1. Len(b) \in Nat /\ BufferSize \in Nat \ {0}
  BY SessionAssumption
<1>2. CASE Len(b) > BufferSize
  <2>1. half \in Nat /\ half <= Len(b) /\ (Len(b) > 1 => half < Len(b))
    BY <1>1
  <2>2. \A i \in 1..half : b[i] \in Machines
    BY <2>1
  <2>3. /\ front \in Seq(Machines)
        /\ Len(front) = IF 1 <= half THEN half - 1 + 1 ELSE 0
        /\ \A i \in 1..(half - 1 + 1) : front[i] = b[1 + i - 1]
    BY <2>1, <2>2, SubSeqProperties, 1 \in Int, half \in Int
  <2>4. Len(front) = half
    BY <2>1, <2>3
  <2>5. \A i \in 1..half : front[i] = b[i]
    BY <2>1, <2>3
  <2>6. half <= BufferSize
    BY <1>1, <1>2, <2>1
  <2> HIDE DEF front, half
  <2>7. Truncate(b) = front
    BY <1>2 DEF Truncate, front, half
  <2> QED
    BY <1>1, <2>1, <2>3, <2>4, <2>5, <2>6, <2>7
<1>3. CASE ~(Len(b) > BufferSize)
  <2>1. Truncate(b) = b
    BY <1>3 DEF Truncate
  <2> QED
    BY <1>1, <1>3, <2>1
<1> QED
  BY <1>2, <1>3

(* What a snapshot makes of the buffer. *)
LEMMA Pushed ==
  ASSUME NEW machine \in Machines,
         rewind_buffer \in Seq(Machines), Len(rewind_buffer) <= BufferSize
  PROVE  /\ Push(machine) \in Seq(Machines)
         /\ Len(Push(machine)) <= BufferSize /\ Len(Push(machine)) <= Len(rewind_buffer) + 1
         /\ \A i \in 1..Len(Push(machine)) :
              Push(machine)[i] = IF i = 1 THEN machine ELSE rewind_buffer[i - 1]
<1> DEFINE one == <<machine>>
           b == one \o rewind_buffer
<1>1. one \in Seq(Machines) /\ Len(one) = 1 /\ one[1] = machine
  OBVIOUS
<1>2. Len(rewind_buffer) \in Nat /\ BufferSize \in Nat
  BY SessionAssumption
<1> HIDE DEF one
<1>3. /\ b \in Seq(Machines) /\ Len(b) = 1 + Len(rewind_buffer)
      /\ \A i \in 1..(1 + Len(rewind_buffer)) : b[i] = IF i <= 1 THEN one[i] ELSE rewind_buffer[i - 1]
  <2>1. /\ one \o rewind_buffer \in Seq(Machines)
        /\ Len(one \o rewind_buffer) = Len(one) + Len(rewind_buffer)
        /\ \A i \in 1..Len(one) + Len(rewind_buffer) :
             (one \o rewind_buffer)[i] =
               IF i <= Len(one) THEN one[i] ELSE rewind_buffer[i - Len(one)]
    BY <1>1, ConcatProperties, Zenon
  <2> QED
    BY <1>1, <2>1
<1>4. Push(machine) = Truncate(b)
  BY DEF Push, one
<1> HIDE DEF b
<1>5. /\ Truncate(b) \in Seq(Machines)
      /\ Len(Truncate(b)) <= BufferSize /\ Len(Truncate(b)) <= Len(b)
      /\ \A i \in 1..Len(Truncate(b)) : Truncate(b)[i] = b[i]
  <2>1. Len(b) <= BufferSize + 1
    BY <1>2, <1>3
  <2> QED
    BY <1>3, <2>1, Truncated
<1>6. \A i \in 1..Len(Truncate(b)) : Truncate(b)[i] = IF i = 1 THEN machine ELSE rewind_buffer[i - 1]
  <2> SUFFICES ASSUME NEW i \in 1..Len(Truncate(b))
               PROVE  Truncate(b)[i] = IF i = 1 THEN machine ELSE rewind_buffer[i - 1]
    OBVIOUS
  <2>1. i \in 1..(1 + Len(rewind_buffer)) /\ Len(Truncate(b)) \in Nat
    BY <1>2, <1>3, <1>5
  <2>2. Truncate(b)[i] = b[i]
    BY <1>5
  <2> QED
    BY <1>1, <1>3, <2>1, <2>2
<1> QED
  BY <1>2, <1>3, <1>4, <1>5, <1>6

(* What is left of the buffer when it has given a machine back. *)
LEMMA PoppedAfter ==
  ASSUME NEW b \in Seq(Machines), NEW dropped \in Nat, dropped < Len(b)
  PROVE  /\ b[dropped + 1] \in Machines
         /\ SubSeq(b, dropped + 2, Len(b)) \in Seq(Machines)
         /\ Len(SubSeq(b, dropped + 2, Len(b))) = Len(b) - dropped - 1
         /\ \A i \in 1..(Len(b) - dropped - 1) :
              SubSeq(b, dropped + 2, Len(b))[i] = b[dropped + 1 + i]
<1> DEFINE rest == SubSeq(b, dropped + 2, Len(b))
<1>1. Len(b) \in Nat /\ dropped + 2 \in Int /\ Len(b) \in Int
  OBVIOUS
<1>2. \A i \in (dropped + 2)..Len(b) : b[i] \in Machines
  BY <1>1
<1>3. /\ rest \in Seq(Machines)
      /\ Len(rest) = IF dropped + 2 <= Len(b) THEN Len(b) - (dropped + 2) + 1 ELSE 0
      /\ \A i \in 1..(Len(b) - (dropped + 2) + 1) : rest[i] = b[(dropped + 2) + i - 1]
  BY <1>1, <1>2, SubSeqProperties
<1> HIDE DEF rest
<1>4. Len(rest) = Len(b) - dropped - 1
  BY <1>1, <1>3
<1>5. \A i \in 1..(Len(b) - dropped - 1) : rest[i] = b[dropped + 1 + i]
  BY <1>1, <1>3, <1>4
<1>6. b[dropped + 1] \in Machines
  BY <1>1
<1> QED
  BY <1>3, <1>4, <1>5, <1>6 DEF rest

-----------------------------------------------------------------------------
(* Files. *)

LEMMA FilesType ==
  /\ NoCart \in Machines
  /\ Absent \in Files /\ Foreign \in Files /\ Broken \in Files /\ Torn \in Files
  /\ \A machine \in Machines : Whole(machine) \in Files
  /\ \A file \in Files : file.is \in FileStates /\ file.data \in Machines
<1>1. NoCart \in Machines
  BY SessionAssumption DEF NoCart, Machines
<1> QED
  BY <1>1, Zenon DEF Absent, Foreign, Broken, Torn, Whole, Files, FileStates

(* What save_data makes of a file: a success has written the machine, an   *)
(* error or a success unless a fault hid it, and a file of another version *)
(* is kept.                                                                *)
LEMMA Saving ==
  ASSUME NEW file \in Files, NEW machine \in Machines, NEW outcome \in SaveData(file, machine)
  PROVE  /\ outcome.ok \in BOOLEAN /\ outcome.fault \in BOOLEAN /\ outcome.file \in Files
         /\ file = Foreign => outcome.file = Foreign
         /\ outcome.ok /\ ~outcome.fault => outcome.file = Whole(machine)
         /\ outcome.file.is = "whole" => outcome.file = file \/ outcome.file = Whole(machine)
<1>1. CASE ~MayReplace(file)
  <2>1. outcome = [ok |-> FALSE, file |-> file, fault |-> FALSE]
    BY <1>1 DEF SaveData
  <2> QED
    BY <2>1
<1>2. CASE MayReplace(file)
  <2>1. file # Foreign
    BY <1>2 DEF MayReplace, ValidHeader, Foreign, Absent
  <2>2. \/ outcome = [ok |-> TRUE, file |-> Whole(machine), fault |-> FALSE]
        \/ \E f \in {file, Broken, Torn} : outcome = [ok |-> FALSE, file |-> f, fault |-> TRUE]
        \/ \E f \in {Broken, Torn} : outcome = [ok |-> TRUE, file |-> f, fault |-> TRUE]
    BY <1>2 DEF SaveData, Spoiled
  <2>3. CASE outcome = [ok |-> TRUE, file |-> Whole(machine), fault |-> FALSE]
    BY <2>1, <2>3, FilesType
  <2>4. ASSUME NEW f \in {file, Broken, Torn}, outcome = [ok |-> FALSE, file |-> f, fault |-> TRUE]
        PROVE  /\ outcome.ok = FALSE /\ outcome.fault = TRUE /\ outcome.file = f /\ f \in Files
               /\ f.is = "whole" => f = file
    BY <2>4, FilesType DEF Broken, Torn
  <2>5. ASSUME NEW f \in {Broken, Torn}, outcome = [ok |-> TRUE, file |-> f, fault |-> TRUE]
        PROVE  /\ outcome.ok = TRUE /\ outcome.fault = TRUE /\ outcome.file = f /\ f \in Files
               /\ f.is # "whole"
    BY <2>5, FilesType DEF Broken, Torn
  <2> QED
    BY <2>1, <2>2, <2>3, <2>4, <2>5
<1> QED
  BY <1>1, <1>2

LEMMA MemorySaved ==
  ASSUME NEW outcome \in SaveSram, sram[loaded_rom] \in Files, cpu \in Machines
  PROVE  /\ outcome.ok \in BOOLEAN /\ outcome.fault \in BOOLEAN /\ outcome.file \in Files
         /\ sram[loaded_rom] = Foreign => outcome.file = Foreign
         /\ HasMemory /\ outcome.ok /\ ~outcome.fault => outcome.file = Whole(cpu)
         /\ outcome.file.is = "whole" =>
              outcome.file = sram[loaded_rom] \/ outcome.file = Whole(cpu)
<1>1. CASE HasMemory
  <2>1. outcome \in SaveData(sram[loaded_rom], cpu)
    BY <1>1 DEF SaveSram
  <2> QED
    BY <2>1, Saving
<1>2. CASE ~HasMemory
  <2>1. outcome = [ok |-> TRUE, file |-> sram[loaded_rom], fault |-> FALSE]
    BY <1>2 DEF SaveSram
  <2> QED
    BY <1>2, <2>1
<1> QED
  BY <1>1, <1>2

(* What load_sram makes of a machine with a fresh game. *)
LEMMA Memory ==
  ASSUME NEW game \in Games, sram \in [Games -> Files], NEW machine \in WithMemory(game)
  PROVE  machine \in Machines /\ machine.game = game
<1> DEFINE fresh == [game |-> game, progress |-> 0]
<1>1. fresh \in Machines /\ fresh.game = game /\ fresh.progress = 0
  BY SessionAssumption DEF Machines
<1>2. ASSUME NEW p \in (0..MaxProgress) \union {Damaged}
      PROVE  [fresh EXCEPT !.progress = p] \in Machines /\ [fresh EXCEPT !.progress = p].game = game
  BY <1>1 DEF Machines
<1>3. sram[game].data.progress \in (0..MaxProgress) \union {Damaged}
  BY FilesType DEF Machines
<1>4. \/ machine = fresh
      \/ machine = [fresh EXCEPT !.progress = sram[game].data.progress]
      \/ machine = [fresh EXCEPT !.progress = Damaged]
  BY Zenon DEF WithMemory
<1> QED
  BY <1>1, <1>2, <1>3, <1>4

LEMMA LoadedType ==
  ASSUME NEW file \in Files, NEW machine \in Machines
  PROVE  Loaded(file, machine) \in Machines
BY FilesType DEF Loaded

-----------------------------------------------------------------------------
(* Type correctness. *)

LEMMA SnapshotBefore ==
  ASSUME NEW dropped \in Nat, PopAfter(dropped),
         cpu \in Machines, rewind_buffer \in Seq(Machines), Len(rewind_buffer) <= BufferSize
  PROVE  /\ cpu' \in Machines
         /\ rewind_buffer' \in Seq(Machines) /\ Len(rewind_buffer') <= BufferSize
<1>1. Len(rewind_buffer) \in Nat /\ BufferSize \in Nat
  BY SessionAssumption
<1>2. CASE dropped < Len(rewind_buffer)
  <2>1. /\ cpu' = rewind_buffer[dropped + 1]
        /\ rewind_buffer' = SubSeq(rewind_buffer, dropped + 2, Len(rewind_buffer))
    BY <1>2 DEF PopAfter
  <2>2. /\ cpu' \in Machines /\ rewind_buffer' \in Seq(Machines)
        /\ Len(rewind_buffer') = Len(rewind_buffer) - dropped - 1
    BY <1>2, <2>1, PoppedAfter
  <2> QED
    BY <1>1, <2>2
<1>3. CASE ~(dropped < Len(rewind_buffer))
  BY <1>1, <1>3 DEF PopAfter
<1> QED
  BY <1>2, <1>3

LEMMA TypeInit == Init => TypeOK
<1> SUFFICES ASSUME Init PROVE TypeOK
  OBVIOUS
<1>1. sram \in [Games -> Files] /\ save \in [Games -> [SaveSlots -> Files]]
  BY FilesType DEF Init
<1>2. <<>> \in Seq(Machines) /\ Len(<<>>) = 0 /\ 0 <= BufferSize /\ 0 \in 0..MaxFaults
  BY SessionAssumption
<1> QED
  BY <1>1, <1>2, FilesType DEF Init, TypeOK

LEMMA TypeStep == TypeOK /\ [Next]_vars => TypeOK'
<1> SUFFICES ASSUME TypeOK, [Next]_vars PROVE TypeOK'
  OBVIOUS
<1> USE DEF TypeOK, deck, files, history
<1>1. CASE TogglePause
  BY <1>1 DEF TogglePause, ResumePlay
<1>2. CASE OpenMenu
  BY <1>2 DEF OpenMenu
<1>3. CASE LoseFocus
  BY <1>3 DEF LoseFocus
<1>4. CASE GainFocus
  BY <1>4 DEF GainFocus, ResumePlay
<1>5. CASE Reset
  BY <1>5 DEF Reset
<1>6. CASE Frame
  <2>1. PICK p \in {cpu.progress, cpu.progress + 1} :
          p <= MaxProgress /\ cpu' = IF cpu.game = None THEN cpu ELSE [cpu EXCEPT !.progress = p]
    BY <1>6 DEF Frame
  <2>2. p \in (0..MaxProgress) \union {Damaged}
    BY <2>1, SessionAssumption DEF Machines, Damaged
  <2>3. cpu' \in Machines
    BY <2>1, <2>2 DEF Machines
  <2>4. rewind_buffer' = Push(cpu')
    BY <1>6 DEF Frame
  <2>5. rewind_buffer' \in Seq(Machines) /\ Len(rewind_buffer') <= BufferSize
    BY <2>3, <2>4, Pushed
  <2> QED
    BY <1>6, <2>3, <2>5 DEF Frame
<1>7. CASE HoldRewind
  BY <1>7 DEF HoldRewind
<1>8. CASE ReleaseRewind
  BY <1>8 DEF ReleaseRewind, ResumePlay
<1>9. CASE Rewind
  BY <1>9, SnapshotBefore, 0 \in Nat DEF Rewind, Rewound
<1>10. CASE InstantRewind
  BY <1>10, SnapshotBefore, SessionAssumption DEF InstantRewind, Rewound
<1>11. ASSUME NEW slot \in SaveSlots, SaveState(slot) PROVE TypeOK'
  <2>1. PICK outcome \in SaveData(save[loaded_rom][slot], cpu) :
          /\ Faulty(outcome)
          /\ save' = [save EXCEPT ![loaded_rom][slot] = outcome.file]
    BY <1>11 DEF SaveState
  <2>2. loaded_rom \in Games /\ save[loaded_rom][slot] \in Files
    BY <1>11 DEF SaveState
  <2>3. outcome.file \in Files /\ outcome.fault \in BOOLEAN
    BY <2>2, Saving
  <2>4. faults' \in 0..MaxFaults
    BY <2>1, <2>3, SessionAssumption DEF Faulty
  <2>5. save' \in [Games -> [SaveSlots -> Files]]
    BY <2>1, <2>2, <2>3
  <2> QED
    BY <1>11, <2>4, <2>5 DEF SaveState
<1>12. ASSUME NEW slot \in SaveSlots, LoadState(slot) PROVE TypeOK'
  <2>1. loaded_rom \in Games /\ save[loaded_rom][slot] \in Files
    BY <1>12 DEF LoadState
  <2> QED
    BY <1>12, <2>1, LoadedType DEF LoadState
<1>13. ASSUME NEW game \in Games, LoadRom(game) PROVE TypeOK'
  <2>1. save[game][1] \in Files
    BY SessionAssumption
  <2>2. CASE Unopened(game)
    BY <1>13, <2>2 DEF LoadRom, Unopened
  <2>3. CASE Unread(game)
    BY <1>13, <2>1, <2>3, LoadedType DEF LoadRom, Unread
  <2>4. CASE Begun(game)
    <3>1. PICK machine \in WithMemory(game) : cpu' = Loaded(save[game][1], machine)
      BY <2>4 DEF Begun
    <3>2. cpu' \in Machines
      BY <2>1, <3>1, Memory, LoadedType
    <3> QED
      BY <1>13, <2>4, <3>2 DEF LoadRom, Begun
  <2> QED
    BY <1>13, <2>2, <2>3, <2>4 DEF LoadRom
<1>14. CASE Quit
  <2>1. CASE loaded_rom = None \/ confirm_quit # "none"
    BY <1>14, <2>1 DEF Quit, OnStop
  <2>2. CASE ~(loaded_rom = None \/ confirm_quit # "none")
    <3>1. PICK outcome \in SaveSram :
            /\ Faulty(outcome)
            /\ sram' = [sram EXCEPT ![loaded_rom] = outcome.file]
            /\ unnoticed' = (outcome.fault /\ outcome.ok)
            /\ IF Asks(outcome) THEN confirm_quit' = "asked" /\ PausePlay /\ UNCHANGED up
               ELSE up' = FALSE /\ UNCHANGED <<mode, confirm_quit>>
      BY <1>14, <2>2 DEF Quit, OnStop
    <3>2. sram[loaded_rom] \in Files
      BY <2>2
    <3>3. outcome.ok \in BOOLEAN /\ outcome.fault \in BOOLEAN /\ outcome.file \in Files
      BY <3>1, <3>2, MemorySaved
    <3>4. faults' \in 0..MaxFaults
      BY <3>1, <3>3, SessionAssumption DEF Faulty
    <3>5. /\ sram' \in [Games -> Files] /\ unnoticed' \in BOOLEAN
      BY <3>1, <3>3
    <3>6. /\ up' \in BOOLEAN /\ confirm_quit' \in {"none", "asked", "confirmed"}
          /\ mode' \in {"playing", "paused", "paused_bg", "menu", "rewinding"}
      BY <3>1 DEF PausePlay
    <3> QED
      BY <1>14, <3>4, <3>5, <3>6 DEF Quit
  <2> QED
    BY <2>1, <2>2
<1>15. CASE Confirm
  BY <1>15 DEF Confirm
<1>16. CASE Cancel
  BY <1>16 DEF Cancel, ResumePlay
<1>17. ASSUME Started PROVE /\ up' \in BOOLEAN /\ mode' = "menu" /\ running' \in BOOLEAN
                            /\ loaded_rom' \in Games \union {None} /\ cpu' \in Machines
                            /\ rewind_buffer' \in Seq(Machines) /\ Len(rewind_buffer') <= BufferSize
                            /\ confirm_quit' = "none"
                            /\ straight' \in BOOLEAN /\ mixed' \in BOOLEAN /\ unnoticed' \in BOOLEAN
  <2>1. <<>> \in Seq(Machines) /\ Len(<<>>) = 0 /\ 0 <= BufferSize
    BY SessionAssumption
  <2> QED
    BY <1>17, <2>1, FilesType DEF Started
<1>18. CASE Crash
  <2>1. faults' \in 0..MaxFaults /\ Started
    BY <1>18, SessionAssumption DEF Crash
  <2>2. sram' \in [Games -> Files] /\ save' \in [Games -> [SaveSlots -> Files]]
    <3>1. CASE UNCHANGED files
      BY <3>1
    <3>2. CASE /\ loaded_rom # None
               /\ \E f \in {Broken, Torn} : sram' = [sram EXCEPT ![loaded_rom] = f]
               /\ UNCHANGED save
      BY <3>2, FilesType
    <3>3. CASE /\ loaded_rom # None
               /\ \E slot \in SaveSlots, f \in {Broken, Torn} :
                    save' = [save EXCEPT ![loaded_rom][slot] = f]
               /\ UNCHANGED sram
      BY <3>3, FilesType
    <3> QED
      BY <1>18, <3>1, <3>2, <3>3, Zenon DEF Crash
  <2> QED
    BY <1>17, <2>1, <2>2
<1>19. CASE Restart
  BY <1>17, <1>19 DEF Restart
<1>20. CASE UNCHANGED vars
  BY <1>20 DEF vars
<1> QED
  BY <1>1, <1>2, <1>3, <1>4, <1>5, <1>6, <1>7, <1>8, <1>9, <1>10, <1>11, <1>12, <1>13,
     <1>14, <1>15, <1>16, <1>18, <1>19, <1>20 DEF Next

(* Every variable has its type; above all, the rewind buffer never has     *)
(* more snapshots than there is room for (nes/state.rs:187).               *)
THEOREM TypeCorrect == Spec => []TypeOK
<1>1. Init => TypeOK
  BY TypeInit
<1>2. TypeOK /\ [Next]_vars => TypeOK'
  BY TypeStep
<1> QED
  BY <1>1, <1>2, PTL DEF Spec

-----------------------------------------------------------------------------
(* Modes. *)

LEMMA PlayingStep == TypeOK /\ PlayingRuns /\ [Next]_vars => PlayingRuns'
<1> SUFFICES ASSUME TypeOK, PlayingRuns, [Next]_vars PROVE PlayingRuns'
  OBVIOUS
<1> USE DEF PlayingRuns, deck
<1>1. CASE TogglePause \/ GainFocus \/ ReleaseRewind \/ Cancel
  BY <1>1 DEF TogglePause, GainFocus, ReleaseRewind, Cancel, ResumePlay
<1>2. CASE OpenMenu \/ LoseFocus \/ Reset \/ HoldRewind
  BY <1>2 DEF OpenMenu, LoseFocus, Reset, HoldRewind
<1>3. CASE Frame \/ Rewind \/ InstantRewind
  BY <1>3 DEF Frame, Rewind, InstantRewind
<1>4. ASSUME NEW slot \in SaveSlots, SaveState(slot) \/ LoadState(slot) PROVE PlayingRuns'
  BY <1>4 DEF SaveState, LoadState
<1>5. ASSUME NEW game \in Games, LoadRom(game) PROVE PlayingRuns'
  BY <1>5, Zenon DEF LoadRom, Unopened, Unread, Begun
<1>6. CASE Quit
  BY <1>6 DEF Quit, OnStop, PausePlay
<1>7. CASE Confirm
  BY <1>7 DEF Confirm
<1>8. CASE Crash \/ Restart
  BY <1>8 DEF Crash, Restart, Started
<1>9. CASE UNCHANGED vars
  BY <1>9 DEF vars
<1> QED
  BY <1>1, <1>2, <1>3, <1>4, <1>5, <1>6, <1>7, <1>8, <1>9 DEF Next

(* Whatever the order of keys, menus, focus and failed games, only a       *)
(* console that runs plays (nes/state.rs:54, nes.rs:551).                  *)
THEOREM PlayingRunsAlways == Spec => []PlayingRuns
<1>1. Init => PlayingRuns
  BY DEF Init, PlayingRuns
<1> QED
  BY <1>1, PlayingStep, TypeCorrect, PTL DEF Spec

-----------------------------------------------------------------------------
(* Files of other versions. *)

(* A step leaves the files of memory alone, or writes that of the game     *)
(* whose name is loaded, which then is not one of another version.         *)
LEMMA Written ==
  ASSUME TypeOK, [Next]_vars
  PROVE  \/ UNCHANGED sram
         \/ \E file : sram' = [sram EXCEPT ![loaded_rom] = file]
                      /\ loaded_rom \in Games /\ (sram[loaded_rom] = Foreign => file = Foreign)
<1> USE DEF files
<1>1. CASE TogglePause \/ OpenMenu \/ LoseFocus \/ GainFocus \/ Reset
  BY <1>1, Zenon DEF TogglePause, OpenMenu, LoseFocus, GainFocus, Reset
<1>2. CASE Frame \/ HoldRewind \/ ReleaseRewind \/ Rewind \/ InstantRewind
  BY <1>2, Zenon DEF Frame, HoldRewind, ReleaseRewind, Rewind, InstantRewind
<1>3. ASSUME NEW slot \in SaveSlots, SaveState(slot) \/ LoadState(slot) PROVE UNCHANGED sram
  BY <1>3, Zenon DEF SaveState, LoadState
<1>4. ASSUME NEW game \in Games, LoadRom(game) PROVE UNCHANGED sram
  BY <1>4, Zenon DEF LoadRom
<1>5. CASE Quit
  <2>1. CASE loaded_rom = None \/ confirm_quit # "none"
    BY <1>5, <2>1 DEF Quit, OnStop
  <2>2. CASE ~(loaded_rom = None \/ confirm_quit # "none")
    <3>1. PICK outcome \in SaveSram : sram' = [sram EXCEPT ![loaded_rom] = outcome.file]
      BY <1>5, <2>2 DEF Quit, OnStop
    <3>2. loaded_rom \in Games /\ sram[loaded_rom] \in Files /\ cpu \in Machines
      BY <2>2 DEF TypeOK
    <3> QED
      BY <3>1, <3>2, MemorySaved
  <2> QED
    BY <2>1, <2>2
<1>6. CASE Crash
  <2>1. CASE /\ loaded_rom # None /\ MayReplace(sram[loaded_rom])
             /\ \E f \in {Broken, Torn} : sram' = [sram EXCEPT ![loaded_rom] = f]
    <3>1. sram[loaded_rom] # Foreign /\ loaded_rom \in Games
      BY <2>1 DEF TypeOK, MayReplace, ValidHeader, Foreign, Absent
    <3> QED
      BY <2>1, <3>1
  <2> QED
    BY <1>6, <2>1, Zenon DEF Crash
<1>7. CASE Confirm \/ Cancel \/ Restart
  BY <1>7, Zenon DEF Confirm, Cancel, Restart
<1>8. CASE UNCHANGED vars
  BY <1>8 DEF vars
<1> QED
  BY <1>1, <1>2, <1>3, <1>4, <1>5, <1>6, <1>7, <1>8, Zenon DEF Next

(* No write, no failed write and no crash touches a file that another      *)
(* version has written (nes/filesystem.rs:98).                             *)
THEOREM ForeignKeptAlways == Spec => ForeignKept
<1>1. TypeOK /\ [Next]_vars =>
        [\A g \in Games : sram[g] = Foreign => sram'[g] = Foreign]_vars
  <2> SUFFICES ASSUME TypeOK, [Next]_vars, NEW g \in Games, sram[g] = Foreign
               PROVE  sram'[g] = Foreign
    BY Zenon
  <2>1. CASE UNCHANGED sram
    BY <2>1
  <2>2. ASSUME NEW file, sram' = [sram EXCEPT ![loaded_rom] = file],
               loaded_rom \in Games, sram[loaded_rom] = Foreign => file = Foreign
        PROVE  sram'[g] = Foreign
    BY <2>2 DEF TypeOK
  <2> QED
    BY <2>1, <2>2, Written
<1> QED
  BY <1>1, TypeCorrect, PTL DEF Spec, ForeignKept

-----------------------------------------------------------------------------
(* Quitting. *)

LEMMA QuitStep == TypeOK /\ QuitSaves /\ [Next]_vars => QuitSaves'
<1> SUFFICES ASSUME TypeOK, QuitSaves, [Next]_vars PROVE QuitSaves'
  OBVIOUS
<1>1. ASSUME up, UNCHANGED up PROVE QuitSaves'
  BY <1>1 DEF QuitSaves
<1>2. CASE TogglePause \/ OpenMenu \/ LoseFocus \/ GainFocus \/ Reset
  BY <1>1, <1>2 DEF TogglePause, OpenMenu, LoseFocus, GainFocus, Reset
<1>3. CASE Frame \/ HoldRewind \/ ReleaseRewind \/ Rewind \/ InstantRewind
  BY <1>1, <1>3 DEF Frame, HoldRewind, ReleaseRewind, Rewind, InstantRewind
<1>4. ASSUME NEW slot \in SaveSlots, SaveState(slot) \/ LoadState(slot) PROVE QuitSaves'
  BY <1>1, <1>4 DEF SaveState, LoadState
<1>5. ASSUME NEW game \in Games, LoadRom(game) PROVE QuitSaves'
  BY <1>1, <1>5, Zenon DEF LoadRom
<1>6. CASE Quit
  <2>1. UNCHANGED deck
    BY <1>6 DEF Quit
  <2>2. CASE loaded_rom = None \/ confirm_quit # "none"
    BY <1>6, <2>1, <2>2 DEF Quit, OnStop, QuitSaves, deck
  <2>3. CASE ~(loaded_rom = None \/ confirm_quit # "none")
    <3>1. PICK outcome \in SaveSram :
            /\ sram' = [sram EXCEPT ![loaded_rom] = outcome.file]
            /\ unnoticed' = (outcome.fault /\ outcome.ok)
            /\ Asks(outcome) => confirm_quit' = "asked"
      BY <1>6, <2>3 DEF Quit, OnStop
    <3>2. loaded_rom \in Games /\ sram[loaded_rom] \in Files /\ cpu \in Machines
      BY <2>3 DEF TypeOK
    <3>3. HasMemory /\ outcome.ok /\ ~outcome.fault => outcome.file = Whole(cpu)
      BY <3>2, MemorySaved
    <3>4. loaded_rom' = loaded_rom /\ cpu' = cpu /\ (HasMemory' <=> HasMemory)
          /\ Whole(cpu)' = Whole(cpu)
      BY <2>1 DEF deck, HasMemory, Whole
    <3>5. sram'[loaded_rom] = outcome.file
      BY <3>1, <3>2 DEF TypeOK
    <3>6. CASE outcome.ok
      <4>1. outcome.fault \in BOOLEAN
        BY <3>2, MemorySaved
      <4>2. HasMemory => sram'[loaded_rom] = Whole(cpu) \/ unnoticed'
        BY <3>1, <3>3, <3>5, <3>6, <4>1
      <4> QED
        BY <3>4, <4>2 DEF QuitSaves
    <3>7. CASE ~outcome.ok
      BY <3>1, <3>7 DEF Asks, QuitSaves
    <3> QED
      BY <3>6, <3>7
  <2> QED
    BY <2>2, <2>3
<1>7. CASE Confirm
  BY <1>7 DEF Confirm, QuitSaves
<1>8. CASE Cancel
  BY <1>1, <1>8 DEF Cancel
<1>9. CASE Crash \/ Restart
  BY <1>9 DEF Crash, Restart, Started, QuitSaves
<1>10. CASE UNCHANGED vars
  BY <1>10 DEF vars, deck, files, history, QuitSaves, HasMemory
<1> QED
  BY <1>2, <1>3, <1>4, <1>5, <1>6, <1>7, <1>8, <1>9, <1>10 DEF Next

(* An emulator that quits without asking has saved the game, or an error   *)
(* that save_data swallowed has lost it (nes.rs:418, nes/filesystem.rs:88).*)
THEOREM QuitSavesAlways == Spec => []QuitSaves
<1>1. Init => QuitSaves
  BY DEF Init, QuitSaves
<1> QED
  BY <1>1, QuitStep, TypeCorrect, PTL DEF Spec

-----------------------------------------------------------------------------
(* Rewinding. *)

(* Since the buffer was empty the machine came from its snapshots: they    *)
(* are of its game, no later than itself, and the newest first.            *)
Ordered ==
  straight =>
    /\ \A i \in 1..Len(rewind_buffer) :
         /\ rewind_buffer[i].game = cpu.game
         /\ rewind_buffer[i].progress <= cpu.progress
    /\ \A i, j \in 1..Len(rewind_buffer) :
         i <= j => rewind_buffer[j].progress <= rewind_buffer[i].progress

LEMMA ProgressType == \A machine \in Machines : machine.progress \in Int
BY SessionAssumption DEF Machines, Damaged

(* A snapshot that is given back is no later than the machine, and those   *)
(* behind it are no later than itself.                                     *)
LEMMA Back ==
  ASSUME NEW dropped \in Nat, PopAfter(dropped), Rewound, TypeOK, Ordered
  PROVE  /\ Ordered'
         /\ straight => cpu'.game = cpu.game /\ cpu'.progress <= cpu.progress
<1>1. Len(rewind_buffer) \in Nat /\ cpu \in Machines /\ rewind_buffer \in Seq(Machines)
      /\ straight \in BOOLEAN /\ cpu.progress \in Int
  BY ProgressType DEF TypeOK
<1>2. CASE dropped < Len(rewind_buffer)
  <2> DEFINE n == Len(rewind_buffer) - dropped - 1
             rest == SubSeq(rewind_buffer, dropped + 2, Len(rewind_buffer))
  <2>1. cpu' = rewind_buffer[dropped + 1] /\ rewind_buffer' = rest
    BY <1>2 DEF PopAfter
  <2>2. /\ rest \in Seq(Machines) /\ Len(rest) = n
        /\ \A i \in 1..n : rest[i] = rewind_buffer[dropped + 1 + i]
    BY <1>1, <1>2, PoppedAfter
  <2> HIDE DEF rest
  <2>3. straight => cpu'.game = cpu.game /\ cpu'.progress <= cpu.progress
    BY <1>1, <1>2, <2>1 DEF Ordered
  <2>4. CASE n = 0
    BY <2>1, <2>2, <2>3, <2>4 DEF Ordered
  <2>5. CASE n # 0
    <3>1. straight' = straight
      <4>1. rewind_buffer' # <<>>
        BY <2>1, <2>2, <2>5
      <4> QED
        BY <1>1, <4>1 DEF Rewound
    <3>2. CASE straight
      <4>1. \A i \in 1..n : dropped + 1 + i \in 1..Len(rewind_buffer) /\ dropped + 1 <= dropped + 1 + i
        BY <1>1, <1>2
      <4>2. dropped + 1 \in 1..Len(rewind_buffer)
        BY <1>1, <1>2
      <4>3. \A i \in 1..n : rest[i].game = cpu'.game /\ rest[i].progress <= cpu'.progress
        BY <2>1, <2>2, <3>2, <4>1, <4>2 DEF Ordered
      <4>4. \A i, j \in 1..n : i <= j => rest[j].progress <= rest[i].progress
        <5> SUFFICES ASSUME NEW i \in 1..n, NEW j \in 1..n, i <= j
                     PROVE  rest[j].progress <= rest[i].progress
          OBVIOUS
        <5>1. /\ dropped + 1 + i \in 1..Len(rewind_buffer) /\ dropped + 1 + j \in 1..Len(rewind_buffer)
              /\ dropped + 1 + i <= dropped + 1 + j
          BY <4>1
        <5>2. rewind_buffer[dropped + 1 + j].progress <= rewind_buffer[dropped + 1 + i].progress
          BY <3>2, <5>1 DEF Ordered
        <5> QED
          BY <2>2, <5>2
      <4> QED
        BY <2>1, <2>2, <2>3, <4>3, <4>4 DEF Ordered
    <3> QED
      BY <2>3, <3>1, <3>2 DEF Ordered
  <2> QED
    BY <1>1, <1>2, <2>4, <2>5
<1>3. CASE ~(dropped < Len(rewind_buffer))
  BY <1>1, <1>3 DEF PopAfter, Ordered
<1> QED
  BY <1>2, <1>3

(* Loading leaves the machine and what is known of the buffer as they are, *)
(* or forgets it unless the buffer is empty.                               *)
LEMMA Forgotten ==
  ASSUME Ordered, UNCHANGED rewind_buffer,
         \/ UNCHANGED <<cpu, straight>>
         \/ straight' = (rewind_buffer = <<>>)
  PROVE  Ordered'
<1>1. CASE UNCHANGED <<cpu, straight>>
  BY <1>1 DEF Ordered
<1>2. CASE straight' = (rewind_buffer = <<>>)
  <2>1. CASE rewind_buffer = <<>>
    <3>1. Len(rewind_buffer') = 0
      BY <2>1
    <3> QED
      BY <3>1 DEF Ordered
  <2>2. CASE rewind_buffer # <<>>
    BY <1>2, <2>2 DEF Ordered
  <2> QED
    BY <2>1, <2>2
<1> QED
  BY <1>1, <1>2

LEMMA OrderedStep == TypeOK /\ Ordered /\ [Next]_vars => Ordered'
<1> SUFFICES ASSUME TypeOK, Ordered, [Next]_vars PROVE Ordered'
  OBVIOUS
<1> USE DEF deck, history
<1>1. CASE TogglePause \/ OpenMenu \/ LoseFocus \/ GainFocus \/ Reset
  BY <1>1, Forgotten DEF TogglePause, OpenMenu, LoseFocus, GainFocus, Reset
<1>2. CASE Frame
  <2>1. PICK p \in {cpu.progress, cpu.progress + 1} :
          p <= MaxProgress /\ cpu' = IF cpu.game = None THEN cpu ELSE [cpu EXCEPT !.progress = p]
    BY <1>2 DEF Frame
  <2>2. cpu \in Machines /\ cpu.progress \in Int /\ p \in Int /\ cpu.progress <= p
        /\ rewind_buffer \in Seq(Machines) /\ Len(rewind_buffer) \in Nat
        /\ Len(rewind_buffer) <= BufferSize
    BY <2>1, ProgressType DEF TypeOK
  <2>3. cpu' \in Machines /\ cpu'.game = cpu.game /\ cpu'.progress \in Int /\ cpu.progress <= cpu'.progress
    <3>1. p \in (0..MaxProgress) \union {Damaged}
      BY <2>1, <2>2, SessionAssumption DEF Machines, Damaged
    <3> QED
      BY <2>1, <2>2, <3>1 DEF Machines
  <2>4. rewind_buffer' = Push(cpu') /\ straight' = straight
    BY <1>2 DEF Frame
  <2>5. /\ rewind_buffer' \in Seq(Machines) /\ Len(rewind_buffer') <= Len(rewind_buffer) + 1
        /\ \A i \in 1..Len(rewind_buffer') :
             rewind_buffer'[i] = IF i = 1 THEN cpu' ELSE rewind_buffer[i - 1]
    BY <2>2, <2>3, <2>4, Pushed
  <2>6. Len(rewind_buffer') \in Nat
    BY <2>5
  <2>7. CASE straight
    <3>1. \A i \in 1..Len(rewind_buffer') : i = 1 \/ i - 1 \in 1..Len(rewind_buffer)
      BY <2>2, <2>5, <2>6
    <3>2. \A i \in 1..Len(rewind_buffer) :
            /\ rewind_buffer[i].game = cpu.game /\ rewind_buffer[i].progress \in Int
            /\ rewind_buffer[i].progress <= cpu.progress
      BY <2>2, <2>7, ProgressType DEF Ordered
    <3>3. \A i, j \in 1..Len(rewind_buffer) :
            i <= j => rewind_buffer[j].progress <= rewind_buffer[i].progress
      BY <2>7 DEF Ordered
    <3>4. \A i \in 1..Len(rewind_buffer') :
            rewind_buffer'[i].game = cpu'.game /\ rewind_buffer'[i].progress <= cpu'.progress
      <4> SUFFICES ASSUME NEW i \in 1..Len(rewind_buffer')
                   PROVE  /\ rewind_buffer'[i].game = cpu'.game
                          /\ rewind_buffer'[i].progress <= cpu'.progress
        OBVIOUS
      <4>1. CASE i = 1
        BY <2>3, <2>5, <4>1
      <4>2. CASE i # 1
        <5>1. i - 1 \in 1..Len(rewind_buffer) /\ rewind_buffer'[i] = rewind_buffer[i - 1]
          BY <2>5, <3>1, <4>2
        <5>2. /\ rewind_buffer[i - 1].game = cpu.game /\ rewind_buffer[i - 1].progress \in Int
              /\ rewind_buffer[i - 1].progress <= cpu.progress
          BY <3>2, <5>1
        <5>3. rewind_buffer[i - 1].progress <= cpu'.progress
          <6> DEFINE a == rewind_buffer[i - 1].progress
                     c == cpu.progress
                     d == cpu'.progress
          <6>1. a \in Int /\ c \in Int /\ d \in Int /\ a <= c /\ c <= d
            BY <2>2, <2>3, <5>2
          <6> HIDE DEF a, c, d
          <6>2. a <= d
            BY <6>1
          <6> QED
            BY <6>2 DEF a, d
        <5> QED
          BY <2>3, <5>1, <5>2, <5>3
      <4> QED
        BY <4>1, <4>2
    <3>5. \A i, j \in 1..Len(rewind_buffer') :
            i <= j => rewind_buffer'[j].progress <= rewind_buffer'[i].progress
      <4> SUFFICES ASSUME NEW i \in 1..Len(rewind_buffer'), NEW j \in 1..Len(rewind_buffer'), i <= j
                   PROVE  rewind_buffer'[j].progress <= rewind_buffer'[i].progress
        OBVIOUS
      <4>1. CASE i = 1
        BY <2>5, <3>4, <4>1
      <4>2. CASE i # 1
        <5>1. i - 1 \in 1..Len(rewind_buffer) /\ j - 1 \in 1..Len(rewind_buffer) /\ i - 1 <= j - 1 /\ j # 1
          BY <2>6, <3>1, <4>2
        <5> QED
          BY <2>5, <3>3, <4>2, <5>1
      <4> QED
        BY <4>1, <4>2
    <3> QED
      BY <3>4, <3>5 DEF Ordered
  <2> QED
    BY <2>4, <2>7 DEF Ordered
<1>3. CASE HoldRewind \/ ReleaseRewind
  BY <1>3, Forgotten DEF HoldRewind, ReleaseRewind
<1>4. CASE Rewind
  BY <1>4, Back, 0 \in Nat DEF Rewind
<1>5. CASE InstantRewind
  BY <1>5, Back, SessionAssumption DEF InstantRewind
<1>6. ASSUME NEW slot \in SaveSlots, SaveState(slot) PROVE Ordered'
  BY <1>6, Forgotten DEF SaveState
<1>7. ASSUME NEW slot \in SaveSlots, LoadState(slot) PROVE Ordered'
  BY <1>7, Forgotten DEF LoadState
<1>8. ASSUME NEW game \in Games, LoadRom(game) PROVE Ordered'
  BY <1>8, Forgotten DEF LoadRom, Unopened, Unread, Begun
<1>9. CASE Quit \/ Confirm \/ Cancel
  BY <1>9, Forgotten DEF Quit, Confirm, Cancel, OnStop
<1>10. CASE Crash \/ Restart
  <2>1. rewind_buffer' = <<>>
    BY <1>10 DEF Crash, Restart, Started
  <2> QED
    BY <2>1 DEF Ordered
<1>11. CASE UNCHANGED vars
  BY <1>11, Forgotten DEF vars
<1> QED
  BY <1>1, <1>2, <1>3, <1>4, <1>5, <1>6, <1>7, <1>8, <1>9, <1>10, <1>11 DEF Next

(* Rewinding, held or at once, goes back in the same game as long as       *)
(* nothing was loaded over the buffer (nes/state.rs:193, 207).             *)
THEOREM RewindGoesBackAlways == Spec => RewindGoesBack
<1>1. Init => Ordered
  BY DEF Init, Ordered
<1>2. TypeOK /\ Ordered /\ [Next]_vars =>
        [(Rewind \/ InstantRewind) /\ straight
          => cpu'.game = cpu.game /\ cpu'.progress <= cpu.progress]_vars
  <2>1. ASSUME TypeOK, Ordered, Rewind, straight
        PROVE  cpu'.game = cpu.game /\ cpu'.progress <= cpu.progress
    BY <2>1, Back, 0 \in Nat DEF Rewind
  <2>2. ASSUME TypeOK, Ordered, InstantRewind, straight
        PROVE  cpu'.game = cpu.game /\ cpu'.progress <= cpu.progress
    BY <2>2, Back, SessionAssumption DEF InstantRewind
  <2> QED
    BY <2>1, <2>2
<1> QED
  BY <1>1, <1>2, OrderedStep, TypeCorrect, PTL DEF Spec, RewindGoesBack

-----------------------------------------------------------------------------
(* Whose files. *)

(* As long as no machine got a wrong name, that loaded is the machine's.   *)
Named ==
  ~mixed => IF loaded_rom = None THEN cpu.game = None ELSE cpu.game \in {None, loaded_rom}

OwnSram == ~mixed => \A g \in Games : sram[g].is = "whole" => sram[g].data.game = g

OwnSave ==
  ~mixed => \A g \in Games, slot \in SaveSlots :
              save[g][slot].is = "whole" => save[g][slot].data.game \in {None, g}

Own == Named /\ OwnSram /\ OwnSave

LEMMA OwnUnchanged ==
  ASSUME Own, UNCHANGED <<loaded_rom, cpu, sram, save, mixed>>
  PROVE  Own'
BY DEF Own, Named, OwnSram, OwnSave

(* The memory is written for a game with a battery, so not for none.       *)
LEMMA OwnQuit == TypeOK /\ Own /\ Quit => Own'
<1> SUFFICES ASSUME TypeOK, Own, Quit PROVE Own'
  OBVIOUS
<1>1. UNCHANGED <<loaded_rom, cpu, save, mixed>>
  BY DEF Quit, deck
<1>2. CASE UNCHANGED sram
  BY <1>1, <1>2, OwnUnchanged
<1>3. CASE ~(loaded_rom = None \/ confirm_quit # "none")
  <2>1. PICK outcome \in SaveSram : sram' = [sram EXCEPT ![loaded_rom] = outcome.file]
    BY <1>3 DEF Quit, OnStop
  <2>2. loaded_rom \in Games /\ sram \in [Games -> Files] /\ cpu \in Machines
    BY <1>3 DEF TypeOK
  <2>3. CASE HasMemory
    <3>1. cpu.game # None
      BY <2>3, SessionAssumption DEF HasMemory
    <3>2. ~mixed => cpu.game = loaded_rom
      BY <2>2, <3>1, SessionAssumption DEF Own, Named
    <3>3. Whole(cpu).data = cpu
      BY DEF Whole
    <3>4. outcome.file.is = "whole" =>
            outcome.file = sram[loaded_rom] \/ outcome.file = Whole(cpu)
      BY <2>2, MemorySaved
    <3>5. ~mixed => \A g \in Games : sram'[g].is = "whole" => sram'[g].data.game = g
      BY <2>1, <2>2, <3>2, <3>3, <3>4 DEF Own, OwnSram
    <3> QED
      BY <1>1, <3>5 DEF Own, Named, OwnSram, OwnSave
  <2>4. CASE ~HasMemory
    <3>1. outcome.file = sram[loaded_rom]
      BY <2>4 DEF SaveSram
    <3>2. sram' = sram
      BY <2>1, <2>2, <3>1
    <3> QED
      BY <1>1, <3>2, OwnUnchanged
  <2> QED
    BY <2>3, <2>4
<1> QED
  BY <1>2, <1>3 DEF Quit, OnStop

LEMMA OwnLoad == ASSUME NEW game \in Games, TypeOK, Own, LoadRom(game) PROVE Own'
<1>1. UNCHANGED <<sram, save>> /\ save[game][1] \in Files /\ cpu \in Machines
      /\ (Unopened(game) \/ Unread(game) \/ Begun(game))
      /\ sram \in [Games -> Files] /\ game # None
  BY SessionAssumption DEF LoadRom, files, TypeOK
<1>2. CASE Unopened(game)
  BY <1>1, <1>2, OwnUnchanged DEF Unopened, deck
<1>3. CASE Unread(game)
  BY <1>1, <1>3 DEF Unread, Own, Named, OwnSram, OwnSave
<1>4. CASE Begun(game)
  <2>1. PICK machine \in WithMemory(game) : cpu' = Loaded(save[game][1], machine)
    BY <1>4 DEF Begun
  <2>2. machine.game = game
    BY <1>1, <2>1, Memory
  <2>3. ~mixed => cpu'.game \in {None, game}
    BY <1>1, <2>1, <2>2, SessionAssumption DEF Loaded, Own, OwnSave
  <2> QED
    BY <1>1, <1>4, <2>3 DEF Begun, Own, Named, OwnSram, OwnSave
<1> QED
  BY <1>1, <1>2, <1>3, <1>4

LEMMA OwnSaved == ASSUME NEW slot \in SaveSlots, TypeOK, Own, SaveState(slot) PROVE Own'
<1>1. PICK outcome \in SaveData(save[loaded_rom][slot], cpu) :
        save' = [save EXCEPT ![loaded_rom][slot] = outcome.file]
  BY DEF SaveState
<1>2. loaded_rom \in Games /\ save \in [Games -> [SaveSlots -> Files]] /\ cpu \in Machines
  BY DEF SaveState, TypeOK
<1>3. UNCHANGED <<loaded_rom, cpu, sram, mixed>>
  BY DEF SaveState, deck, history
<1>4. outcome.file.is = "whole" =>
        outcome.file = save[loaded_rom][slot] \/ outcome.file = Whole(cpu)
  BY <1>2, Saving
<1>5. ~mixed => cpu.game \in {None, loaded_rom} /\ Whole(cpu).data = cpu
  BY <1>2, SessionAssumption DEF Own, Named, Whole
<1>6. ASSUME NEW g \in Games, NEW s \in SaveSlots, ~mixed, save'[g][s].is = "whole"
      PROVE  save'[g][s].data.game \in {None, g}
  <2>1. CASE g = loaded_rom /\ s = slot
    BY <1>1, <1>2, <1>4, <1>5, <1>6, <2>1 DEF Own, OwnSave
  <2>2. CASE ~(g = loaded_rom /\ s = slot)
    <3>1. save'[g][s] = save[g][s]
      BY <1>1, <1>2, <2>2
    <3> QED
      BY <1>6, <3>1 DEF Own, OwnSave
  <2> QED
    BY <2>1, <2>2
<1> QED
  BY <1>3, <1>6 DEF Own, Named, OwnSram, OwnSave

(* What a crash leaves of a file is not whole.                             *)
LEMMA OwnCrash == TypeOK /\ Own /\ Crash => Own'
<1> SUFFICES ASSUME TypeOK, Own, Crash PROVE Own'
  OBVIOUS
<1>1. loaded_rom' = None /\ cpu' = NoCart /\ NoCart.game = None /\ mixed' = mixed
  BY DEF Crash, Started, NoCart
<1>2. Broken.is # "whole" /\ Torn.is # "whole"
  BY DEF Broken, Torn
<1>3. sram \in [Games -> Files] /\ save \in [Games -> [SaveSlots -> Files]]
      /\ (loaded_rom # None => loaded_rom \in Games)
  BY DEF TypeOK
<1>4. CASE UNCHANGED files
  BY <1>1, <1>4 DEF files, Own, Named, OwnSram, OwnSave
<1>5. ASSUME loaded_rom # None, UNCHANGED save,
             NEW f \in {Broken, Torn}, sram' = [sram EXCEPT ![loaded_rom] = f]
      PROVE  Own'
  <2>1. \A g \in Games : sram'[g].is = "whole" => sram'[g] = sram[g]
    BY <1>2, <1>3, <1>5
  <2> QED
    BY <1>1, <1>5, <2>1 DEF Own, Named, OwnSram, OwnSave
<1>6. ASSUME loaded_rom # None, UNCHANGED sram,
             NEW slot \in SaveSlots, NEW f \in {Broken, Torn},
             save' = [save EXCEPT ![loaded_rom][slot] = f]
      PROVE  Own'
  <2>1. \A g \in Games, s \in SaveSlots : save'[g][s].is = "whole" => save'[g][s] = save[g][s]
    BY <1>2, <1>3, <1>6
  <2> QED
    BY <1>1, <1>6, <2>1 DEF Own, Named, OwnSram, OwnSave
<1> QED
  BY <1>4, <1>5, <1>6 DEF Crash

LEMMA OwnStep == TypeOK /\ Own /\ [Next]_vars => Own'
<1> SUFFICES ASSUME TypeOK, Own, [Next]_vars PROVE Own'
  OBVIOUS
<1> USE DEF deck, files, history
<1>1. CASE TogglePause \/ OpenMenu \/ LoseFocus \/ GainFocus \/ Reset
  BY <1>1, OwnUnchanged DEF TogglePause, OpenMenu, LoseFocus, GainFocus, Reset
<1>2. CASE Frame
  <2>1. cpu'.game = cpu.game /\ UNCHANGED <<loaded_rom, sram, save, mixed>>
    BY <1>2 DEF Frame, TypeOK, Machines
  <2> QED
    BY <2>1 DEF Own, Named, OwnSram, OwnSave
<1>3. CASE HoldRewind \/ ReleaseRewind
  BY <1>3, OwnUnchanged DEF HoldRewind, ReleaseRewind
<1>4. CASE Rewind \/ InstantRewind
  <2>1. Rewound /\ UNCHANGED <<loaded_rom, sram, save>>
    BY <1>4 DEF Rewind, InstantRewind
  <2>2. ~mixed' => ~mixed /\ cpu'.game = cpu.game
    BY <2>1 DEF Rewound
  <2> QED
    BY <2>1, <2>2 DEF Own, Named, OwnSram, OwnSave
<1>5. ASSUME NEW slot \in SaveSlots, LoadState(slot) PROVE Own'
  <2>1. /\ loaded_rom # None /\ loaded_rom \in Games
        /\ cpu' = Loaded(save[loaded_rom][slot], cpu)
        /\ UNCHANGED <<loaded_rom, sram, save, mixed>>
    BY <1>5 DEF LoadState, TypeOK
  <2>2. ~mixed => cpu'.game \in {None, loaded_rom}
    BY <2>1 DEF Loaded, Own, Named, OwnSave
  <2> QED
    BY <2>1, <2>2 DEF Own, Named, OwnSram, OwnSave
<1>6. CASE Confirm \/ Cancel
  BY <1>6, OwnUnchanged DEF Confirm, Cancel
<1>7. CASE Restart
  BY <1>7 DEF Restart, Started, NoCart, Own, Named, OwnSram, OwnSave
<1>8. CASE UNCHANGED vars
  BY <1>8, OwnUnchanged DEF vars
<1> QED
  BY <1>1, <1>2, <1>3, <1>4, <1>5, <1>6, <1>7, <1>8, OwnSaved, OwnLoad, OwnQuit, OwnCrash DEF Next

(* Whatever is saved, loaded, lost or torn, the files under a game's name  *)
(* hold that game, until a game fails to load over another, or rewinding   *)
(* crosses from one game into another (control_deck.rs:57).                *)
THEOREM OwnFilesAlways == Spec => []OwnFiles
<1>1. Init => Own
  <2> SUFFICES ASSUME Init PROVE Own
    OBVIOUS
  <2>1. Absent.is # "whole" /\ Foreign.is # "whole" /\ NoCart.game = None
    BY DEF Absent, Foreign, NoCart
  <2>2. \A g \in Games : sram[g] \in {Absent, Foreign}
    BY DEF Init
  <2>3. \A g \in Games, slot \in SaveSlots : save[g][slot] = Absent
    BY DEF Init
  <2> QED
    BY <2>1, <2>2, <2>3 DEF Init, Own, Named, OwnSram, OwnSave
<1>2. Own => OwnFiles
  BY DEF Own, OwnSram, OwnSave, OwnFiles
<1> QED
  BY <1>1, <1>2, OwnStep, TypeCorrect, PTL DEF Spec
=============================================================================
