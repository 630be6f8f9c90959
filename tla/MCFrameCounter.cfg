SPECIFICATION FairSpec
CONSTANTS
  Regions = {"Ntsc", "Pal"}
  StepCycles <- ScaledCycles
  Channels = {"Noise"}
  Lengths = {2, 3}
INVARIANTS
  OnSchedule
  WholeSequence
PROPERTIES
  IrqComes
  NotesEnd
