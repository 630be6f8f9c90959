SPECIFICATION Spec
CONSTANTS
  Games = {g1, g2}
  BatteryGames = {g1}
  None = None
  SaveSlots = {1}
  BufferSize = 2
  InstantFrames = 1
  MaxProgress = 1
  MaxFaults = 1
INVARIANTS
  QuitSaves
  OwnFiles
PROPERTIES
  RewindGoesBack
