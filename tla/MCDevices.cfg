SPECIFICATION Spec
CONSTANTS
  Carts <- MCCarts
  Values = {2, 13, 30}
  Cols = 2
  Slots = 2
  Lines = 2
  SprFetchStart = 4
  SprFetchEnd = 9
  Tunes <- MCTunes
  MaxFrames = 36
  Order <- MCOrder
  InputMaps <- MCInputMaps
  MaxReads = 7
  Games <- MCGames
  Colours = {9, 10}
  RomByte <- MCRomByte
  MaxAccesses = 7
INVARIANTS
  PagesExist
  ResetVectorThere
  SerialWriteArrives
  IrqAfterLatchLines
  ScanlineKept
  TilesOfTheirBanks
  ReadsInOrder
  
  LevelOfNote
  
  
CHECK_DEADLOCK FALSE
