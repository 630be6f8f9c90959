SPECIFICATION Spec
CONSTANTS
  Carts = {}
  Values = {2, 13, 30}
  Cols = 2
  Slots = 2
  Lines = 2
  SprFetchStart = 4
  SprFetchEnd = 9
  Tunes = {}
  MaxFrames = 36
  Order <- MCOrder
  InputMaps = {{}}
  MaxReads = 7
  Games <- MCGames
  Colours = {9, 10}
  RomByte <- MCRomByte
  MaxAccesses = 7
INVARIANT FourUniqueScreens
