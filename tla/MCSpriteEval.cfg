SPECIFICATION Spec
CONSTANTS
  Sprites = 3
  Slots = 1
  Bytes = 2
  EvalDots = 12
  MaxAccesses = 1
INVARIANTS
  FirstSpritesShown
  SpriteZero
  OverflowAsHardware
