SPECIFICATION VrcFairSpec
CONSTANTS
  Period = 11
  Step = 3
  CounterMax = 3
  PrescalerHalf = 32
  Reloads = {0, 2, 3}
PROPERTIES
  Punctual
  IrqComes
