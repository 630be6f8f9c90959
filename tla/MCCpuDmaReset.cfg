SPECIFICATION Spec
CONSTANTS
  FreqTimers = {0}
  SlowTimer = 0
  OutputBits = 4
  OutputTop = 0
  AddrBase = 0
  AddrWrap = 0
  AddrTop = 0
  AddrLoads = {0}
  LengthLoads = {2}
  OamLen = 4
  Pages = {p1}
  OamStarts = {3}
  Levels = {0}
  Samples = {0}
  Resets = TRUE
  MaxGlitches = 1
PROPERTY IsTransfer
