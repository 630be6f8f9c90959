SPECIFICATION FairSpec
CONSTANTS
  FreqTimers = {0}
  SlowTimer = 0
  OutputBits = 5
  OutputTop = 0
  AddrBase = 0
  AddrWrap = 0
  AddrTop = 0
  AddrLoads = {0}
  LengthLoads = {1, 2}
  OamLen = 4
  Pages = {p1, p2}
  OamStarts = {3}
  Levels = {0}
  Samples = {0}
  Resets = FALSE
  MaxGlitches = 0
INVARIANTS
  OamCopyInOrder
  PortReadOnceMore
  CopyTime
PROPERTIES
  NoOverrun
  DmaEnds
  RequestServed
