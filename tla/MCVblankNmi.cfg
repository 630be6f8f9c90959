SPECIFICATION FairSpec
CONSTANTS
  LastDot = 5
  VblankLine = 2
  PrerenderLine = 4
  Divider = 4
  StartClocks = 6
  EndClocks = 6
  SkipsDot = TRUE
  MaxInstr = 4
  Resets = TRUE
INVARIANTS
  NmiLine
  MissedVblank
  NmiOncePerCause
PROPERTY NmiTaken
