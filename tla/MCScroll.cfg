SPECIFICATION Spec
CONSTANTS
  Cols = 2
  Rows = 4
  FineRows = 8
  TileWidth = 4
  Height = 2
  Mirrorings = {"Vertical", "Horizontal"}
  Corners <- CornerCases
  Tables = {1}
  XScrolls = {5}
  YScrolls <- RowCases
  HiBytes = {9}
  LoBytes = {1}
  MaxAccesses = 2
INVARIANT PictureInPlace
