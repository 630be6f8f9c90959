SPECIFICATION InstrSpec
CONSTANTS
  Size = 2
  Programs <- MCPrograms
INVARIANTS
  TakesItsTime
  IrqServedSoon
PROPERTIES
  MaskDelayed
  IsBusProgram
  Returns
