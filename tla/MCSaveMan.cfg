SPECIFICATION Spec
CONSTANTS
  SectorLen = 18
  NumSlots = 2
  Values = {"a", "b"}
  BlankFirst = {"b"}
  Lens = {6}
  CutsInCross = FALSE
  InitAfterClear = TRUE
  EraseErrSectors = {}
INVARIANTS LoadsStored LogIsSound
PROPERTIES ImplementsSlotStore
