SPECIFICATION Spec
CONSTANTS
  SectorLen = 18
  NumSlots = 2
  Values = {"a", "b"}
  BlankFirst = {"b"}
  Lens = {4}
  CutsInCross = FALSE
  InitAfterClear = TRUE
  EraseErrSectors = {}
INVARIANTS NeverHangs
