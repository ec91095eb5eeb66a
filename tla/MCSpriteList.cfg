SPECIFICATION Spec
CONSTANTS
  MaxSprite = 3
  MinDepth = 0
  MaxDepth = 2
  SatMax = 1
  MaxNumSprite = 2
  CallbackCalls = 2
  CallbackSorts = FALSE
INVARIANTS ListStaysSorted  PassIsSound
PROPERTIES UpdateReturns
