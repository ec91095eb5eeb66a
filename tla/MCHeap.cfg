SPECIFICATION Spec
CONSTANTS
  HeapEnd = 8
  Sizes = {0, 1, 4}
  AtAddresses = {0, 3}
  SplitsInterior = FALSE
  SizeModulus = 64
INVARIANTS HeapIsSound DataIsSafe FailsOnlyWhenFull
