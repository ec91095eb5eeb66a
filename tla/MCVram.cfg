SPECIFICATION Spec
CONSTANTS
  StartIndex = 1
  Size = 6
  Sizes = {1, 2, 3}
  Garbage = {0, 32769}
INVARIANTS RegionIsSound
PROPERTIES ImplementsArena
