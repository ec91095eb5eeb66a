SPECIFICATION EngineSpec
CONSTANTS
  MaxSprite = 2
  StartIndex = 1
  Size = 3
  Definitions = {257, 513, 514}
  HwLimit = 4
  Manual = {50}
INVARIANTS ResourcesBalance TilesHaveOneOwner SafeAddFits WrongPictureIsResent
