SPECIFICATION Spec
CONSTANTS
  NumAnimation = 2
  numFrame <- MCnumFrame
  loopFrame <- MCloopFrame
  frameTimer <- MCframeTimer
  MaxCalls = 3
INVARIANTS DisplayIsRight VisibilityIsRight
PROPERTIES AnimationAdvances
