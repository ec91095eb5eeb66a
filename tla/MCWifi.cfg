SPECIFICATION FairSpec
CONSTANTS
  MaxCalls = 3
  DataLens = {3}
  MaxData = 1
  RecvLens = {2}
  SendLens = {2}
  BufLen = 1
  CmdLen = 2
  MaxFaults = 1
  MaxTimeouts = 1
INVARIANTS FramesAreWhole AnswerIsOwn DeliveryIsRight TakesNextFrame
PROPERTIES CommandReturns
CHECK_DEADLOCK FALSE
