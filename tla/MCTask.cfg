SPECIFICATION TaskFairSpec
CONSTANTS
  Waits = {1, 2, 3}
  LockModulus = 8
  ImmediatePosts = {TRUE, FALSE}
  StopCallers = {"super", "user", "callback"}
  MaxNesting = 2
INVARIANTS PendsEndRight MaskingNests
PROPERTIES StoppedNeverRuns SuperResumes
