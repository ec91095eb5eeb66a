SPECIFICATION FairSpec
CONSTANTS
  Size = 4
  ReleaseModes = {TRUE}
  CallbackReleases = "updated"
INVARIANTS AllocationIsSound IterationIsSound UpdatesExactlyTheDue
PROPERTIES PassEnds
