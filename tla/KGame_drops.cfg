SPECIFICATION FairSpec
CONSTANTS
  p1 = p1
  p2 = p2
  Nothing = Nothing
  Players = {p1, p2}
  Conset <- MCConset
  Throughput <- MCThroughput
  Inputs <- MCInputs
  HalfDelay = {p2}
  CacheLimit = 2
  MaxFrames = 4
  CanDrop = {p1, p2}
INVARIANT WaitsForSent
INVARIANT GvQueueFits
INVARIANT CachesAgree
PROPERTY LockstepSpec
CHECK_DEADLOCK FALSE
