SPECIFICATION FairSpec
CONSTANTS
  p1 = p1
  p2 = p2
  Nothing = Nothing
  Players = {p1, p2}
  Conset <- MCConset
  Throughput <- MCEqualThroughput
  Inputs <- MCOneInput
  HalfDelay = {p2}
  CacheLimit = 2
  MaxFrames = 3
  CanDrop = {p1, p2}
PROPERTY CallsReturn
CHECK_DEADLOCK FALSE
