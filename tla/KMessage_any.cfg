SPECIFICATION FairSpec
CONSTANTS
  HalfRange = 10
  ResyncGap = 4
  CacheSize = 5
  Redundancy = 2
  ResendCount = 3
  FitCounts = {0, 1, 2}
  First = 17
  MaxMsgs = 25
  MaxAhead = 8
  MaxLag = 4
  MaxInFlight = 3
  MaxLossRun = 99
  PatientTimer = FALSE
INVARIANT TypeOK
INVARIANT ContiguousRun
INVARIANT WindowIsNext
PROPERTY ChannelSpec
CHECK_DEADLOCK FALSE
PROPERTY QueueDrains
