SPECIFICATION PlaySpec
CONSTANTS
  host = host
  peer = peer
  Nothing = Nothing
  Players = {host, peer}
  Throughput = 2
  SerialMod = 10
  FirstSerial = 8
  BundleLimit = 5
  OutCacheSize = 4
  Inputs <- MCInputs
  MaxFrames = 4
  MaxInFlight = 3
  MaxLossRun = 2
  MaxLag = 5
  CanDrop = {host}
  MaxRequests = 3  MaxRooms = 1
  MaxConnects = 3
  QueueCap = 2  BatchCap = 1  MaxPushed = 4  MaxLines = 0  MaxSessions = 1  MaxAsked = 1  MaxRefused = 1
INVARIANTS LeadBounded LoopFollowsRequests StepKeepsConnection StreamIsExact
PROPERTY LockstepSpec
CHECK_DEADLOCK FALSE
