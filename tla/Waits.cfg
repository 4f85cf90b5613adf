SPECIFICATION WaitSpec
CONSTANTS
  host = host  peer = peer  Nothing = Nothing  Players = {host, peer}
  Throughput = 1  SerialMod = 10  FirstSerial = 8  BundleLimit = 5  OutCacheSize = 4
  Inputs <- MCOneInput
  MaxFrames = 3  MaxInFlight = 3  MaxLossRun = 1  MaxLag = 5  CanDrop = {host, peer}
  RetryInterval = 2  Timeout = 5  MaxMsgs = 4  BundleSize = 2  Resync = 4  ICacheSize = 3
  ana = ana  Joiners = {ana}  JoinTime = 4  JoinAgain = 2  RegTries = 2  RegAgain = 2  KeepAgain = 1
  PunchTime = 2  Replies = 2  Enlist = {TRUE}  Prompt = TRUE  MaxCodes = 2  MaxOpens = 2
INVARIANTS Backlog ReadyIsRead NoStaleAddress
PROPERTIES WaitEnds NobodyWaitsForever SearchEnds
CHECK_DEADLOCK FALSE
