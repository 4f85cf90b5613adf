SPECIFICATION RecordsSpec
CONSTANTS
  HalfRange = 12  ResyncGap = 5  CacheSize = 5  Redundancy = 3  ResendCount = 4  FitCounts = {4}
  First = 21  MaxMsgs = 27  MaxAhead = 4  MaxLag = 4  MaxInFlight = 4  MaxLossRun = 2
  PatientTimer = TRUE
  NumLens = {1, 4}  StrLens = {0, 3, 250}  StrCaps = {2, 251}  MaxFields = 3
  Players = {1, 2}  Recorder = 1  InputLens = {8, 10}  MarkerBytes = 30  NickBytes = 4  TextBytes = 6
  MaxFrames = 2  MaxLines = 2  MaxSeeks = 1  MaxCut = 15
  own = own  gst = gst  PCs = {own, gst}  Owner = own  KnownMax = 2  MaxMatches = 2
  MaxSaves = 2  MaxIsoSaves = 1  MaxCardFaults = 1
  v1 = v1  v2 = v2  Windows = {v1, v2}  Accounts = {1}  VoiceRetries = 1
  MaxTokens = 2  MaxRequests = 3  MaxVoiceGames = 1  MaxSiteActs = 1
INVARIANTS FieldsArrive PlaybackFaithful SavesReachWECamp
PROPERTIES NoMessageSkipped LoginEndsForAReason
CHECK_DEADLOCK FALSE
