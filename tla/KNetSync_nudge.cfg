SPECIFICATION SyncFairSpec
CONSTANTS
  RetryInterval = 2
  Timeout = 5
  MaxMsgs = 3
  BundleSize = 3
  Resync = 10
  ICacheSize = 16
INVARIANT LostReadyIsRepeated
CHECK_DEADLOCK FALSE
