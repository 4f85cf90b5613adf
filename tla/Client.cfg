SPECIFICATION ClientSpec
CONSTANTS
  exe = exe  core = core  dll = dll
  Files <- MCFiles  Manifest <- MCManifest  Self = dll  Exe = exe
  Tags <- MCTags  BuiltIn <- MCBuiltIn  OldNames <- MCOldNames
  MaxKills = 2  MaxFaults = 3
  File <- MCFile  HeaderUnits = 1  Retain = 4  Snapshots = 2  FrameGap = 1  Margin = 3  MaxMoves = 2
  Wishes = {"online", "iso"}  Settings <- MCSettings  PingTimes = 2  Adjustments = 2  MaxActs = 5
INVARIANT AllOrNothing
INVARIANT FrameExact
INVARIANTS NobodyLeftBehind SameCards
PROPERTY NoDowngrade
CHECK_DEADLOCK FALSE
