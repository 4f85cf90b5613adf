SPECIFICATION USpec
CONSTANTS
  exe = exe  core = core  dll = dll
  Files <- MCFiles  Manifest <- MCManifest  Self = dll  Exe = exe
  Tags <- MCTags  BuiltIn <- MCBuiltIn  OldNames <- MCOldNames
  MaxKills = 2  MaxFaults = 2
INVARIANT InstalledIsChecked
CHECK_DEADLOCK FALSE
