SPECIFICATION LobbySpec
CONSTANTS
  u1 = u1  u2 = u2  Users = {u1, u2}
  Games <- MCGames  Ids = {0, 1}  Patient = TRUE  MaxActs = 7  MaxSkips = 1
  host = host  ana = ana  bia = bia
  Nicks <- MCNicks  Host = host  Logins <- MCLogins  Saved <- MCSaved
  Present <- MCPresent
  Wishes = {"online", "iso"}  MaxEvents = 2
  hh = hh  gg = gg  kk = kk  Chooser = hh  Peers = {gg, kk}
  Frames = 2  MaxControls = 3  MaxFaults = 1
INVARIANTS WindowFollowsServer PlaysWithTheRoom LoginNoticed OnlyKickedAreTold
INVARIANTS QuietRoomAgrees CardsNeedAccount ChecksEnd
INVARIANT LiveFromOneState
PROPERTY NobodyReplaysAlone
SYMMETRY Alike
CHECK_DEADLOCK FALSE
