SPECIFICATION RetrySpec
CONSTANTS hh = hh  gg = gg  kk = kk Chooser = hh Peers = {gg, kk} Frames = 2 MaxControls = 3 MaxFaults = 1
INVARIANT EveryControlPolled
CHECK_DEADLOCK FALSE
