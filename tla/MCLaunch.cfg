SPECIFICATION FairSpec
CONSTANTS
  MaxKills = 2
  MaxReads = 2
INVARIANT PruneSparesLaunch
INVARIANT PruneSparesRun
INVARIANT SettledVerdict
PROPERTY DiscoveryEnds
CHECK_DEADLOCK FALSE
