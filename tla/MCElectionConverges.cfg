SPECIFICATION FairSpec
CONSTANTS
  Procs = {p1,p2}
  N = 2
  BusyAttempts = 2
  MaxToken = 3
  MaxFaults = 3
  Env = {"crash", "rotate", "foreign"}
  Free = Free
  Foreign = Foreign
  Silent = Silent
  None = None
INVARIANT DiscoveryNamesLeader
PROPERTY AcquireReturns
CHECK_DEADLOCK FALSE
