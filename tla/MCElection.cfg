SPECIFICATION Spec
CONSTANTS
  Procs = {p1,p2,p3}
  N = 2
  BusyAttempts = 2
  MaxToken = 2
  MaxFaults = 2
  Env = {"crash","shutdown","rotate","foreign","wedge","io","lose","window"}
  Free = Free
  Foreign = Foreign
  Silent = Silent
  None = None
SYMMETRY Symmetry
INVARIANT BindIsLock
INVARIANT OneLeaderUnlessChurn
CHECK_DEADLOCK FALSE
