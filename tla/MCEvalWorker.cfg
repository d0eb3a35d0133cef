SPECIFICATION FairSpec
CONSTANTS
  Warm = {w1}
  Cold = {k1}
  Pids = {1}
  NoPid = NoPid
  Members = {"a", "b", "c"}
  Requests <- MCRequests
  MaxHead = 2
  Fleet <- MCFleet
  Sick = {2}
  MaxCalls = 2
  MaxFaults = 2
INVARIANT AnswersTrue
INVARIANT NoStrangerKilled
PROPERTY QuitEnds
CHECK_DEADLOCK FALSE
