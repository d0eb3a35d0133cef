SPECIFICATION Spec
CONSTANTS
  Runs = {r1, r2}
  Deploys = {r1}
  Tasks = {k1, k2}
  NoRun = NoRun
  NoTask = NoTask
SYMMETRY Symmetry
INVARIANT SlotMatchesJobs
INVARIANT RefreshOwed
CHECK_DEADLOCK FALSE
