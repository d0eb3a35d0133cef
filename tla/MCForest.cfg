SPECIFICATION BFSpec
CONSTANTS
  Drvs = {1, 2, 3}
  Inputs <- ChainInputs
  Out <- OwnOut
  Unreadable = {3}
  RowBudget = 1
  Cap = 1
  Traffic <- MixedTraffic
  MaxReports = 1
  MaxUnread = 1
  None = None
INVARIANTS ViewsKeepWork FinalCountsTrue ObserverAgrees
