SPECIFICATION Spec
CONSTANTS
  Calls = {read, deploy}
  Mutations = {deploy}
  Sub = Sub
  Subscribes = FALSE
  MaxEpoch = 2
  MaxFaults = 3
  Nobody = Nobody
INVARIANT NoStrandedWaiter
INVARIANT OneRacePerLoss
PROPERTY CallPromise
PROPERTY PromotedNeverFollows
PROPERTY DrainIsExact
CHECK_DEADLOCK FALSE
