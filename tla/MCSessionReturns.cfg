SPECIFICATION FairSpec
CONSTANTS
  Calls = {read}
  Mutations = {}
  Sub = Sub
  Subscribes = TRUE
  MaxEpoch = 2
  MaxFaults = 2
  Nobody = Nobody
PROPERTY CallReturns
PROPERTY StreamResumes
CHECK_DEADLOCK FALSE
