SPECIFICATION Spec
CONSTANTS
  Hosts = {"h1","h2"}
  Plans <- SmallPlans
  Throttle = 1
  MaxIo = 1
  MaxLines = 1
  MaxSize = 2
  LogMax = 5
  Reserve = 3
  Notice = 1
  None = None
INVARIANT FinishedIsTrue
INVARIANT StreamMatchesResult
INVARIANT ExitIsDurable
PROPERTY FanOutEnds
CHECK_DEADLOCK FALSE
