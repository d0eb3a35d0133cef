SPECIFICATION FairSpec
CONSTANTS
  Tuis = {t1, t2}
  Agent = Agent
  Watch = Watch
  Leaders = {t1}
  Solos = {t2}
  MaxHead = 2
  MaxInputs = 1
  MaxFaults = 1
INVARIANT NothingForgotten
INVARIANT ViewsAgree
INVARIANT CurrentExpectedUnlessMislabelled
PROPERTY Quiesces
CHECK_DEADLOCK FALSE
