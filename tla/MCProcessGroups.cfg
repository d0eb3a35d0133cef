SPECIFICATION PGSpec
CONSTANTS
  Tasks = {t1,t2}
  Pids = {1,2}
  MaxSignals = 2
  MaxRounds = 2
  NoPid = NoPid
INVARIANT NoStraySignal
INVARIANT NoSurvivorUnlessRecycled
PROPERTY NoEffectAfterStop
PROPERTY SignalEndsEngine
CHECK_DEADLOCK FALSE
