SPECIFICATION FairSpec
CONSTANTS
  Callers = {u1}
  Delays = {1, 3}
  HalfRange = 8
  MaxTimers = 2
  MaxNow = 4
  MaxStarts = 1
  MaxStops = 1
  StopMayRaceStart = FALSE
CHECK_DEADLOCK FALSE
PROPERTIES
  EveryTimerHandled
  StopReturns
