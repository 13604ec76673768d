SPECIFICATION FairSpec
CONSTANTS
  Callers = {u1}
  Delays = {1}
  HalfRange = 8
  MaxTimers = 1
  MaxNow = 1
  MaxStarts = 1
  MaxStops = 1
  StopMayRaceStart = TRUE
CHECK_DEADLOCK FALSE
PROPERTIES
  StopReturns
