SPECIFICATION Spec
CONSTANTS
  Callers = {u1, u2}
  Delays = {0, 2}
  HalfRange = 8
  MaxTimers = 2
  MaxNow = 2
  MaxStarts = 2
  MaxStops = 2
  StopMayRaceStart = TRUE
CHECK_DEADLOCK FALSE
SYMMETRY Symmetry
INVARIANTS
  TimerInv
  NoStrandedTimer
  NoStrandedObject
  SortedByTimeout
  StopQuiesces
  CrashOnlyByLateCancelOrStop
PROPERTIES ImplementsService
