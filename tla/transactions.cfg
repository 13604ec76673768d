\* Every fault, fair scheduling.  A transaction stops once destroyed.
SPECIFICATION FairSpec
CONSTANTS
  Faults = {"send", "refuse", "cancel", "error", "transport_error"}
  T1 = 1
  T2 = 2
  Timeout64T1 = 3
  TimeoutD = 3
  TimeoutI = 2
  TimeoutJ = 3
  TimeoutK = 2
  MaxTu <- MCMaxTu
INVARIANTS NeverStuck OneOutcome NoSilentEnd QuietAfterAnswer AckStopsTimerX
PROPERTIES EventuallyDestroyed
CHECK_DEADLOCK FALSE
