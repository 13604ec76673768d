SPECIFICATION FairSpec
CONSTANTS
  d1 = d1
  d2 = d2
  Dialogs <- MCDialogs
  MaxTransacs = 2
  Casts <- MCCasts
INVARIANTS DeadlocksAreInversions  
CHECK_DEADLOCK FALSE
PROPERTY ShutdownReturns
