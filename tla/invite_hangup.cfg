SPECIFICATION FairSpec
CONSTANTS
  Modes <- MCPlain
  MaxResends = 2
PROPERTY HangupTerminates
CHECK_DEADLOCK FALSE
