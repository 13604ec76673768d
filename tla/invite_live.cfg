SPECIFICATION FairSpec
CONSTANTS
  Modes <- MCLiveModes
  MaxResends = 2
PROPERTIES HangupEnds SessionExpires HoldEnds
CHECK_DEADLOCK FALSE
