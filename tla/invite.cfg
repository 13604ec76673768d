SPECIFICATION Spec
CONSTANTS
  Modes <- MCModes
  MaxResends = 2
 
PROPERTY AcknowledgedSurvives
CHECK_DEADLOCK FALSE
