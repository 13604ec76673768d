SPECIFICATION FairSpec
CONSTANTS
  a1 = a1
  a2 = a2
  s1 = s1
  s2 = s2
  Apps <- MCApps
  Sessions <- MCSessions
  Casts <- MCCasts
INVARIANTS EveryUserIsServed LastUserStops EventsAreDelivered 
 
CHECK_DEADLOCK FALSE
