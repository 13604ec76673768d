\* The network's faults, and users that cancel or refuse what is no INVITE.
\* Both transactions stop once destroyed.
SPECIFICATION FairSpec
CONSTANTS
  Methods = {"INVITE", "other"}
  InviteFaults = {}
  NonInviteFaults = {"cancel", "refuse"}
  T1 = 1
  T2 = 2
  Timeout64T1 = 2
  TimeoutD = 1
  TimeoutI = 1
  TimeoutF = 3
  TimeoutK = 2
  TimeoutJ = 3
  MaxCallerTu = 2
  MaxCalleeTu = 3
  MaxTu = 3
INVARIANTS ConfirmedWasHeard
PROPERTIES ImplementsCall  AnswerSettles
CHECK_DEADLOCK FALSE
