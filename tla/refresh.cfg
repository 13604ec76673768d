SPECIFICATION RefreshSpec
CONSTANTS
  DialogKinds = {"REGISTER", "SUBSCRIBE", "PUBLISH"}
  Requested = 5
  Lifetimes = {0, 2, 4, 5}
  LongLife = 4
  Margin = 2
  TransactionTime = 1
  MaxTime = 6
INVARIANTS OneRequestAtATime NothingLeftBehind 
CHECK_DEADLOCK FALSE
