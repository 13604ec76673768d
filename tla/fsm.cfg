\* Any table of two entries.  The bound on calls stops it.
SPECIFICATION FairSpec
CONSTANTS
  Threads = {t1, t2}
  States = {"s1"}
  Initial = "s1"
  Actions = {"x"}
  Conds = {"always", "may"}
  MaxEntries = 2
  MaxActs = 3
  MaxDepth = 2
INVARIANTS OneHandlerAtATime SpecificStateFirst
PROPERTIES FinalIsReported EveryActReturns
CHECK_DEADLOCK FALSE
