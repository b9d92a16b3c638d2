SPECIFICATION Spec
CONSTANTS
  t1 = t1
  t2 = t2
  t3 = t3
  Threads = {t1, t2, t3}
  N = 2
  R = 8
  LazyPush = FALSE
  LazyPop = TRUE
  Values <- MCValues
  Zero = 0
  Requests <- KeepRequests
  MaxCalls <- KeepCalls
  MaxLag = 2
  First = 6
  LiveThreads = {}
INVARIANTS
  Window
  KeepsLastN
PROPERTIES
  Implements
