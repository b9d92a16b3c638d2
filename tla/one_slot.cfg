SPECIFICATION FairSpec
CONSTANTS
  t1 = t1
  t2 = t2
  t3 = t3
  Threads = {t1, t2, t3}
  N = 1
  R = 16
  LazyPush = TRUE
  LazyPop = TRUE
  Values <- MCValues
  Zero = 0
  Requests <- MixRequests
  MaxCalls <- MixCalls
  MaxLag = 7
  First = 15
  LiveThreads = {t1, t3}
INVARIANTS
  Window
  IndexLag
  Registers
PROPERTIES
  Implements
  Completes
