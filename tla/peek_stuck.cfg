SPECIFICATION FairSpec
CONSTANTS
  t1 = t1
  t2 = t2
  t3 = t3
  Threads = {t1}
  N = 2
  R = 16
  LazyPush = FALSE
  LazyPop = TRUE
  Values <- MCValues
  Zero = 0
  Requests <- AloneRequests
  MaxCalls <- AloneCalls
  MaxLag = 6
  First = 6
  LiveThreads = {t1}
PROPERTIES
  Completes
