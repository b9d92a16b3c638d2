SPECIFICATION PSpec
CONSTANTS
  t1 = t1
  t2 = t2
  Threads = {t1, t2}
  Closer = t2
  N = 2
  R = 16
  LazyPush = FALSE
  LazyPop = TRUE
  Values <- MCValues
  Zero = 0
  Requests <- PairRequests
  MaxCalls <- PairCalls
  MaxLag = 6
  First = 14
  LiveThreads = {}
INVARIANTS
  OneOwner
  AllDestroyed
PROPERTIES
  WaitFree
  SizeNear
