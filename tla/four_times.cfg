SPECIFICATION Spec
CONSTANTS
  t1 = t1
  t2 = t2
  t3 = t3
  Threads = {t1, t2, t3}
  N = 2
  R = 8
  LazyPush = FALSE
  LazyPop = FALSE
  Values <- MCValues
  Zero = 0
  Requests <- PushersRequests
  MaxCalls <- PushersCalls
  MaxLag = 100
  First = 0
  LiveThreads = {}
PROPERTIES
  Implements
