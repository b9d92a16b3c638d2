SPECIFICATION Spec
CONSTANTS
  t1 = t1
  t2 = t2
  t3 = t3
  Threads = {t1, t2, t3}
  N = 2
  R = 16
  LazyPush = FALSE
  LazyPop = FALSE
  Values <- MCValues
  Zero = 0
  Requests <- EveryRequests
  MaxCalls <- EveryCalls
  MaxLag = 6
  First = 14
  LiveThreads = {}
INVARIANTS
  TypeOK
  Window
  IndexLag
  Registers
PROPERTIES
  Implements
