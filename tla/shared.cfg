SPECIFICATION SFairSpec
CONSTANTS
  p1 = p1
  p2 = p2
  p3 = p3
  Procs = {p1, p2, p3}
  Roles <- Workers
  N = 2
  Data <- MCData
  MaxStarts = 4
  Overlap = FALSE
INVARIANTS
  NothingLost
  CountsAgree
PROPERTIES
  ConsumersEnd
