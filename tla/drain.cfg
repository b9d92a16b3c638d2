SPECIFICATION HarnessSpec
CONSTANTS
  main = main
  p1 = p1
  p2 = p2
  c1 = c1
  c2 = c2
  Main = main
  Producers = {p1, p2}
  Consumers = {c1, c2}
  N = 2
  Items = 2
  Programs = {"pack"}
CHECK_DEADLOCK FALSE
INVARIANTS
  NothingLeftAnywhere
