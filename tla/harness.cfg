SPECIFICATION HarnessFairSpec
CONSTANTS
  main = main
  p1 = p1
  p2 = p2
  c1 = c1
  c2 = c2
  Main = main
  Producers = {p1, p2}
  Consumers = {c1, c2}
  N = 2
  Items = 3
  Programs <- AllPrograms
CHECK_DEADLOCK FALSE
INVARIANTS
  Drained
  NothingLeft
  HashesAgree
  Together
PROPERTIES
  Terminates
