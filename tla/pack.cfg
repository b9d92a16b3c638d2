SPECIFICATION KFairSpec
CONSTANTS
  p1 = p1
  p2 = p2
  c1 = c1
  c2 = c2
  Producers = {p1, p2}
  Consumers = {c1, c2}
  LiveConsumers = {c1}
  G = 2
  K = 2
  N = 2
  Items = 4
INVARIANTS
  InOrder
  Rotates
PROPERTIES
  EmptySeen
  Delivered
