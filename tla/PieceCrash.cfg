SPECIFICATION Spec
CONSTANTS
  p1 = p1
  p2 = p2
  c1 = c1
  w1 = w1
  None = None
  Pieces <- OnePiece
  Clients <- OneClient
  Workers <- OneClient
  Fallible <- OneClient
  MaxTime = 2
  SweepLimit = 2
  Attempts = 2
  PoolSizes = {3}
  CountCap = 1
INVARIANTS CountExact
