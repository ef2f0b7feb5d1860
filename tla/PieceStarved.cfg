SPECIFICATION LiveSpec
CONSTANTS
  p1 = p1
  p2 = p2
  c1 = c1
  w1 = w1
  None = None
  Pieces <- TwoPieces
  Clients <- OneClient
  Workers <- OneClient
  Fallible <- Nobody
  MaxTime = 2
  SweepLimit = 1
  Attempts = 1
  PoolSizes = {3}
  CountCap = 0
PROPERTIES NeverStuckScheduled
