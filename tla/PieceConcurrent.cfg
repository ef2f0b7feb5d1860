SPECIFICATION LiveSpec
CONSTANTS
  p1 = p1
  p2 = p2
  c1 = c1
  w1 = w1
  None = None
  Pieces <- OnePiece
  Clients <- OneClient
  Workers <- OneWorker
  Fallible <- OneClient
  MaxTime = 2
  SweepLimit = 2
  Attempts = 2
  PoolSizes = {2, 3}
  CountCap = 1
INVARIANTS
  ChecksNeverFire
PROPERTIES
  EveryCallEnds
  NeverStuckScheduled
