SPECIFICATION Spec
CONSTANTS
  p1 = p1
  p2 = p2
  c1 = c1
  w1 = w1
  None = None
  Pieces <- TwoPieces
  Clients <- OneClient
  Workers <- OneClient
  Fallible <- Nobody
  MaxTime = 3
  SweepLimit = 2
  Attempts = 2
  PoolSizes = {2}
  CountCap = 2
INVARIANTS
  CountExact
  AnnouncedOnce
PROPERTIES
  PublicationIsPermanent
  NeverEarly
