SPECIFICATION LiveSpec
CONSTANTS
  u1 = u1
  u2 = u2
  c1 = c1
  c2 = c2
  None = None
  Users <- TwoUsers
  Procs <- TwoProcs
  Reactions <- OneOfEach
  Follows <- Mutual
  MaxClaps = 3
  Adds = {2}
INVARIANTS
  DriftConfined
  DriftNeedsRace
PROPERTIES
  EveryCallEnds
