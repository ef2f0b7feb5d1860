SPECIFICATION Spec
CONSTANTS
  u1 = u1
  u2 = u2
  c1 = c1
  c2 = c2
  None = None
  Users <- TwoUsers
  Procs <- TwoProcs
  Reactions <- SomeReactions
  Follows = {}
  MaxClaps = 3
  Adds = {1, 2}
INVARIANTS TypeOK DriftConfined DriftNeedsRace
