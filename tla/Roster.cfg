SPECIFICATION Spec
CONSTANTS
  u1 = u1
  u2 = u2
  u3 = u3
  i1 = i1
  i2 = i2
  c1 = c1
  c2 = c2
  None = None
  Users <- ThreeUsers
  Invitations <- OneInvitation
  Procs <- TwoProcs
  MaxCollaborators = 1
  MaxRows = 2
SYMMETRY Symmetry
CHECK_DEADLOCK FALSE
INVARIANTS
  RosterBounded
  AcceptedMeansJoined
PROPERTIES
  LateRemovalHarmless
