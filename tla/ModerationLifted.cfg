SPECIFICATION Spec
CONSTANTS
  r1 = r1
  r2 = r2
  u1 = u1
  u2 = u2
  c1 = c1
  c2 = c2
  None = None
  MaxRequests = 6
  Reports <- TwoReports
  Reporters <- TwoReporters
  Procs <- TwoProcs
  Resolutions = {"user_suspended"}
SYMMETRY Symmetry
CHECK_DEADLOCK FALSE
INVARIANTS OtherVerdictsStand
