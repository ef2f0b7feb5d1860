SPECIFICATION Spec
CONSTANTS
  f1 = f1
  f2 = f2
  t1 = t1
  t2 = t2
  t3 = t3
  r1 = r1
  r2 = r2
  r3 = r3
  c1 = c1
  c2 = c2
  None = None
  Families <- TwoFamilies
  Tokens <- ThreeTokens
  ResetTokens <- ThreeResets
  Procs <- TwoProcs
  MaxPasswords = 1
  MaxRequests = 5
SYMMETRY Symmetry
CHECK_DEADLOCK FALSE
INVARIANTS
  SessionsReachable
  ChangeEndsSessions
  LiveTokensAccounted
  ResetTokensBounded
