SPECIFICATION LiveSpec
CONSTANTS
  u1 = u1
  u2 = u2
  c1 = c1
  c2 = c2
  c3 = c3
  None = None
  Users <- OneUser
  Calls <- ThreeCalls
  Amounts = {2, 3}
  IntMax = 5
INVARIANTS
  LedgerExplainsBalance
  AcknowledgedOnce
PROPERTIES
  ImplementsAccount
