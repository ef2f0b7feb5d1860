SPECIFICATION SubscriptionSpec
CONSTANTS
  u1 = u1
  u2 = u2
  w1 = w1
  Users <- TwoUsers
  Background <- OneUser
  Fallible <- OneUser
  Tiers = {1, 2}
  MaxTime = 3
  TrialDays = 1
  GraceDays = 1
  MaxDisturbances = 1
  SweepScheduled = TRUE
INVARIANTS
  HistoryExplainsRow
  OneTrial
  TemporaryAccessEnds
