SPECIFICATION SubscriptionLiveSpec
CONSTANTS
  u1 = u1
  u2 = u2
  w1 = w1
  Users <- OneUser
  Background <- OneUser
  Fallible <- Nobody
  Tiers = {1, 2}
  MaxTime = 3
  TrialDays = 1
  GraceDays = 1
  MaxDisturbances = 2
  SweepScheduled = TRUE
PROPERTIES CancelTakesEffect
