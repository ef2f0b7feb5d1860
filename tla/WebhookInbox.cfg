SPECIFICATION LiveSpec
CONSTANTS
  e1 = e1
  e2 = e2
  r1 = r1
  r2 = r2
  r3 = r3
  w1 = w1
  w2 = w2
  None = None
  Events <- OneEvent
  Named <- NoEvent
  Requests <- ThreeRequests
  Workers <- TwoWorkers
  Environments <- AllEnvironments
  Attempts = 3
INVARIANTS
  AppliedAtMostOnce
  AckedIsRecorded
  ProcessedIsComplete
PROPERTIES
  AckedIsProcessed
  ImplementsEffects
