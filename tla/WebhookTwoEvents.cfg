SPECIFICATION Spec
CONSTANTS
  e1 = e1
  e2 = e2
  r1 = r1
  r2 = r2
  r3 = r3
  w1 = w1
  w2 = w2
  None = None
  Events <- TwoEvents
  Named <- OneEvent
  Requests <- TwoRequests
  Workers <- TwoWorkers
  Environments <- AllEnvironments
  Attempts = 2
INVARIANTS TypeOK AppliedAtMostOnce DoneIsProcessed AckedIsRecorded ProcessedIsComplete
PROPERTIES ImplementsEffects
