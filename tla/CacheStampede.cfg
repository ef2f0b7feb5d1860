SPECIFICATION FairSpec
CONSTANTS
    Callers = {c1, c2}
    LockTtl = 2
    EntryTtl = 2
    MaxVersion = 1
    MaxOutages = 1
    MaxCrashes = 1
    MaxThrows = 1
    Regimes = {TRUE, FALSE}
INVARIANTS
  LockExclusive
  SingleFlight
PROPERTIES
  EveryCallEnds
  EventuallyFresh
