SPECIFICATION FairSpec
CONSTANTS
    Processes = {p1, p2}
    Requests = {r1, r2, r3}
    Ttl = 2
    MaxChanges = 2
    MaxFailures = 1
PROPERTIES
  EventuallyCurrent
