SPECIFICATION FairSpec
CONSTANTS
  Rate = 1
  Burst = 0
  Second = 2
  MaxClock = 3
  Requests = {r1, r2, r3, r4}
  Limited = {r1, r2, r3}
  Guarded = {r1}
  Scrapes = {r4}
CHECK_DEADLOCK FALSE
INVARIANTS
  ResourcesOutliveRequests
  WindowBound
  RetryAfterHonest
PROPERTIES
  ServerDrains
