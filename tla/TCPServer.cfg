SPECIFICATION FairSpec
CONSTANTS
  Starts = {s1, s2}
  Stops = {t1, t2}
  Conns = {c1, c2}
  MaxFaults = 1
CHECK_DEADLOCK FALSE
INVARIANTS
  NoSocketLeaks
  StopClosesConns
  TrackedServed
PROPERTIES
  ServerEnds
