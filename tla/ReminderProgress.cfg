SPECIFICATION FairSpec
CONSTANTS
  w1 = w1
  w2 = w2
  Ids = {k1}
  Workers = {w1, w2}
  Clients = {c1}
  TTL = 2
  RetryDelays <- MCDelays
  Minute = 2
  BatchSize = 2
  MaxRetryParams <- MCMaxRetryDefault
  MaxWait = 1
  MaxFaults = 1
  MaxCalls = 1
  Prompt = TRUE
INVARIANTS
  TypeOK
  RecoveryTakesOrphans
PROPERTIES
  ImplementsLifecycle
  LoopEnds
  EventuallySettled
