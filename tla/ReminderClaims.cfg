SPECIFICATION Spec
CONSTANTS
  w1 = w1
  w2 = w2
  Ids = {k1, k2}
  Workers = {w1, w2}
  Clients = {c1}
  TTL = 2
  RetryDelays <- MCDelays
  Minute = 2
  BatchSize = 2
  MaxRetryParams <- MCMaxRetryTwo
  MaxWait = 0
  MaxFaults = 1
  MaxCalls = 1
  Prompt = FALSE
SYMMETRY MCSymmetry
INVARIANTS
  RetryBudget
  ClaimExclusive
  NotificationsAccounted
  StopQuiesces
