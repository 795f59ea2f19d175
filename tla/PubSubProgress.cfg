SPECIFICATION FairSpec
CONSTANTS
  m1 = m1
  m2 = m2
  p1 = p1
  p2 = p2
  Msgs = {m1, m2}
  Groups = {g1}
  Procs = {p1, p2}
  DefaultMaxDeliver = 2
  MsgMaxDeliver <- MCMsgMax
  Malformed = {m2}
  Backoff <- MCBackoff
  IdleTimeout = 2
  ReadCount = 2
  MaxLen = 0
  ApproxMaxLen = FALSE
  DLQEnabled = FALSE
  MaxStream = 5
  MaxFaults = 2
  Prompt = TRUE
INVARIANTS
  AtLeastOnce
PROPERTIES
  EventuallySettled
