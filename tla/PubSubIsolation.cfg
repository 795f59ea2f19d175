SPECIFICATION Spec
CONSTANTS
  m1 = m1
  m2 = m2
  p1 = p1
  p2 = p2
  Msgs = {m1}
  Groups = {g1, g2}
  Procs = {p1}
  DefaultMaxDeliver = 2
  MsgMaxDeliver <- MCMsgMax
  Malformed = {}
  Backoff <- MCBackoff
  IdleTimeout = 2
  ReadCount = 1
  MaxLen = 0
  ApproxMaxLen = FALSE
  DLQEnabled = TRUE
  MaxStream = 3
  MaxFaults = 0
  Prompt = TRUE
PROPERTIES
  RetriesIsolated
