SPECIFICATION Spec
CONSTANTS
  m1 = m1
  m2 = m2
  p1 = p1
  p2 = p2
  Msgs = {m1, m2}
  Groups = {g1}
  Procs = {p1}
  DefaultMaxDeliver = 2
  MsgMaxDeliver <- MCMsgMax
  Malformed = {}
  Backoff <- MCBackoff
  IdleTimeout = 1
  ReadCount = 1
  MaxLen = 1
  ApproxMaxLen = TRUE
  DLQEnabled = TRUE
  MaxStream = 4
  MaxFaults = 2
  Prompt = FALSE
SYMMETRY MCSymmetry
INVARIANTS
  DeadLetterUsedUp
  LossOnlyByTrim
