SPECIFICATION LibrarySpec
CHECK_DEADLOCK FALSE
CONSTANTS
  Parts = {"settings"}
  Subscribers = {s1, s2, s3, s4}
  Invalid = {s4}
  Clashing = {s1, s2}
  Starters = {p1, p2}
  MaxMerges = 2
  Channels = {"sms", "mail"}
  Types = {"due", "paid"}
  Notifies = {v1}
  Nodes = {n1, n2, n3}
  Keys = {"u1", "u2"}
  Score <- MCScore
  Selectors = {e1, e2}
  MaxPicks = 2
  MaxRows = 4
  MaxAt = 2
  DefaultLimit = 1
  MaxLimit = 2
  Limits <- MCLimits
  n1 = n1
  n2 = n2
  n3 = n3
INVARIANTS
  DeadLettersUnlessDisabled
