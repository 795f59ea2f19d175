SPECIFICATION Spec
CONSTANTS
  http = http
  tcp = tcp
  pubsub = pubsub
  reminder = reminder
  c1 = c1
  c2 = c2
  Servers <- MCServers
  Components <- MCComponents
  Stoppable <- MCStoppable
  Draining <- MCDraining
  Callers = {c1}
  EarlyShutdown = TRUE
CHECK_DEADLOCK FALSE
INVARIANTS
  NoPanic
