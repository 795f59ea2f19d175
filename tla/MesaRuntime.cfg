SPECIFICATION FairSpec
CONSTANTS
  http = http
  tcp = tcp
  pubsub = pubsub
  reminder = reminder
  c1 = c1
  c2 = c2
  Servers <- MCServers
  Components <- MCComponents
  Stoppable <- MCStoppable
  Draining <- MCDraining
  Callers = {c1, c2}
  EarlyShutdown = FALSE
CHECK_DEADLOCK FALSE
INVARIANTS
  NoPanic
  StopOnce
  ResourcesOutliveItems
  NilMeansStopped
  CallersAgree
  ReadyMeansStarted
PROPERTIES
  StateMovesForward
  ShutdownReturns
  RunReturns
