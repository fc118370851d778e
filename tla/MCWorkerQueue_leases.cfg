SPECIFICATION Spec
CONSTANTS
  Route = r1
  Polls = {p1}
  TTL = 2
  MaxQueue = 2
  MaxLease = 2
  Limits = {0, 1}
  MaxWaiting = 1
  ClockMayStepBack = FALSE
  MaxPuts = 2
  MaxTime = 4
  MaxGrants = 3
  MaxFound = 0
PROPERTIES
  ImplementsMailbox
