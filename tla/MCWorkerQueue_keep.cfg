SPECIFICATION Spec
CONSTANTS
  Route = r1
  Polls = {p1, p2}
  TTL = 1
  MaxQueue = 2
  MaxLease = 1
  Limits = {0, 1}
  MaxWaiting = 2
  ClockMayStepBack = TRUE
  MaxPuts = 3
  MaxTime = 2
  MaxGrants = 1
  MaxFound = 1
SYMMETRY PollSymmetry
INVARIANTS
  StillThere
  IdNeverReused
  NotHeldPastAMessage
PROPERTIES
  FreshOnly
