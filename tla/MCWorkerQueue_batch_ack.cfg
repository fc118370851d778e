SPECIFICATION Spec
CONSTANTS
  Route = r1
  Polls = {p1, p2}
  TTL = 2
  MaxQueue = 2
  MaxLease = 1
  Limits = {0, 1}
  MaxWaiting = 2
  ClockMayStepBack = FALSE
  MaxPuts = 2
  MaxTime = 1
  MaxGrants = 3
  MaxFound = 0
SYMMETRY PollSymmetry
INVARIANTS
  AckOwn
