SPECIFICATION Spec
CONSTANTS
  Routes = {r1}
  Durable = TRUE
  TTL = 0
  MaxQueue = 2
  MaxLease = 1
  Limits = {0}
  FSMayFail = TRUE
  ClockMayStepBack = FALSE
  MaxPuts = 3
  MaxTime = 1
  MaxGrants = 0
  MaxStarts = 3
  MaxCuts = 1
  MaxFaults = 1
INVARIANTS
  NoLoss
  OrderKept
  OwedIdsDistinct
  OwedBounded
