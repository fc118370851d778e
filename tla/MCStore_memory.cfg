SPECIFICATION Spec
CONSTANTS
  Routes = {r1, r2}
  Durable = FALSE
  TTL = 1
  MaxQueue = 1
  MaxLease = 2
  Limits = {0, 1}
  FSMayFail = FALSE
  ClockMayStepBack = TRUE
  MaxPuts = 2
  MaxTime = 3
  MaxGrants = 2
  MaxStarts = 2
  MaxCuts = 0
  MaxFaults = 0
SYMMETRY RouteSymmetry
INVARIANTS
  LeaseExclusion
PROPERTIES
  ImplementsMailbox
