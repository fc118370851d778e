SPECIFICATION Spec
CONSTANTS
  Routes = {r1}
  Durable = TRUE
  TTL = 1
  MaxQueue = 2
  MaxLease = 1
  Limits = {0, 1}
  FSMayFail = FALSE
  ClockMayStepBack = FALSE
  MaxPuts = 2
  MaxTime = 2
  MaxGrants = 2
  MaxStarts = 2
  MaxCuts = 1
  MaxFaults = 1
INVARIANTS
  TypeOK
  DiskAgrees
  DamageKept
  AckOwn
PROPERTIES
  ImplementsMailbox
