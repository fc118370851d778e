SPECIFICATION FairSpec
CONSTANTS
  r1 = r1
  r2 = r2
  r3 = r3
  Requests = {r1, r2, r3}
  Loads <- AllLoads
  Room = 1
  Quota = 4
  Stacks = {"bare", "hosted", "leases"}
CHECK_DEADLOCK FALSE
INVARIANTS
  SettledOnce
  
  StoredIsCovered
PROPERTY
  ReservationsEnd
