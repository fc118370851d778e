SPECIFICATION FairSpec
CONSTANTS
  r1 = r1
  c1 = c1
  c2 = c2
  e1 = e1
  s1 = s1
  s2 = s2
  Estates = {e1}
  Stations = {s1, s2}
  Pieces <- AllPieces
  Split <- AllSplit
  Isolates = {i1}
  Requests = {r1, r2}
  Leases <- AllLeases
  Loads <- AllLoads
  NoCred = NoCred
  Positive = 2
  Negative = 1
  AskTimeout = 1
  MaxLife = 2
  MaxCached = 1
  MaxTime = 3
CHECK_DEADLOCK FALSE
INVARIANTS
  CacheBounded
  AnswersFresh
  LeaseInForce
PROPERTIES
  EveryRequestAnswered
