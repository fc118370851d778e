SPECIFICATION Spec
CONSTANTS
  Modes = {"remote", "stations", "estates"}
  Hosting <- MCHosting
  Pairs <- MCPairs
  e1 = e1
  e2 = e2
  s1 = s1
  s2 = s2
  t1 = t1
  t2 = t2
  Pieces <- MCPieces
  Split <- MCSplit
  PlaneReasons <- MCPlaneReasons
  Estates = {e1, e2}
  Stations = {s1, s2}
  Tokens = {t1, t2}
  NoCred = NoCred
  Presented <- MCPresented
  Attempts <- MCAttempts
  LeaseScopes <- MCLeaseScopes
  PlaneScopes <- MCPlaneScopes
  Audience = "here"
  Audiences = {"here", "there"}
  Positive = 2
  Negative = 1
  AskTimeout = 1
  MaxLife = 2
  Slots = {k1, k2}
  MaxEntries = 2
  MaxMints <- MCMaxMints
  MaxEpoch <- MCMaxEpoch
  MaxTime = 2
  Lengths = {2, 3}
SYMMETRY SlotSymmetry
INVARIANTS
  AnswersFresh
  BlameIsRight
  RevocationBounded
  ToldOnceIsEnough
  HostedNamesStations
  AsListed
