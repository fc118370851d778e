SPECIFICATION FairSpec
CONSTANTS
  Trials <- AllTrials
  HoldTime = 250
  Patience = 400
CHECK_DEADLOCK FALSE
INVARIANTS
  
  EveryFaultCaught
PROPERTY
  SuiteEnds
