SPECIFICATION PromptSpec
CONSTANTS
  p1 = p1
  p2 = p2
  Polls = {p1, p2}
  Puts = {m1}
  Loads <- AllLoads
  MaxEpoch = 2
CHECK_DEADLOCK FALSE
INVARIANTS
  NothingTakenSilently
  WakeReachesAll
PROPERTIES
  PollsEnd
  WithdrawnPollEnds
  NothingAccumulates
