\* Two cores under fair scheduling; a client may shut the daemon down.
SPECIFICATION FairSpec
CONSTANTS
  k1 = k1
  k2 = k2
  Core = {k1, k2}
  MaxCmds = 2
  CmdWords = 2
  RespWords = 2
  CheckFreq = 0
  Depth = 1
  CanQuit = TRUE
INVARIANTS
  BusExclusive
  WordsInOrder
  ResponsesWhole
PROPERTIES
  ImplementsQueues
  AllAnswered
CHECK_DEADLOCK FALSE
