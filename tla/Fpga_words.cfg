SPECIFICATION FairSpec
CONSTANTS
  Cores = {0, 1, 2}
  Byte = 2
  CmdWords = 2
  RespWords = 2
  CmdDepth = 2
  RespDepth = 2
  MaxCmds = 4
INVARIANTS
  NoBadResponse
  OwnAnswer
  WakesExact
PROPERTY
  AllAnswered
CHECK_DEADLOCK FALSE
