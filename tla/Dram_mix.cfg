\* Reads and writes that share rows and addresses, with refreshes.
SPECIFICATION FairSpec
CONSTANTS
  Ranks = 1
  Banks = 2
  Addr <- TwoBanks
  Structures = {"PER_BANK"}
  TransQ = 2
  CmdQ = 2
  LowMark = 1
  HitLimit = 1
  ReadDelay = 1
  MaxTrans = 4
  MaxRefresh = 1
INVARIANTS
  PendingExact
  NoOvertaking
PROPERTIES
  ImplementsMemory
  AllAnswered
