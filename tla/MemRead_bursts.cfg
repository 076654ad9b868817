\* Two reads, of one id or of two, under fair scheduling.
SPECIFICATION FairSpec
CONSTANTS
  i1 = i1
  i2 = i2
  Id = {i1, i2}
  Addr = {0, 2}
  Configs <- WideAndNarrow
  MaxQ = 2
  MaxReads = 2
INVARIANTS
  BeatsInOrder
  BurstsExact
  SameIdInOrder
PROPERTIES
  ReadsComplete
