\* Four writes, two of them in flight, a DRAM that completes bursts in any
\* order, under fair scheduling.
SPECIFICATION FairSpec
CONSTANTS
  i1 = i1
  i2 = i2
  Id = {i1, i2}
  Addr = {0}
  Lens = {1, 2}
  Mult = 1
  Burst = 1
  MaxInFlight = 2
  MaxWrites = 4
INVARIANTS
  BeatsStored
  AnswersEarned
PROPERTIES
  WritesComplete
