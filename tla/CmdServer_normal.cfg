\* Two well-behaved clients, two cores, fair scheduling; at times every slot is
\* in use.
SPECIFICATION FairSpec
CONSTANTS
  c1 = c1
  c2 = c2
  k1 = k1
  k2 = k2
  Client = {c1, c2}
  Core = {k1, k2}
  NumSlots = 2
  Word = 65536
  MaxCmds = 3
  Window = 1
  Early = {}
  Quitters = {}
  Crashers = {}
  Copiers = {}
INVARIANTS
  OwnResponse
  IInv
PROPERTIES
  SendReturns
  GetReturns
  ImplementsRpc
