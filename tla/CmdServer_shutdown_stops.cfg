\* One client calls shutdown(): does the server see it?
SPECIFICATION FairSpec
CONSTANTS
  c1 = c1
  c2 = c2
  k1 = k1
  k2 = k2
  Client = {c1}
  Core = {k1}
  NumSlots = 2
  Word = 65536
  MaxCmds = 1
  Window = 1
  Early = {}
  Quitters = {c1}
  Crashers = {}
  Copiers = {}
PROPERTIES
  ShutdownStops
