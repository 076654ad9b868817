\* One client does not wait for the server, may be killed and copies its
\* handles, the other may call shutdown(); there are more commands than slots.
SPECIFICATION Spec
CONSTANTS
  c1 = c1
  c2 = c2
  k1 = k1
  k2 = k2
  Client = {c1, c2}
  Core = {k1}
  NumSlots = 2
  Word = 65536
  MaxCmds = 3
  Window = 2
  Early = {c1}
  Quitters = {c2}
  Crashers = {c1}
  Copiers = {c1}
INVARIANTS
  
  SafeUntilMisused
CHECK_DEADLOCK FALSE
