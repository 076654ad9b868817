SPECIFICATION Spec
CONSTANTS
  h1 = h1
  h2 = h2
  h3 = h3
  h4 = h4
  t1 = t1
  t2 = t2
  Thread = {t1, t2}
  Handle = {h1, h2, h3, h4}
  Owner <- Owners
  Bufs = 2
  Size = 2
  Shift = {1}
  Word = 4
INVARIANTS
  HeldMapped
  UnmappedLast
SYMMETRY Swaps
