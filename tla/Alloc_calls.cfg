SPECIFICATION Spec
CONSTANTS
  Lists = 2
  Supers = 3
  Lens = {1, 2, 3, 5}
  Short = 65536
  Word = 8
INVARIANTS
  LiveDisjoint
  Accounted
CHECK_DEADLOCK FALSE
