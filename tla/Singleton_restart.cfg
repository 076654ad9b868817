\* Concurrent runs and launches of one project, daemons crashing at any step,
\* and kill and clean at a time when no daemon is starting.
SPECIFICATION Spec
CONSTANTS
  k1 = k1
  k2 = k2
  k3 = k3
  p1 = p1
  Cli = {k1, k2, k3}
  Project = {p1}
  ProjectOf <- OneProject
  Commands <- StartAndRemove
  Overlap = FALSE
SYMMETRY CliSymmetry
INVARIANTS
  OneDaemon
  SegmentsOwn
  
  NoOrphan
