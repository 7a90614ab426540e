\* One process at a time, killed and restarted at will on a failing disk.
SPECIFICATION Spec
CONSTANTS
  Procs = {p}
  MaxRoots = 4
  DiskFails = TRUE
INVARIANTS
  TypeOK
  PairMatches
  RootReused
