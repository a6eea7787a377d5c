SPECIFICATION Spec
CONSTANTS
  Procs = {p1, p2}
  Free = Free
  Boot = Boot
  PageSize = 2
  Faults = {}
  Overlap = TRUE
  MaxRecords = 3
  MaxCrashes = 0
CHECK_DEADLOCK FALSE
SYMMETRY Symmetry
INVARIANT FlushedIsDurable
