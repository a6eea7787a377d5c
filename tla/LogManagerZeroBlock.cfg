SPECIFICATION Spec
CONSTANTS
  Procs = {p1, p2}
  Free = Free
  Boot = Boot
  PageSize = 2
  Faults = {}
  Overlap = FALSE
  MaxRecords = 3
  MaxCrashes = 1
CHECK_DEADLOCK FALSE
SYMMETRY Symmetry
INVARIANT RestartFindsBoundary
