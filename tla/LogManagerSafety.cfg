SPECIFICATION Spec
CONSTANTS
  Procs = {p1, p2}
  Free = Free
  Boot = Boot
  PageSize = 2
  Faults = {"append", "write"}
  Overlap = FALSE
  MaxRecords = 5
  MaxCrashes = 2
CHECK_DEADLOCK FALSE
SYMMETRY Symmetry
INVARIANTS
  TypeOK
  FlushedIsDurable
  IteratorReturnsLog
PROPERTY ImplementsDurableLog
