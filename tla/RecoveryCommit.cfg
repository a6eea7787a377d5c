SPECIFICATION Spec
CONSTANTS
  v0 = v0
  Blocks = {b1, b2}
  NoBlock = NoBlock
  Values = {v0, v1}
  NoValue = NoValue
  Initial <- MCInitial
  MaxTx = 3
  MaxUpdates = 2
  MaxCrashes = 2
  MaxRollbacks = 0
CHECK_DEADLOCK FALSE
SYMMETRY Symmetry
INVARIANTS
  TypeOK
  DiskIsCommitted
  UncommittedIsLogged
PROPERTY ImplementsAtomicStore
