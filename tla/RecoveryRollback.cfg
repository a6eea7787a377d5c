SPECIFICATION FairSpec
CONSTANTS
  v0 = v0
  Blocks = {b1, b2}
  NoBlock = NoBlock
  Values = {v0, v1}
  NoValue = NoValue
  Initial <- MCInitial
  MaxTx = 3
  MaxUpdates = 2
  MaxCrashes = 1
  MaxRollbacks = 2
CHECK_DEADLOCK FALSE
INVARIANTS
  DirtyIsLocked
PROPERTIES
  RollbackIsExact
  RecoveryReturns
