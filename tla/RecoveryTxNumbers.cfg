SPECIFICATION Spec
CONSTANTS
  v0 = v0
  Blocks = {b1}
  NoBlock = NoBlock
  Values = {v0, v1}
  NoValue = NoValue
  Initial <- MCInitial
  MaxTx = 3
  MaxUpdates = 2
  MaxCrashes = 1
  MaxRollbacks = 1
CHECK_DEADLOCK FALSE
PROPERTY RollbackIsOwn
