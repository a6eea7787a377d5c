SPECIFICATION Spec
CONSTANTS
  Txs = {t1, t2}
  Blocks = {b1, b2}
  NoTx = NoTx
  NoBlock = NoBlock
  NumBuffers = 1
  Faults = {"write"}
  MaxUpdates = 3
  MaxRefs = 2
SYMMETRY Symmetry
INVARIANTS
  LatestIsReachable
  UnlockedIsOnDisk
  WriteAhead
