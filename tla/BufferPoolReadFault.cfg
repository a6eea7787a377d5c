SPECIFICATION Spec
CONSTANTS
  Txs = {t1, t2}
  Blocks = {b1, b2}
  NoTx = NoTx
  NoBlock = NoBlock
  NumBuffers = 1
  Faults = {"read"}
  MaxUpdates = 1
  MaxRefs = 1
INVARIANT PinnedIsLatest
