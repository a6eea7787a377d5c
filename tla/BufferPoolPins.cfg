SPECIFICATION FairSpec
CONSTANTS
  Txs = {t1, t2}
  Blocks = {b1, b2, b3}
  NoTx = NoTx
  NoBlock = NoBlock
  NumBuffers = 2
  Faults = {"read"}
  MaxUpdates = 0
  MaxRefs = 2
INVARIANTS
  TypeOK
  OneBufferPerBlock
  PinsAreCounted
  SleeperIsBlocked
PROPERTY EveryPinReturns
