SPECIFICATION Spec
CONSTANTS
  Txs = {t1, t2}
  Blocks = {b1}
INVARIANT SleepingWriterIsBlocked
