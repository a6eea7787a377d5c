SPECIFICATION Spec
CONSTANTS
  Txs = {t1, t2}
  Slots = 2
  InitialTables <- MCTables
  MaxBlocks = 3
  MaxWrites = 2
CHECK_DEADLOCK FALSE
INVARIANTS
  TypeOK
  ScannedIsTable
  RecordsAreKept
PROPERTY EveryCallReturns
