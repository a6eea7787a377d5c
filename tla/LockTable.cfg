SPECIFICATION FairSpec
CONSTANTS
  Txs = {t1, t2, t3}
  Blocks = {b1}
INVARIANTS
  TypeOK
  CountMatchesHolders
  SleepingReaderIsBlocked
  DeadlineIsHeard
PROPERTIES
  ImplementsLockService
  EveryCallReturns
