SPECIFICATION Spec
CONSTANTS
  r1 = r1 r2 = r2 r3 = r3 r4 = r4 r5 = r5 r6 = r6
  Rids = {r1, r2, r3, r4, r5, r6}
  KeyOf <- MCKeyOf
  Preloads <- MCPreloads
  ScanKeys = {2}
  LeafCapacity = 2
  DirCapacity = 2
  MaxChanges = 4
  MaxTxs = 2
CHECK_DEADLOCK FALSE
INVARIANTS
  TypeOK
  SearchIsRight
  DirectoryMatchesChain
  CursorSkipsNothing
PROPERTY ImplementsIndexEntries
