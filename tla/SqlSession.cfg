SPECIFICATION FairSpec
CONSTANTS
  TableNames = {"t", "u"}
  Creates <- MCCreates
  Statements <- MCStatements
  Unquoted <- MCUnquoted
  Positions = TRUE
  MaxUpdates = 5
  MaxSlots = 2
INVARIANTS
  TypeOK
  QueryIsAnswered
  UpdateIsRelational
  LayoutIsSound
  SubPredicatesConjoin
PROPERTY EveryStatementEnds
