SPECIFICATION Spec
CONSTANTS
  TableNames = {"t", "u"}
  Creates <- MCTables
  Statements <- MCStatements
  Unquoted <- MCUnquoted
  Positions = FALSE
  MaxUpdates = 2
  MaxSlots = 2
INVARIANT QueryIsAnswered
