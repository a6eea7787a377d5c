SPECIFICATION Spec
CONSTANTS
  TableNames = {"t", "u"}
  Creates <- MCStringView
  Statements <- MCViewStatements
  Unquoted <- MCUnquoted
  Positions = TRUE
  MaxUpdates = 2
  MaxSlots = 2
INVARIANT QueryIsAnswered
