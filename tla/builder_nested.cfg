\* A transaction block inside a transaction block.
SPECIFICATION Spec
CONSTANTS
  MaxStatements = 3
  MaxSelects = 3
  MaxClauses = 3
  MaxDepth = 2
  MaxBlocks = 2
  Starts = {"insert", "limit"}
  Freedom = {"nest"}
INVARIANTS
  TransactionsAreBlocks
