\* Fluent code, JOINs included: every chain is finished before the next statement.
SPECIFICATION Spec
CONSTANTS
  MaxStatements = 3
  MaxSelects = 5
  MaxClauses = 2
  MaxDepth = 2
  MaxBlocks = 2
  Starts = {"insert", "update", "delete", "define", "limit", "join"}
  Freedom = {"catch"}
INVARIANTS
  TypeOK
  PlanIsWhatWasWritten
  PlanIsInOrder
  TransactionsAreBlocks
  FluentIsNeverRejected
