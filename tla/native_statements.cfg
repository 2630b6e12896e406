\* Two threads, one SELECT of two rows, statements executed, read, closed in any order.
SPECIFICATION Spec
CONSTANTS
  Thread = {t1, t2}
  Select = {q}
  Rows = 2
  MaxTries = 2
  MaxStatements = 2
  Null = Null
INVARIANTS
  TypeOK
  OnlyOpenStatementsAreUsed
  ResultsAreWhole
  OpenStatementsAreReachable
  ReadLocksAreReleased
PROPERTIES
  CallsEnd
CHECK_DEADLOCK FALSE
