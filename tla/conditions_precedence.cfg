SPECIFICATION ConditionSpec
CONSTANTS
  Arity = {0, 1}
  MaxComparisons = 3
  MaxConditions = 5
  MaxStatements = 0
  MaxScopes = 1
  MaxReused = 1
  Kinds = {}
INVARIANT ConditionsMeanWhatIsWritten
CHECK_DEADLOCK FALSE
