SPECIFICATION Spec
CONSTANTS
  Classes <- MCClasses
  QueryClasses <- MCQueryClasses
  Data = {1, 2}
  Null = Null
  MaxRows = 2
  Arity = {0, 2}
  MaxComparisons = 3
  MaxConditions = 4
  MaxStatements = 2
  MaxScopes = 1
  MaxReused = 1
  Kinds = {"select", "join"}
INVARIANTS
  TypeOK
  ParametersMatchPlaceholders
  PlainConditionsMeanWhatIsWritten
  GeneratedTablesAreExplained
  InsertsStoreTheEntities
  KeysIdentifyRows
CHECK_DEADLOCK FALSE
