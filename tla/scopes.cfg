\* Coroutines share one Database through suspendedScope, on both drivers.
SPECIFICATION FairSpec
CONSTANTS
  Coroutine = {c1, c2}
  Nobody = Nobody
  Programs <- MCPrograms
  Write <- MCStatement
  Query <- MCStatement
  Faults = {"autoRollback"}
  Platforms = {"native", "jdbc"}
INVARIANTS
  TypeOK
  EffectsAreItemsPassed
  TransactionIsOfMutexHolder
  SelectSeesItsPast
PROPERTIES
  ScopesFinish
