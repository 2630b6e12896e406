\* Clients take turns, as under the mutex of Database.suspendedScope.
SPECIFICATION FairSpec
CONSTANTS
  Thread = {t1, t2}
  Write = {w1, w2, w3}
  Faults = {}
  Exclusive = TRUE
  NoWrite = NoWrite
INVARIANTS
  ExclusiveInv
  SavedIsDurable
  EndEndsTransaction
PROPERTIES
  ClientsReturn
  ImplementsStore
