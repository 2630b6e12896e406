\* Two threads share one connection, nothing coordinates them.
SPECIFICATION FairSpec
CONSTANTS
  Thread = {t1, t2}
  Write = {w1, w2, w3}
  Faults = {}
  Exclusive = FALSE
  NoWrite = NoWrite
INVARIANTS
  TypeOK
  OneTransaction
  RecordTracksSession
  UndoneIsGone
  AllOrNothing
  WriteInv
PROPERTIES
  DurableOnlyByCommit
  LocksAreReleased
