\* COMMIT may fail and leave the transaction open.
SPECIFICATION Spec
CONSTANTS
  Thread = {t1, t2}
  Write = {w1, w2}
  Faults = {"commitFails"}
  Exclusive = TRUE
  NoWrite = NoWrite
INVARIANTS
  EndEndsTransaction
