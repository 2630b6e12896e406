\* A SELECT whose rows are read after its scope has returned.
SPECIFICATION Spec
CONSTANTS
  Coroutine = {c1, c2}
  Nobody = Nobody
  Programs <- MCSelectPrograms
  Write <- MCStatement
  Query <- MCStatement
  Faults = {}
  Platforms = {"native"}
PROPERTIES
  SelectReadsOnlyFinishedScopes
