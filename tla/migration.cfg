\* Two openers of one process and one of another, on both drivers.
SPECIFICATION Spec
CONSTANTS
  o1 = o1
  o2 = o2
  o3 = o3
  p1 = p1
  p2 = p2
  Opener = {o1, o2, o3}
  Process = {p1, p2}
  ProcessOf <- MCProcessOf
  Free = Free
  Versions = {1, 2}
  MaxOpens = 1
  JournalModes = {"WAL"}
  Parts = 1
  ReadOnly = {FALSE}
  ScopedCallback = {TRUE, FALSE}
  Write <- MCWrite
  Faults = {"commitFails"}
  Platforms = {"native", "jdbc"}
SYMMETRY Symmetry
INVARIANTS
  TypeOK
  MigrationsAreWhole
  MigrationsFormAChain
  ThrowLeavesNothing
PROPERTIES
  OpensAtItsVersion
