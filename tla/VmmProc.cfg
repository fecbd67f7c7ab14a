SPECIFICATION Spec
CONSTANTS
  None = None
  Readers = {r1, r2}
  Showing = {r2}
  Lists <- MCLists
  System = 4
  GetPids = {6}
  FakePids = {7}
  MaxTable = 4
INVARIANTS WholeTable CountsExact IterationComplete
PROPERTIES IterationAscends PersistentKept
CHECK_DEADLOCK FALSE
