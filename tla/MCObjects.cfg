SPECIFICATION ManagerSpec
CONSTANTS
  Threads = {t1, t2, t3}
  Objects = {o1, o2, o3}
  None = None
  HashOf <- MCHashOf
  Values = {1, 2, 3, 4, 5}
  SetSize = 4
  SetCapacity = 6
  Pairs <- MCPairs
  MapSize = 4
  MapCapacity = 6
  CacheKeys = {k1, k2, k3, k4}
  CacheObjs = {b1, b2}
  cMax = 3
  NoEntry = NoEntry
  QueueBytes = 10
  Header = 1
  QPackets <- MCPackets
CHECK_DEADLOCK FALSE
INVARIANTS CountIsRefs NoUseAfterFree TablesExact
PROPERTIES MapStepsExact CacheIsLru QueueIsFifo
