SPECIFICATION Spec
CONSTANTS
  bucket = bucket
  Readers = {ra}
  Fetchers = {fa}
  Writers = {}
  Refreshers = {rf}
  Pages = {g1, g2}
  Buckets = {bucket}
  Hash <- OneBucket
  Regions = 2
  MaxMems = 1
  Objects = {o1, o2}
  MaxWrites = 0
  None = None
SYMMETRY Symmetry
INVARIANTS OneOwner CountIsReferences ReachableIsInUse GetsItsPage
VIEW LiveView
