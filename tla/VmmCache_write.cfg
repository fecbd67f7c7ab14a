SPECIFICATION Spec
CONSTANTS
  bucket = bucket
  Readers = {ra}
  Fetchers = {fa}
  Writers = {wa}
  Refreshers = {}
  Pages = {g1}
  Buckets = {bucket}
  Hash <- OneBucket
  Regions = 2
  MaxMems = 4
  Objects = {o1, o2, o3}
  MaxWrites = 2
  None = None
SYMMETRY Symmetry
INVARIANTS InvalidatedIsGone FreshAfterWrite
