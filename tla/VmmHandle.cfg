SPECIFICATION FairSpec
CONSTANTS
  p = p
  k1 = k1
  k2 = k2
  Handles = {p, k1, k2}
  Users = {a, b}
  Parent <- TwoChildren
  MaxCount = 3
  MaxRefs <- TwoRefs
  None = None
INVARIANTS CallsOnLiveHandle TornDownOnce ParentOutlivesChild NoLeak
PROPERTIES CloseEnds
