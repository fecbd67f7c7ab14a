SPECIFICATION FairSpec
CONSTANTS
  w1 = w1
  w2 = w2
  w3 = w3
  c1 = c1
  u1 = u1
  u2 = u2
  u3 = u3
  Workers = {w1, w2}
  Callers = {c1}
  Units = {u1, u2}
  Batch <- FlatBatch
  LowPrio = {u2}
  Async = {u2}
  LateStart = TRUE
  None = None
PROPERTIES ShutdownEnds WokenUnitTaken
