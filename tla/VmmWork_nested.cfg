SPECIFICATION Spec
CONSTANTS
  w1 = w1
  w2 = w2
  w3 = w3
  c1 = c1
  u1 = u1
  u2 = u2
  u3 = u3
  Workers = {w1, w2, w3}
  Callers = {c1}
  Units = {u1, u2, u3}
  Batch <- NestedBatch
  LowPrio = {u3}
  Async = {}
  LateStart = FALSE
  None = None
SYMMETRY Symmetry
INVARIANTS SleepersReachable RefsAreHolders NoUnitOutlivesCall NoAccessAfterFree
