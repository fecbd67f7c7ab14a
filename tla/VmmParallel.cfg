SPECIFICATION FairSpec
CONSTANTS
  Workers = {w1, w2, w3}
  Caller = Caller
  Closer = Closer
  MaxProc = 3
  MaxThread = 2
  Half = 0
INVARIANTS BatchIntact HandedOutOnce
PROPERTIES EventSpec ForeachEnds
