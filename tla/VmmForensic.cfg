SPECIFICATION FairSpec
CONSTANTS
    Chunks = 4
    Items = 1
    Pool = 9
INVARIANTS BufferExclusive StagesInOrder OutlivesItsUnits
PROPERTY InitEnds
