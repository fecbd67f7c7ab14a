SPECIFICATION Spec
CONSTANTS
    Chunks = 4
    Items = 2
    Pool = 9
INVARIANTS LastChunkFed
