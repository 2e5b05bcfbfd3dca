SPECIFICATION Spec
CONSTANTS
    HEADER = 2
    heapSize = 20
    Sizes <- MCSizes
INVARIANTS
    TypeOK
    SpacesTile
    ChunkHoldsRequest
    BadAllocOnlyWhenFull
PROPERTY
    ChunksKeepTheirSpace
