\* The code's sizes divided by 8, with a block of three granules instead of
\* four so that every block history fits in a few seconds.
SPECIFICATION Spec
CONSTANTS
    ALIGN = 4
    MEDIUM = 4
    BLOCK = 12
    heapSize = 28
    RawSizes <- MCRawSizes
INVARIANTS
    TypeOK
    BlocksTile
    ObjectsDisjoint
    FreeSpaceClean
    SweptObjectHasBlock
PROPERTY AllocatorSpec
\* The program ends when memoryFreed throws (pc = "failed").
CHECK_DEADLOCK FALSE
