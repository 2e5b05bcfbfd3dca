SPECIFICATION Spec
CONSTANTS
    ALIGN = 4
    MEDIUM = 4
    BLOCK = 12
    heapSize = 28
    RawSizes <- MCRawSizes
    MaxSweeps = 3
INVARIANTS
    TypeOK
    SortedSearchFinds
    NoBlockTwice
PROPERTY BlockHeapSpec
\* The program ends when memoryFreed throws or crashes.
CHECK_DEADLOCK FALSE
