SPECIFICATION Spec
CONSTANTS
    ALIGN = 4
    MEDIUM = 8
    BLOCK = 16
    heapSize = 48
    RawSizes <- MCRawSizesCode
    MaxSweeps = 2
INVARIANT SweptBlockIsFound
CHECK_DEADLOCK FALSE
