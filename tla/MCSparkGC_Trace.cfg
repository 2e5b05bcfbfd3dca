SPECIFICATION FairSpec
CONSTANTS
    Mutators <- OneMutator
    MaxRegistered = 1
    MaxCycles = 2
    Places <- ThreePlaces
    heapSize = 2048
    ALIGN = 32
    SWEEP_THREADS = 4
    MaxStack = 2
    MaxPointers = 2
CHECK_DEADLOCK FALSE
INVARIANTS
    TypeOK
    TracedClosed
    OnlyFirstRootLost
    BlueIsUnallocated
PROPERTIES
    MarkedSurvives
    CollectionEnds
