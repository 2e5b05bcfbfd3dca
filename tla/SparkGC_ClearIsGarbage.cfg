SPECIFICATION Spec
CONSTANTS
    Mutators <- OneMutator
    MaxRegistered = 1
    MaxCycles = 3
    Places <- ThreePlaces
    heapSize = 2048
    ALIGN = 32
    SWEEP_THREADS = 4
    MaxStack = 2
    MaxPointers = 2
CHECK_DEADLOCK FALSE
INVARIANT
    ClearIsGarbage
