SPECIFICATION VMSpec
CONSTANTS
    vm = 1
    Programs <- MCPrograms
    Mutators <- OneMutator
    MaxRegistered = 1
    MaxCycles = 7
    Places <- FirstPlaces
    heapSize = 131072
    ALIGN = 32
    SWEEP_THREADS = 4
    MaxStack = 6
    MaxPointers = 0
CHECK_DEADLOCK FALSE
INVARIANTS
    VMTypeOK
    WaitCoversCollection
    ValuesKept
    ExampleShows
    SurvivorsAreClear
    TracePrecise
PROPERTY RunEnds
