SPECIFICATION Spec
CONSTANTS
    Mutators <- TwoMutators
    MaxRegistered = 2
    MaxCycles = 1
INVARIANT Sync2AfterAllInSync1
