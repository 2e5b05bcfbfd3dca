SPECIFICATION FairSpec
CONSTANTS
    Mutators <- TwoMutators
    MaxRegistered = 1
    MaxCycles = 3
INVARIANTS
    TypeOK
    HandshakeAgreed
    RootsAndColorBeforeTrace
PROPERTIES
    StatesInOrder
    CollectionEnds
