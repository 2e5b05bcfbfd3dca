SPECIFICATION Spec
CONSTANTS
    collector = collector
    mutator = mutator
    BLOCK = 128
    Threads <- TwoThreads
    Offsets <- NextOffsets
    Writes <- NextWrites
INVARIANT NoLostUpdate
