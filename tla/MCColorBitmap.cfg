SPECIFICATION Spec
CONSTANTS
    collector = collector
    mutator = mutator
    BLOCK = 128
    Threads <- TwoThreads
    Offsets <- ThreeOffsets
    Writes <- MetWrites
INVARIANTS
    TypeOK
    OnlyOverlapsLose
    TornOnlyBlueAndBlack
