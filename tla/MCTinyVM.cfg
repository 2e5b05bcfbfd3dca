SPECIFICATION VMSpec
CONSTANTS
    W = 256
    stackWords = 9
    Behind <- MCBehind
    Codes <- MCCodes
INVARIANTS
    VMTypeOK
    AssemblyDecodesCode
PROPERTIES
    MachineSpec
    CountdownEnds
\* A crash is final.
CHECK_DEADLOCK FALSE
