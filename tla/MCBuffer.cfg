CONSTANTS
    x = x
    y = y
    EOL = EOL
    Data <- Pieces
    kCheapPrepend = 1
    kInitialSize = 2
    ExtraSize = 2
    MaxReadable = 4
    MaxReserve = 1
SPECIFICATION Spec
INVARIANTS
    MemoryBounded
PROPERTY ImplementsByteQueue
