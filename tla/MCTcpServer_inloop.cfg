CONSTANTS
    a = a
    b = b
    base = base
    io1 = io1
    io2 = io2
    w1 = w1
    w2 = w2
    Base = base
    Conn <- TwoConns
    IoLoops <- NoneOrTwoLoops
    Workers <- NoOps
    CallbackOps <- InLoopOps
    WorkerOps <- NoOps
    PoolCapacity = 0
    MaxMessages = 2
SPECIFICATION Spec
SYMMETRY Symmetry
CHECK_DEADLOCK FALSE
INVARIANTS
    TypeOK
    NoAssertFails
    RemovalStages
    CleanDestruction
PROPERTY ImplementsContract
