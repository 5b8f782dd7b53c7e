CONSTANTS
    a = a
    b = b
    base = base
    io1 = io1
    io2 = io2
    w1 = w1
    w2 = w2
    Base = base
    Conn <- OneConn
    IoLoops <- OneLoop
    Workers <- TwoWorkers
    CallbackOps <- TaskOrSend
    WorkerOps <- ShutdownOrSend
    PoolCapacity = 1
    MaxMessages = 2
SPECIFICATION FairSpec
CHECK_DEADLOCK FALSE
PROPERTIES
    WireIntegrity
    ShutdownAfterFlush
    EventuallyDestroyed
    EventuallyWritten
