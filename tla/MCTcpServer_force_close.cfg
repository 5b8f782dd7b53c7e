CONSTANTS
    a = a
    b = b
    base = base
    io1 = io1
    io2 = io2
    w1 = w1
    w2 = w2
    Base = base
    Conn <- OneConn
    IoLoops <- OneLoop
    Workers <- OneWorker
    CallbackOps <- TaskOnly
    WorkerOps <- ForceCloseOnly
    PoolCapacity = 1
    MaxMessages = 1
SPECIFICATION Spec
CHECK_DEADLOCK FALSE
INVARIANT ErasedOnce
