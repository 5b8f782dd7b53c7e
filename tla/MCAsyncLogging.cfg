CONSTANTS
    m1 = m1
    m2 = m2
    m3 = m3
    fatal1 = fatal1
    fatal2 = fatal2
    Line <- FiveLines
    Stopper <- TwoFatal
    Script <- TwoThreads
    BufferSize = 2
    DropLimit = 2
    RollSize = 2
    MaxSecond = 1
SPECIFICATION FairLogger
CHECK_DEADLOCK FALSE
INVARIANTS
    AssertionsHold
    KeptInOrder
    FilesHoldTheLog
PROPERTIES
    WrittenOrDead
    FatalEndsProcess
