CONSTANTS
    w1 = w1
    w2 = w2
    patient = patient
    eager = eager
    Workers <- TwoWorkers
    Client <- TwoClients
    Lockstep <- OnePatient
    Lines = 2
    Task <- FourLines
    Capacity = 2
SPECIFICATION FairServer
CHECK_DEADLOCK FALSE
INVARIANTS
    WorkConserving
    AnswersMatch
PROPERTIES
    ImplementsExecutor
    EveryTaskFinishes
    StopReturns
    EveryLineSettled
