CONSTANTS
    c1 = c1
    c2 = c2
    f1 = f1
    f2 = f2
    f3 = f3
    Callers <- TwoCallers
    Functor <- ThreeFunctors
    Owner = c1
SPECIFICATION FairLife
INVARIANTS
    NoLostWakeup
PROPERTIES
    ImplementsExecutor
    EveryFunctorRuns
    QuitStops
    ThreadStartsAndStops
