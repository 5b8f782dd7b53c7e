CONSTANTS
    once = once
    again = again
    Timer <- TwoTimers
    Interval <- Intervals
    MaxTime = 3
    MaxSteps = 2
SPECIFICATION FairSpec
INVARIANTS
    ArmedInTime
PROPERTIES
    ImplementsService
    EventuallyCalled
