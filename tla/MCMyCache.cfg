CONSTANTS
    w1 = w1
    w2 = w2
    q1 = q1
    q2 = q2
    q3 = q3
    Workers <- TwoWorkers
    Query <- ThreeQueries
    Capacity = 2
    Bar = 1
    MaxWrites = 4
SPECIFICATION FairSpec
INVARIANTS
    CachesConsistent
    NothingLost
    Replicas
PROPERTY EventuallyPublished
