CONSTANTS
    w1 = w1
    w2 = w2
    Workers <- MCWorkers
    Rate0 = 1
    Cap0 = 2
    RateCaps <- MCRateCaps
    MaxRequests = 3
    MaxTime = 3
    MaxStepBacks = 1
SYMMETRY WorkerSymmetry
SPECIFICATION Spec
INVARIANT
    TypeOK

    
