CONSTANTS
    w1 = w1
    w2 = w2
    l1 = l1
    Malformed = Malformed
    Workers <- MCWorkers
    Layers <- MCLayers
    MaxSampleRate = 4
    Requests <- MCRequests
    LocalConfigs <- MCLocalConfigs
    Payloads <- MCPayloads
    DefaultArgs <- MCDefaultArgs
    MaxUpdates = 2
    MaxTime = 1
SPECIFICATION Spec
INVARIANTS
    TypeOK
