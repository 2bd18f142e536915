SPECIFICATION FairSpec
CONSTANTS
    o1 = o1
    o2 = o2
    w1 = w1
    w2 = w2
    w3 = w3
    NoWorker = NoWorker
    Operators = {o1, o2}
    Workers = {w1, w2, w3}
    MaxFaults = 1
INVARIANTS
    TypeOK
    SingleInstance
    WorkerIsKnown
PROPERTIES
    StopLeavesForeground
    EventuallyKnown
