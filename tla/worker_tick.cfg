SPECIFICATION FairWorkerSpec
CONSTANTS
    w1 = w1
    w2 = w2
    Publishers = {w1, w2}
    N = 2
    Silent = {}
    Unrenderable = {1}
    Limit = 2
    MaxFaults = 1
    Sources = {1, 2}
    Mailboxes <- Mixed
INVARIANTS
    WorkerTypeOK
    SuccessWasPosted
    DuplicatesExplained
PROPERTIES
    DeliveredOnce
    
