SPECIFICATION FairSpec
CONSTANTS
    t1 = t1
    t2 = t2
    e1 = e1
    e2 = e2
    b1 = b1
    b2 = b2
    w1 = w1
    w2 = w2
    Nothing = Nothing
    Tasks = {t1, t2}
    EventIds = {e1, e2}
    Bodies = {b1, b2}
    Ingesters = {w1, w2}
    Postable <- Anything
    Revised <- Corrected
    PageSize = 30
    MaxComments = 2
    MaxEdits = 1
    MaxCrashes = 1
INVARIANTS
    TypeOK
    IngestOwnsTask
    EnvelopeIsRow
PROPERTIES
    OrderlyIsIngested
