SPECIFICATION FairSpec
CONSTANTS
    p1 = p1
    p2 = p2
    p3 = p3
    Callers = {p1, p2, p3}
    MaxCrashes = 1
INVARIANTS
    TypeOK
    VersionTellsObjects
    OneMigrator
PROPERTIES
    VersionNeverFalls
    Migrates
