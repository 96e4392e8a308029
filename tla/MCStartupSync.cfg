SPECIFICATION FairSpec
CONSTANTS
    a = a
    b = b
    c = c
    d = d
    InputSeeds = {a}
    SyncSeeds = {b, c, d}
    Delivery = "sync"
    Validate = FALSE
    SeedRetries = 4
    Retries = 2
    CopyLimit = 2
INVARIANTS
    TypeOK
    NoComeback
    LastSeedStays
    HealthyCorpusStarts
PROPERTIES
    StepsRunOut
    StartupEnds
CHECK_DEADLOCK FALSE
