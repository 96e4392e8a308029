SPECIFICATION Spec
CONSTANTS
    a = a
    b = b
    c = c
    d = d
    InputSeeds = {a, b, c}
    SyncSeeds = {}
    Delivery = "afl-input"
    Validate = TRUE
    SeedRetries = 3
    Retries = 2
    CopyLimit = 2
INVARIANTS
    NothingLost
    LastSeedStays
    HealthyCorpusStarts
CHECK_DEADLOCK FALSE
