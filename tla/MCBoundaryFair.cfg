SPECIFICATION FairSpec
CONSTANTS
    t1 = t1
    t2 = t2
    Targets = {t1, t2}
    Contexts <- BatchIds
    AttemptLimit = 2
    BatchSize = 2
    InjectLimit = 3
    Lane = "generated-handoff"
    MaxBatches = 1
INVARIANTS
    OpenBatchHasWork
PROPERTIES
    ImplementsTaskLifecycle
    BatchEventuallyCloses
