SPECIFICATION FairSpec
CONSTANTS
    t1 = t1
    t2 = t2
    s1 = s1
    s2 = s2
    s3 = s3
    s4 = s4
    f1 = f1
    f2 = f2
    Targets = {t1, t2}
    Catalog = {t1, t2}
    Contexts = {s1}
    Staged = {f1}
    MaxTasks = 1
    ExtraTasks = 0
    InjectLimit = 3
    MaxHits = 2
INVARIANTS
    LeasedIsHeld
    StagedNotLost
PROPERTIES
    ImplementsTaskLifecycle
    TasksFinish
