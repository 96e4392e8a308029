SPECIFICATION Spec
CONSTANTS
    t1 = t1
    t2 = t2
    s1 = s1
    s2 = s2
    s3 = s3
    s4 = s4
    f1 = f1
    f2 = f2
    Targets = {t1, t2}
    Catalog = {t1}
    Contexts = {s1, s2, s3, s4}
    Staged = {}
    MaxTasks = 2
    ExtraTasks = 1
    InjectLimit = 1
    MaxHits = 2
SYMMETRY SeedSymmetry
INVARIANTS
    TypeOK
    VulnBudget
    NoDuplicateWork
    LimitVerdictEarned
