SPECIFICATION Spec
CONSTANTS
    t1 = t1
    t2 = t2
    Targets = {t1, t2}
    Contexts <- BatchIds
    AttemptLimit = 2
    BatchSize = 1
    InjectLimit = 1
    Lane = "generated-handoff"
    MaxBatches = 3
SYMMETRY TargetSymmetry
INVARIANTS
    TypeOK
    AttemptBudget
    AtMostOneLateTask
PROPERTIES
    ImplementsTargetWork
    UntriedFirst
    FlipOverruledOnlyIfUnseen
