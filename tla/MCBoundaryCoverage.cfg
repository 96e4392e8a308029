SPECIFICATION Spec
CONSTANTS
    t1 = t1
    t2 = t2
    Targets = {t1, t2}
    Contexts <- BatchIds
    AttemptLimit = 1
    BatchSize = 2
    InjectLimit = 1
    Lane = "coverage"
    MaxBatches = 2
SYMMETRY TargetSymmetry
INVARIANTS
    BatchesDoNotOverlap
