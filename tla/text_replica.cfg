CONSTANTS
    Replica = {1, 2, 3}
    BaseLen = 1
    MaxLen = 1
    MaxOps = 3
    MaxUndos = 2
    MaxBatch = 2
SPECIFICATION Spec
INVARIANTS
    TypeOK
    Convergence
    VisibleIsCurrent
    ObservedWasApplied
    OnlyMissingDefer
