SPECIFICATION Spec
CONSTANTS
    t1 = t1
    t2 = t2
    Executions = {e1, e2, e3}
    Targets = {t1}
    TargetsOf <- Resumed
    MaxRetries = 2
    NoRoot = NoRoot
    Overlapping = FALSE
    MayBeKilled = FALSE
    DiskMayFail = TRUE
    MaxSignals = 2
SYMMETRY Symmetric
INVARIANTS
    TypeOK
    RowsAreEvidence
    ReevaluationNeedsOrphan
CHECK_DEADLOCK FALSE
