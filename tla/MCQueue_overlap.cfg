SPECIFICATION FairSpec
CONSTANTS
    t1 = t1
    t2 = t2
    Executions = {e1, e2}
    Targets = {t1}
    TargetsOf <- Resumed
    MaxRetries = 0
    NoRoot = NoRoot
    Overlapping = TRUE
    MayBeKilled = TRUE
    DiskMayFail = FALSE
    MaxSignals = 2
PROPERTIES
    RootsArePreserved
    SignalEndsQueue
CHECK_DEADLOCK FALSE
