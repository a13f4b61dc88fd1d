SPECIFICATION Spec
CONSTANTS
    Coordinators = {c1, c2}
    NoOne = NoOne
    MayOutlive = FALSE
    MayBeKilled = TRUE
    DiskMayFail = FALSE
    Service <- OneService
    CommandsOf <- OneCommand
SYMMETRY Symmetric
INVARIANTS
    HealthyRunsExclusive
    ForeignServerIsLeftOver
CHECK_DEADLOCK FALSE
