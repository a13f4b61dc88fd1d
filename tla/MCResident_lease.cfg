SPECIFICATION Spec
CONSTANTS
    Coordinators = {c1, c2}
    NoOne = NoOne
    MayOutlive = FALSE
    MayBeKilled = FALSE
    DiskMayFail = FALSE
    Service <- OneService
    CommandsOf <- OneCommand
INVARIANTS
    LeaseSerializesUsers
CHECK_DEADLOCK FALSE
