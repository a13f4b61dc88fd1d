SPECIFICATION FairSpec
CONSTANTS
    Coordinators = {c1}
    NoOne = NoOne
    MayOutlive = TRUE
    MayBeKilled = TRUE
    DiskMayFail = TRUE
    Service <- OneService
    CommandsOf <- AllCommands
INVARIANTS
    TypeOK
    PublishedIsCertified
PROPERTIES
    ImplementsReceipt
    SignalEndsRun
CHECK_DEADLOCK FALSE
