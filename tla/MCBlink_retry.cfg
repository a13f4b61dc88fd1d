SPECIFICATION FairSpec
CONSTANTS
    k1 = k1
    k2 = k2
    m1 = m1
    Runners = {r1, r2}
    Roots = {k1, k2}
    CommandLines <- SameOrFresh
    ModelOf <- OneModel
    Requests = 1
    NoRunner = NoRunner
    MayBeKilled = TRUE
    MayCrash = TRUE
    FailingWrites = {"root", "status", "receipt", "score"}
    MaxSignals = 1
INVARIANTS
    TypeOK
    ServersExclude
    OwnAnswers
    ExitLeavesVerdict
PROPERTIES
    WaiterGetsLock
CHECK_DEADLOCK FALSE
