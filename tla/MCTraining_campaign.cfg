SPECIFICATION FairSpec
CONSTANTS
    a1 = a1
    a2 = a2
    Runs = {r1, r2}
    Targets = {t1, t2}
    NoRun = NoRun
    MaxSignals = 1
    MaxFaults = 1
    Arms = {a1, a2}
    AllArms <- BothArms
    Selections <- AllOrSecond
    Inputs = {t1}
    Modes = {"dual", "sequential"}
    MaxLaunches = 2
    MaxProcesses = 2
INVARIANTS
    TypeOK
    TrainingsExclude
    CompletionIsLast
    InputsAreWhole
    ReturnLeavesNoTrainer
    FirstMergeIsWhole
PROPERTIES
    InterruptEndsLaunch
CHECK_DEADLOCK FALSE
