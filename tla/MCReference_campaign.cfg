CONSTANTS
    None = None
    Targets = {t1}
    Rows = {r1, r2}
    Runs = {p1, p2}
    Modes <- CampaignModes
    Changes <- AllChanges
    MaxJobs = 5
    MaxFaults = 1
    MaxAttempts = 2
SYMMETRY Symmetry
CHECK_DEADLOCK FALSE
SPECIFICATION Spec
INVARIANTS TypeOK LineageAgrees ScoreMatchesReceipt AnswersOnFrozenData
PROPERTIES CertifiedRowsAreFinal
