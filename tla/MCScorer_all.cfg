CONSTANTS
    Choices <- Letters
    None = "none"
    p1 = p1
    p2 = p2
    r1 = r1
    r2 = r2
    Programs = {"v1", "v2", "v3", "v4", "v5", "mmstar", "audit"}
    Scorers = {p1, p2}
    Rows = {r1, r2}
    Workers = 1
    RepliesOf <- Replies
    OptionsOf <- Options
    GoldOf <- Gold
    Fragile <- Lose
SPECIFICATION Spec
SYMMETRY Symmetry
INVARIANTS TypeOK OnlyProviderFailures CountsAreExact ExitZeroMeansPublished SidecarMatchesReceipt OthersAreScored
