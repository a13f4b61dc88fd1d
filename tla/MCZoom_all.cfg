SPECIFICATION Spec
CONSTANTS
    p1 = p1
    p2 = p2
    Runs = {p1, p2}
    r1 = r1
    r2 = r2
    Roots = {r1, r2}
    s1 = s1
    s2 = s2
    Rows = {s1, s2}
    None = None
    Error = Error
    Identity <- Parity
    Config <- SameConfig
    Passes = 2
    MaxFaults = 1
    MaxChanges = 2
SYMMETRY Symmetry
INVARIANTS TypeOK OneServer StatusTellsServer IdentityIsOfLifecycle AuthorityIsWhole
CHECK_DEADLOCK FALSE
