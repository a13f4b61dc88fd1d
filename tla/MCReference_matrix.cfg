CONSTANTS
    None = None
    Targets = {t1, t2}
    Rows = {r1}
    Runs = {p1, p2}
    Modes <- MatrixModes
    Changes = {}
    MaxJobs = 8
    MaxFaults = 0
    MaxAttempts = 1
SYMMETRY Symmetry
CHECK_DEADLOCK FALSE
SPECIFICATION Spec
INVARIANTS MatrixIsUniform
