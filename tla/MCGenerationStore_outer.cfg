CONSTANTS
    Gens = {g1, g2, g3, g4}
    Records = {r1, r2}
    Values = {v1}
    Passwords = {p1, p2}
    OuterKeys = {k1, k2}
    LeaseModes = {"fixed", "process"}
    None = None
    LateFaults = FALSE
    MaxFaults = 1
SPECIFICATION Spec
INVARIANTS TypeOK ActiveComplete OuterLeaseFits MemoryMatchesDisk
PROPERTIES FailedMigrationIsUndone SuccessIsDurable
SYMMETRY GenSymmetry
VIEW GenView
CHECK_DEADLOCK TRUE
