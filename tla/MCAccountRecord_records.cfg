CONSTANTS
    Callers = {c1, c2}
    OwnGids = {g1, g2}
    FileGid = file
    None = None
    Happens = {"sweep", "again", "fresh", "promote", "pollagain", "pollonly", "polladd", "finalize", "acknowledge", "resume", "forget", "import", "cancel", "lock", "crash", "device"}
    MaxLocks = 1
SPECIFICATION Spec
INVARIANTS TypeOK ActiveIsEarned
PROPERTIES EnrollmentKept
SYMMETRY DataSymmetry
CHECK_DEADLOCK TRUE
