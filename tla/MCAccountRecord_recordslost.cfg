CONSTANTS
    Callers = {c1, c2}
    OwnGids = {g1, g2}
    FileGid = file
    None = None
    Happens = {"sweep", "import", "polladd"}
    MaxLocks = 1
SPECIFICATION Spec
PROPERTIES StoredSecretsKept
SYMMETRY DataSymmetry
CHECK_DEADLOCK TRUE
