CONSTANTS
    Sessions = {s1, s2}
    Paths = {p1, p2}
    RecoveryCopies = 1
    None = None
    Torn = Torn
    MaxRecords = 3
    MaxMishaps = 2
SPECIFICATION Spec
INVARIANTS TypeOK ReplacedIsRecoverable
PROPERTIES FailedChangeIsUndone 
SYMMETRY DataSymmetry
CHECK_DEADLOCK TRUE
