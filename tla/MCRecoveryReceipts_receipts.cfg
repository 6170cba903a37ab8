CONSTANTS
    Serials = {s1, s2}
    OuterKeys = {k1, k2}
    None = None
    MaxMishaps = 2
SPECIFICATION Spec
INVARIANTS TypeOK ResponseIsKept
PROPERTIES NotStartedAgain
SYMMETRY SerialsAndKeys
CHECK_DEADLOCK TRUE
