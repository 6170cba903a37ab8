CONSTANTS
    Accounts = {a1, a2}
    Values = {v1, v2}
    Keys = {k1, k2}
    Passwords = {p1, p2}
    None = None
    Torn = Torn
    Wiped = Wiped
    Overlap = {}
    MaxMishaps = 2
SPECIFICATION Spec
INVARIANTS TypeOK  NothingLost 
SYMMETRY DataSymmetry
CHECK_DEADLOCK TRUE
