CONSTANTS
    Accounts = {a1, a2}
    Values = {v1, v2}
    Keys = {k1, k2}
    Passwords = {p1, p2}
    None = None
    Torn = Torn
    Wiped = Wiped
    Overlap = {"lock"}
    MaxMishaps = 0
SPECIFICATION Spec
INVARIANTS EncryptedBlobsOpen
SYMMETRY DataSymmetry
CHECK_DEADLOCK TRUE
