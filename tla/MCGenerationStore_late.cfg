CONSTANTS
    Gens = {g1, g2, g3, g4}
    Records = {r1}
    Values = {v1}
    Passwords = {p1}
    OuterKeys = {k1}
    LeaseModes = {"process"}
    None = None
    LateFaults = TRUE
    MaxFaults = 1
SPECIFICATION Spec
INVARIANTS ActiveOpens
PROPERTIES ImplementsContract VaultComesBack
VIEW GenView
CHECK_DEADLOCK TRUE
