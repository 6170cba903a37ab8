CONSTANTS
    Callers = {c1, c2}
    Passwords = {p, q}
    Devices = {d1, d2, d3}
    None = None
    MaxSlots = 3
SPECIFICATION Spec
INVARIANTS TypeOK WaysInAreSound
PROPERTIES OldPasswordRetired LockNotKeptWaiting
CHECK_DEADLOCK TRUE
