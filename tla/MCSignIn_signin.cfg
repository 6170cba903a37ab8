CONSTANTS
    Handles = {h1}
    Managers = {m1, m2}
    Slots = {password}
    Calls = {c1, c2}
    Gens = {1, 2, 3}
    Tokens = {t1}
    Capacity = 2
    None = None
SPECIFICATION Spec
INVARIANTS TypeOK SecretsAccounted BorrowedStaysWhole SlotsAgree UnfollowedOnlyByRenewal ClosedIsSilent
SYMMETRY SignInSymmetry
VIEW SignInView
CHECK_DEADLOCK TRUE
