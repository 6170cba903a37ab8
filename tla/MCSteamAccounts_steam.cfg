CONSTANTS
    Accounts = {a, b}
    Ui = ui
    Lister = lister
    Outsiders = {}
    None = None
    Happens = {"swap", "list", "forget", "clear", "login_only"}
    MaxGuarded = 1
    MaxMishaps = 1
SPECIFICATION Spec
INVARIANTS TypeOK AccountsKept 
SYMMETRY AccountSymmetry
CHECK_DEADLOCK TRUE
