CONSTANTS
    Accounts = {a, b}
    Names = {n1, n2}
    Files = {f}
    Id = id
    Ui = ui
    Outsiders = {cmd}
    None = None
    Platforms <- SomePlatforms
    Happens = {"swap", "args", "save", "add", "logout", "signout", "forget", "rename"}
    MaxSessions = 2
    MaxMishaps = 1
SPECIFICATION Spec
INVARIANTS TypeOK SessionsKept SaveIsOwn SwitchDelivers
SYMMETRY DataSymmetry
CHECK_DEADLOCK TRUE
