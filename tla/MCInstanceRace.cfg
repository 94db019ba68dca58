CONSTANTS
    c1 = c1
    c2 = c2
    c3 = c3
    NScreens = 1
    Clients = {c1, c2}
    Running = {}
    Replacing = {}
    Unqualified = {}
    Nobody = Nobody
    MaxCommands = 0
    MayRestart = FALSE
SPECIFICATION Spec
INVARIANTS
    SingleInstance
CHECK_DEADLOCK FALSE
