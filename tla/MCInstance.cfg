CONSTANTS
    c1 = c1
    c2 = c2
    c3 = c3
    NScreens = 1
    Clients = {c1, c2, c3}
    Running = {c1}
    Replacing = {c1, c2}
    Unqualified = {c3}
    Nobody = Nobody
    MaxCommands = 2
    MayRestart = TRUE
SPECIFICATION FairSpec
INVARIANTS
    TypeOK
    LosersAreTold
PROPERTIES
    StartCompletes
    SettlesToOne
    LeavesOne
CHECK_DEADLOCK FALSE
