CONSTANTS
    p1 = p1
    p2 = p2
    r1 = r1
    r2 = r2
    r3 = r3
    NScreens = 2
    Processes = {p1, p2}
    Netwm = {p1}
    Nobody = Nobody
    Records = {r1, r2, r3}
    NoRecord = NoRecord
    MayCrash = TRUE
    MaxWindows = 4
    MaxChanges = 3
SPECIFICATION Spec
INVARIANTS
    TypeOK
    RefsExact
    OneRecordPerProcess
    PublishedIsTracked
CHECK_DEADLOCK FALSE
