CONSTANTS
    p1 = p1
    p2 = p2
    r1 = r1
    r2 = r2
    r3 = r3
    NScreens = 1
    Processes = {p1, p2}
    Netwm = {p1, p2}
    Nobody = Nobody
    Records = {r1, r2}
    NoRecord = NoRecord
    MayCrash = FALSE
    MaxWindows = 4
    MaxChanges = 4
SPECIFICATION FairSpec
PROPERTIES
    CurrentInTheEnd
CHECK_DEADLOCK FALSE
