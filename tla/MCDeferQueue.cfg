CONSTANTS
    Keys <- MCKeys
    OnceKeys <- MCOnceKeys
    Screens = {0}
    Delays = {0, 2, 3}
    TicksPerSec = 3
    MaxDefers = 3
    LastSec = 1
    EndSec = 3
SPECIFICATION FairSpec
INVARIANTS
    TypeOK
    NotEarly
    TimerCoversHead
    OnceBounded
PROPERTIES
    KeepsPromise
    InvokedUnlessRefused
CHECK_DEADLOCK FALSE
