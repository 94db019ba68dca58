CONSTANTS
    Keys <- MCKeys
    OnceKeys <- MCOnceKeys
    Screens = {0}
    Delays = {0, 2}
    TicksPerSec = 2
    MaxDefers = 3
    LastSec = 1
    EndSec = 3
    StartDelays = {2}
    MaxEvents = 2
    MaxSignals = 1
    MaxMessages = 1
SPECIFICATION FairLoopSpec
INVARIANTS
    LoopTypeOK
    NeverSleepsOnReady
    NeverSleepsAfterQuit
    EventsBeforeActions
PROPERTIES
    WaitingIsInvoked
    QuitReturns
CHECK_DEADLOCK FALSE
