CONSTANTS
    Displays <- SomeDisplays
    Entries <- SomeEntries
    MaxFiles = 2
    MaxChanges = 1
    NoPath = NoPath
    NoItem = NoItem
    NoCommand = NoCommand
SPECIFICATION Spec
INVARIANTS
    TypeOK
    ListedIsFound
    SetIsGot
    ToldIsInForce
    MarksTell
PROPERTIES
    ClickKeepsClass
