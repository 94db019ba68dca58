SPECIFICATION Spec
CONSTANTS
    Programs <- MCPrograms
    Later <- MCLater
    Ids = {1, 2}
    Statuses = {"openbox"}
    OwnHostname = "none"
    MaxChanges = 3
INVARIANTS
    TypeOK
    Identified
    WhoseProcess
PROPERTIES
    FeedbackEnds
