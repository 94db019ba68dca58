SPECIFICATION Spec
CONSTANTS
    Programs <- MCMimic
    Later <- MCNone
    Ids = {1}
    Statuses = {}
    OwnHostname = "none"
    MaxChanges = 0
INVARIANT
    NamingHandled
