CONSTANTS
    Commands = {c1, c2}
    Ways <- AllWays
    Styles = {s1, s2}
    SystemStyle = s1
    NoStyle = NoStyle
    MaxRuns = 3
    MaxKills = 1
SPECIFICATION FairSpec
CHECK_DEADLOCK FALSE
INVARIANTS
    TypeOK
    StyleSurvives
    StylesKept
PROPERTIES
    SetMeansSet
    AgreesInTheEnd
