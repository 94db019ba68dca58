CONSTANTS
    d1 = d1
    d2 = d2
    c1 = c1
    t1 = t1
    t2 = t2
    plain = plain
    Daemons = {d1, d2}
    Clients = {c1}
    Flushing = {}
    Themes = {t1, t2}
    Styles = {t1, plain}
    SystemStyle = plain
    NoTheme = NoTheme
    Beginnings <- MCBeginnings
    MaxEchoes = 1
    MaxChanges = 1
SPECIFICATION FairSpec
INVARIANTS
    TypeOK
    NeverStale
PROPERTIES
    Settles
CHECK_DEADLOCK FALSE
