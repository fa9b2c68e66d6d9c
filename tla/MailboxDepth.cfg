SPECIFICATION FairSpec
CONSTANTS
    Messages = {m1, m2}
    Callers = {c1}
    NoMessage = NoMessage
    Limit = 1
    MaxSwitches = 1
PROPERTIES
    AppendedOnce
    BadgeSettles
