SPECIFICATION Spec
CONSTANTS
    Messages = {m1}
    Callers = {c1}
    NoMessage = NoMessage
    Limit = 2
    MaxSwitches = 0
INVARIANTS
    NothingUnseen
