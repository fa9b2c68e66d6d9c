SPECIFICATION Spec
CONSTANTS
    NoRow = NoRow
    Unset = Unset
    Daemon = daemon
    Names = {a1}
    Operators = {o1}
    SerialSaves = TRUE
    Commands = {"start", "stop", "attach", "announce", "hide", "unhide", "archive", "restore", "add", "remove", "approve", "deny"}
    MaxId = 2
INVARIANTS
    ArchivedRowsRemember

    
    
    
