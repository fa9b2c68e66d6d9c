SPECIFICATION FairSpec
CONSTANTS
    Assets = {a}
    Specs = {s1, s2}
    NoRow = NoRow
    Nothing = Nothing
    SerialPolls = FALSE
    MaxInstalls = 1
    MaxRequests = 2
CHECK_DEADLOCK FALSE
INVARIANTS
    RunsOnlyConsented
PROPERTIES
    DenialStops
    ApprovedRuns
    UnknownIsAsked
