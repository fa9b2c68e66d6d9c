SPECIFICATION Spec
CONSTANTS
    Assets = {a}
    Specs = {s1, s2}
    NoRow = NoRow
    Nothing = Nothing
    SerialPolls = TRUE
    MaxInstalls = 1
    MaxRequests = 2
CHECK_DEADLOCK FALSE
INVARIANT
    DriftIsReviewed
