SPECIFICATION PlacementSpec
CONSTANTS
    Spaces = {s1, s2}
    NoSpace = NoSpace
    Nothing = Nothing
    MaxPlacements = 1
    MaxRestarts = 1
CHECK_DEADLOCK FALSE
PROPERTIES
    StreamFollows
