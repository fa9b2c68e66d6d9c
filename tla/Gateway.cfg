SPECIFICATION GatewaySpec
CONSTANTS
    Recorders = {r1, r2, r3}
    Nobody = nobody
    Tears = TRUE
    LegacyLines = 1
    MaxId = 5
    Pids = {p1, p2}
    Environments = {dev, prod}
    NoFile = NoFile
    Garbled = Garbled
    Nowhere = Nowhere
    NoPoll = NoPoll
    NoObject = NoObject
    Unread = Unread
    MaxCommands = 2
    MaxExits = 1
    MaxPosts = 1
CHECK_DEADLOCK FALSE
INVARIANTS
    SegmentsChained
    VerifierExact
    OneDaemon
    FileNeverMisleads
PROPERTIES
    AppendOnly
    OneChain
    StopHolds
    DeadIsNotLive
