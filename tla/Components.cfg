SPECIFICATION Spec
CONSTANTS
    Errors = {e1, e2}
    NoError = NoError
    NoObject = NoObject
    MaxErrors = 2
    MaxCommands = 1
    MaxExits = 1
    MaxDeaths = 1
    Messages = {m1, m2}
    NoMessage = NoMessage
    QueueSize = 1
    SeenMax = 1
    MaxMatches = 2
    Policies = {p1}
    Idle = Idle
    Cadence = 1
    MaxFires = 2
    MaxTime = 2
    MaxEdits = 2
    MaxCrashes = 1
    Beaters = {b1, b2}
    Unwritten = Unwritten
    HistorySize = 2
    MaxBeats = 2
    Clients = {c1, c2}
    TokenKeys = {k1}
    NoFile = NoFile
    CutOff = CutOff
    Retries = 1
    MaxIssued = 2
    Mentions = {n1, n2}
    NoMention = NoMention
    MentionQueue = 1
    MaxLimited = 1
    MaxTroubles = 1
    Replies = {r1}
    MaxRounds = 2
    ClockBehind = 0
    Vendors = {"groq", "mistral", "gemini", "openai"}
    MaxTurns = 2
    HistoryMax = 2
    MaxCalls = 2
    MaxMentions = 4
    MaxRevocations = 1
    Threads = {t1, t2, t3}
    NoThread = NoThread
    MaxRemembered = 2
    MaxHeard = 4
CHECK_DEADLOCK FALSE
INVARIANTS TypeOK OneChild GivesUp NotifiedOnce FiredOnce PushedArrived RefusedIsFresh RefusalsEnd RedirectIsUnambiguous  OfflineIsLast
PROPERTIES BrokenIsDisabled ChildShown SeenIsOffered DueIsFired FinalStands MentionIsTaken 
