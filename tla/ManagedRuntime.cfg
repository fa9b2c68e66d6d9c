SPECIFICATION FairSpec
CONSTANTS
    Messages = {m1, m2}
    NoMessage = NoMessage
    StopMark = StopMark
    QueueSize = 1

    
PROPERTIES
    
    ClaimedIsClosed
    StopEndsThreads
