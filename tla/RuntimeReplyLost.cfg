SPECIFICATION Spec
CONSTANTS
    Messages = {m1}
    NoMessage = NoMessage
    StopMark = StopMark
    QueueSize = 1
INVARIANTS
    CompletedMeansReplied
