SPECIFICATION Spec
CONSTANTS
    a = a
    o = o
    None = None
    OneAgent <- OneResource
    QueueCap = 1
    Node <- OneNode
    Hour = 1
    Unreachable <- NoNodes
    Faults <- AllButSend
INVARIANTS TypeOK MarkMeansTold
PROPERTIES DropIsJustified SavedMarksAreKept
