SPECIFICATION FairTimedSpec
CONSTANTS
    a = a
    b = b
    o = o
    None = None
    OneAgent <- OneResource
    QueueCap = 1
    Node <- OneNode
    Hour = 2
    Unreachable <- NoNodes
    Faults <- Missed
PROPERTIES DeletedNodeIsAnnounced EventsAnHourApart DeletedNodesAreForgotten
