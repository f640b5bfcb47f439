SPECIFICATION TimedSpec
CONSTANTS
    a = a
    b = b
    o = o
    None = None
    OneAgent <- OneResource
    QueueCap = 1
    Node <- TwoNodes
    Hour = 1
    Unreachable <- OnlyB
    Faults <- NoFaults
PROPERTY DeletedNodeIsAnnounced
