SPECIFICATION Spec
CONSTANTS
    n1 = n1
    n2 = n2
    a = a
    b = b
    c = c
    None = None
    Node <- TwoNodes
    Name <- TwoNames
    MaxVersion = 2
    WaitSecs = 2
    Splay = 1
    Width = 8
    Release <- Releases
    Faults <- NoFaults
PROPERTY NextOnlyWhenReady
