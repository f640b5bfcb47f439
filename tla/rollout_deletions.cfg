SPECIFICATION Spec
CONSTANTS
    n1 = n1
    n2 = n2
    a = a
    b = b
    c = c
    None = None
    Node <- OneNode
    Name <- ThreeNames
    MaxVersion = 3
    WaitSecs = 0
    Splay = 1
    Width = 8
    Release <- Releases
    Faults <- Untidy
PROPERTY OnlyOutdatedPodsAreDeleted
SYMMETRY Names
