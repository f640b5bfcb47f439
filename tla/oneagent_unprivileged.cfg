SPECIFICATION LiveSpec
CONSTANTS
    None = None
    Specs <- Unprivileged
    Faults <- NoFaults
    Scenarios <- AllFaults
    MaxVersion = 2
    Interval = 1
PROPERTY PodsAreUpgraded
