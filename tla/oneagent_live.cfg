SPECIFICATION LiveSpec
CONSTANTS
    None = None
    Specs <- Supported
    Faults <- Both
    Scenarios <- LostOrUnready
    MaxVersion = 2
    Interval = 1
INVARIANT TypeOK
PROPERTIES NoUnaskedDowngrade PodsAreUpgraded EventuallyRunning ErrorIsShown DeployingIsShown
