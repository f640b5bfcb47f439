SPECIFICATION LiveSpec
CONSTANTS
    None = None
    Torn = Torn
    Key <- Keys
    CALife = 6
    TLSLife = 4
    Threshold = 2
    Faults <- Lagging
INVARIANT SecretConsistent
PROPERTIES BundleFollowsFiles RenewedOnlyWhenDue EventuallyTrusted
