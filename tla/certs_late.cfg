SPECIFICATION SpecOnTime
CONSTANTS
    None = None
    Torn = Torn
    Key <- Keys
    CALife = 5
    TLSLife = 4
    Threshold = 3
    Faults <- Late
INVARIANTS TypeOK PassesConverge
PROPERTIES ServedCertificateIsValid HandedOverInOrder
