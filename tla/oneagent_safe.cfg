SPECIFICATION Spec
CONSTANTS
    None = None
    Specs <- Edited
    Faults <- CallsEditsAndMore
    Scenarios <- EditsOrMore
    MaxVersion = 2
    Interval = 1
PROPERTIES NoUnaskedDowngrade ProbesAreSpaced RestartsAreFarApart
