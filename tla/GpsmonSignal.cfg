SPECIFICATION Spec
CONSTANTS
    Lines = {"c", "q"}
    MaxPackets = 1
    MaxWrites = 1
    LogCanFill = FALSE
PROPERTIES
    SignalQuits
