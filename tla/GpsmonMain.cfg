SPECIFICATION HSpec
CONSTANTS
    Lines = {"c", "i", "l", "L", "n", "q", "s", "t", "x", "X", "other"}
    MaxPackets = 1
    MaxWrites = 2
    LogCanFill = TRUE
INVARIANTS
    TypeOK
    OneWriter
    KnownReason
    TerminalMode
    PlainSessionSurvives
    OnlyUserHoldsUp
PROPERTIES
    StopIsNear
    ImplementsSession
    StopEnds
    PulseIsReported
