SPECIFICATION CollectorSpec
CONSTANTS
    Windows = {w1, w2, w3, w4}
    Screens <- MCScreens
    Arrivals <- MCArrivals
    Forced = {"ubx", "json", "nmea"}
    AllocMayFail = TRUE
    MaxSolutions = 2
SYMMETRY MCSymmetry
INVARIANTS
    DisplayTypeOK
    UpdateDrawsInPanel
    NothingLeaks
    PanesCoverScreen
    UbxIsHandled
    RecorderTypeOK
    RowOrComplaint
    SessionsAreClosed
    DiesOnlyOfConnect
PROPERTIES
    ImplementsLedger
    NoSilentLoss
