SPECIFICATION CollectorSpec
CONSTANTS
    Windows = {w1, w2, w3, w4}
    Screens <- MCScreens
    Arrivals <- MCArrivals
    Forced = {"ubx", "json", "nmea"}
    AllocMayFail = FALSE
    MaxSolutions = 0
INVARIANTS
    WrapDeallocates
