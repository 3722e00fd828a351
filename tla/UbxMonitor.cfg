SPECIFICATION UbxSpec
CONSTANTS
    Base = 4
    MAXSKYCHANS = 16
    Reports <- MCReports
    Coordinates <- MCCoordinates
    Times <- MCTimes
    LeapSeconds = 18
INVARIANTS
    UbxTypeOK
    PaneShowsReport
    RowIsSolution
