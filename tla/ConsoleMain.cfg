\* Options, lines and commands, a receiver that listens, and gpsd.
SPECIFICATION ConsoleSpec
CONSTANTS
    Monitors <- MCMonitors
    TypeOptions <- MCTypeOptions
    SourceTypes <- MCSourceTypes
    MaxOptions = 2
    Drivers <- MCDrivers
    Methods <- MCMethods
    PacketType <- MCPacketType
    Fragments <- MCFragments
    Receivers <- MCReceivers
    Speeds = {"9600 8N1", "115200 8N1"}
    BufSize = 6
    Texts <- MCTexts
INVARIANTS
    ConsoleTypeOK
    OneTypeOption
    ProbingIsOrdered
    SpeedsAgree
    
PROPERTIES
    WayBack
    DigitDecides
    
