\* Packets, objects and pulses after any start.
SPECIFICATION HookSpec
CONSTANTS
    Monitors = {"ubx"}
    TypeOptions = {}
    SourceTypes = {"SOURCE_USB", "SOURCE_BLUETOOTH", "SOURCE_TCP"}
    MaxOptions = 1
    NS_IN_SEC = 3
    Times <- MCTimes
    Seconds = {0, 1, 2}
    Packets <- MCPackets
    BufSpace = 6
INVARIANTS
    HookTypeOK
    OnePpsWriter
    OffsetIsExact
    NewestIsLatched
    DumpIsPrefix
    
