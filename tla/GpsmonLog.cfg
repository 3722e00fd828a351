SPECIFICATION Spec
CONSTANTS
    Lines = {"l", "L", "q"}
    MaxPackets = 1
    MaxWrites = 1
    LogCanFill = FALSE
INVARIANTS
    LogIsWritable
