SPECIFICATION RecorderSpec
CONSTANTS
    MaxSolutions = 2
\* A call with a freed connection may kill the process, and then nothing happens.
CHECK_DEADLOCK FALSE
INVARIANTS
    ConnectionIsChecked
