SPECIFICATION FairSpec
CONSTANTS
    StopCap = 3
    DataCap = 1
    MaxLines = 1
    MaxPings = 1
PROPERTIES
    BufferAvoidsBlocking
CHECK_DEADLOCK FALSE
