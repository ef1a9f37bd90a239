SPECIFICATION FairSpec
CONSTANTS
    StopCap = 3
    DataCap = 1
    MaxLines = 3
    MaxPings = 1
INVARIANTS
    ReasonBeforeCleanUp
    NoLostWakeUp
    AllChunksHandled
PROPERTIES
    HandlerReturns
    NoGoroutineStays
CHECK_DEADLOCK FALSE
