SPECIFICATION FairSpec
CONSTANTS
    a1 = a1
    a2 = a2
    a3 = a3
    b1 = b1
    A = A
    B = B
    AutoGroups <- MCAutoGroups
    Channels = {a1, a2, b1}
    Group <- MCGroup
    Priority <- MCPriority
    Weight <- MCWeight
    RetryTimes = 1
    AutomaticDisableChannelEnabled = TRUE
    AutoBan = {a1, b1}
    NoChannel = NoChannel
    MaxReports = 1
    MaxDBFaults = 1
INVARIANTS
    WalkInOrder
    ExhaustsPriorities
    DisabledOnlyByRace
PROPERTIES
    RequestEnds
    CacheConverges
CHECK_DEADLOCK FALSE
