SPECIFICATION Spec
CONSTANTS
    a1 = a1
    a2 = a2
    a3 = a3
    b1 = b1
    A = A
    B = B
    AutoGroups <- MCAutoGroups
    Channels = {a1, a2, a3, b1}
    Group <- DeepGroup
    Priority <- DeepPriority
    Weight <- DeepWeight
    RetryTimes = 1
    AutomaticDisableChannelEnabled = TRUE
    AutoBan = {}
    NoChannel = NoChannel
    MaxReports = 0
    MaxDBFaults = 0
INVARIANTS
    ExhaustsAllPriorities
CHECK_DEADLOCK FALSE
