SPECIFICATION Spec
CONSTANTS
    t1 = t1
    t2 = t2
    Tasks = {t1}
    Workers = {w1}
    Suno = {t1}
    Realtime = {}
    Orphans = {}
    Legacy = {}
    FullReplies = {t1}
    Quotas = {2}
    PerCall = {FALSE}
    Actual <- MCActual1
    NoTask = NoTask
    MaxFaults = 0
    MaxCrashes = 0
    MaxFetches = 0
INVARIANTS
    InProgressIsSeen
CHECK_DEADLOCK FALSE
