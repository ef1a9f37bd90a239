SPECIFICATION FairSpec
CONSTANTS
    t1 = t1
    t2 = t2
    Tasks = {t1, t2}
    Workers = {w1}
    Suno = {t2}
    Realtime = {t1}
    Orphans = {t1, t2}
    Legacy = {t2}
    FullReplies = {t1, t2}
    Quotas = {2}
    PerCall = {FALSE}
    Actual <- MCActual2
    NoTask = NoTask
    MaxFaults = 1
    MaxCrashes = 1
    MaxFetches = 1
PROPERTIES
    TaskEnds
CHECK_DEADLOCK FALSE
