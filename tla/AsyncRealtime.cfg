SPECIFICATION Spec
CONSTANTS
    t1 = t1
    t2 = t2
    Tasks = {t1}
    Workers = {w1, w2}
    Suno = {}
    Realtime = {t1}
    Orphans = {}
    Legacy = {}
    FullReplies = {}
    Quotas = {2}
    PerCall = {FALSE}
    Actual <- MCActual1
    NoTask = NoTask
    MaxFaults = 0
    MaxCrashes = 0
    MaxFetches = 1
SYMMETRY Sym
INVARIANTS
    BilledExactly
CHECK_DEADLOCK FALSE
