SPECIFICATION Spec
CONSTANTS
    t1 = t1
    t2 = t2
    Tasks = {t1}
    Workers = {w1, w2, w3}
    Suno = {}
    Realtime = {}
    Orphans = {}
    Legacy = {}
    FullReplies = {t1}
    Quotas = {0, 2, 3}
    PerCall = {FALSE, TRUE}
    Actual <- MCActual1
    NoTask = NoTask
    MaxFaults = 1
    MaxCrashes = 1
    MaxFetches = 0
SYMMETRY Sym
INVARIANTS
    OneBill
    BilledExactly
PROPERTIES
    EndIsFinal
CHECK_DEADLOCK FALSE
