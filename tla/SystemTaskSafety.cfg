SPECIFICATION Spec
CONSTANTS
    Runners = {n1, n2}
    MaxTasks = 2
    TTL = 2
    MaxPause = 3
    MaxCrashes = 1
    MaxFaults = 1
    Nobody = Nobody
SYMMETRY Sym
INVARIANTS
    RunningHasLock
PROPERTIES
    BoardSpec
