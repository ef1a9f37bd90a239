SPECIFICATION FairSpec
CONSTANTS
    Runners = {n1, n2}
    MaxTasks = 2
    TTL = 1
    MaxPause = 2
    MaxCrashes = 1
    MaxFaults = 0
    Nobody = Nobody
PROPERTIES
    RunningEnds
    PendingStarts
