SPECIFICATION FairSpec
CONSTANTS
    Runners = {n1, n2}
    MaxTasks = 1
    TTL = 1
    MaxPause = 3
    MaxCrashes = 0
    MaxFaults = 0
    Nobody = Nobody
PROPERTIES
    ExpiredLeaseFails
