SPECIFICATION Spec
CONSTANTS
    Runners = {n1, n2, n3}
    MaxTasks = 1
    TTL = 2
    MaxPause = 2
    MaxCrashes = 1
    MaxFaults = 0
    Nobody = Nobody
PROPERTIES
    LiveLeaseKeepsTask
