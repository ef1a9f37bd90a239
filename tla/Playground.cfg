SPECIFICATION FairSpec
CONSTANTS
    Modes = {TRUE, FALSE}
    ChunkSizes = {1, 2}
    MaxStored = 2
    MaxStoredChars = 3
    MaxLoadedChars = 2
    MaxMessageChars = 2
    MaxKey = 3
    MaxChunks = 2
    MaxVisits = 2
    MaxSaveFaults = 1
INVARIANTS
    PendingOnlyWhileGenerating
    RunsCanBeStopped
    SavedIsShown
PROPERTIES
    AnswersFollowExchange
    GenerationEnds
CHECK_DEADLOCK FALSE
