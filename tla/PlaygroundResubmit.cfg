SPECIFICATION Spec
CONSTANTS
    Modes = {TRUE, FALSE}
    ChunkSizes = {1, 2}
    MaxStored = 2
    MaxStoredChars = 3
    MaxLoadedChars = 2
    MaxMessageChars = 2
    MaxKey = 4
    MaxChunks = 2
    MaxVisits = 0
    MaxSaveFaults = 1
INVARIANTS
    AnswerInOwnMessage
CHECK_DEADLOCK FALSE
